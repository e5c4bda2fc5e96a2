-------------------------- MODULE DecodeReaderProofs --------------------------
(***************************************************************************)
(* The sliding window of decodeReader holds the last bytes of the stream,  *)
(* for windows of any size, matches of any length and offset, and any      *)
(* number of solid files whose windows grow: WindowIsHistory.  What is     *)
(* read from it are the bytes of the stream, with the filters that are for *)
(* them: OutputExact and EOFComplete.                                      *)
(*                                                                         *)
(* There are two invariants.  IInv says nothing of the calls, the filters  *)
(* or the output: the window is right whatever they do, because they only  *)
(* move r.  What it needs besides is that no more bytes are taken to be in *)
(* the window than it is long, or than the stream has.  OInv is about the  *)
(* rest and rests on IInv: the unread bytes, the block that is being       *)
(* collected, the queue of filters and the blocks they are for, and the    *)
(* output.                                                                 *)
(***************************************************************************)
EXTENDS DecodeReader, DataFacts

(* Where the last byte but q - 1 is, in a window of n bytes written up to a. *)
Slot(n, a, q) == IF q <= a THEN a - q + 1 ELSE a - q + n + 1

(* The window s of n bytes, written up to a, ends with the last k of the   *)
(* m bytes t.                                                              *)
Holds(s, n, a, t, m, k) == \A q \in 1 .. k : s[Slot(n, a, q)] = t[m - q + 1]

WindowInv ==
  /\ win \in Seq(Nat) /\ hist \in Seq(Nat)
  /\ w \in 0 .. size /\ kept \in 0 .. size /\ kept <= Len(hist)
  /\ Holds(win, size, w, hist, Len(hist), kept)

IInv == arch \in Archives /\ ("crossing" \notin arch.features => WindowInv)
-----------------------------------------------------------------------------
(* l bytes are written into the window s at a, which makes it u; they are  *)
(* the next ones of the stream t, which they make z.                       *)
LEMMA Written ==
  ASSUME NEW n \in Nat, NEW a \in 0 .. n, NEW l \in 0 .. n - a,
         NEW m \in Nat, NEW k \in 0 .. n, k <= m,
         NEW s, NEW t, NEW u, NEW z, Holds(s, n, a, t, m, k),
         \A j \in 1 .. l : u[a + j] = z[m + j],
         \A j \in 1 .. n : j \notin a + 1 .. a + l => u[j] = s[j],
         \A j \in 1 .. m : z[j] = t[j]
  PROVE  Holds(u, n, a + l, z, m + l, Smaller(k + l, n))
<1>1. SUFFICES ASSUME NEW q \in 1 .. Smaller(k + l, n)
               PROVE  u[Slot(n, a + l, q)] = z[m + l - q + 1]
  BY DEF Holds
<1>2. q \in Nat /\ q >= 1 /\ q <= k + l /\ q <= n
  BY DEF Smaller
<1>3. CASE q <= l
  <2>1. PICK j \in 1 .. l : j = l - q + 1
    BY <1>2, <1>3
  <2>2. Slot(n, a + l, q) = a + j
    BY <1>2, <1>3, <2>1 DEF Slot
  <2>3. m + l - q + 1 = m + j
    BY <1>2, <2>1
  <2>4. QED
    BY <2>1, <2>2, <2>3
<1>4. CASE q > l
  <2>1. PICK p \in 1 .. k : p = q - l
    BY <1>2, <1>4
  <2>2. Slot(n, a + l, q) = Slot(n, a, p) /\ Slot(n, a, p) \notin a + 1 .. a + l
    BY <1>2, <1>4, <2>1 DEF Slot
  <2>3. Slot(n, a, p) \in 1 .. n
    BY <2>1 DEF Slot
  <2>4. u[Slot(n, a, p)] = s[Slot(n, a, p)]
    BY <2>2, <2>3
  <2>5. s[Slot(n, a, p)] = t[m - p + 1]
    BY <2>1 DEF Holds
  <2>6. PICK i \in 1 .. m : i = m - p + 1
    BY <2>1
  <2>7. i = m + l - q + 1
    BY <1>2, <2>1, <2>6
  <2>8. z[i] = t[i]
    BY <2>6
  <2>9. QED
    BY <2>2, <2>4, <2>5, <2>6, <2>7, <2>8
<1>5. QED
  BY <1>2, <1>3, <1>4

(* What the invariant says with the index taken modulo the size. *)
LEMMA HoldsIs ==
  ASSUME NEW n \in Nat, NEW a \in 0 .. n, NEW q \in 1 .. n
  PROVE  ((a - q) % n) + 1 = Slot(n, a, q)
<1>1. PICK i \in Int : i = a - q
  OBVIOUS
<1>2. n > 0 /\ -n <= i /\ i < n
  BY <1>1
<1>3. /\ i < 0 => i % n = i + n
      /\ i >= 0 => i % n = i
  BY <1>2, ModSmall
<1>4. QED
  BY <1>1, <1>3 DEF Slot

(* What Put makes of a window. *)
LEMMA PutIs ==
  ASSUME NEW s \in Seq(Nat), NEW a \in Nat, NEW b \in Seq(Nat), a + Len(b) <= Len(s)
  PROVE  /\ Put(s, a, b) \in Seq(Nat) /\ Len(Put(s, a, b)) = Len(s)
         /\ \A j \in 1 .. Len(b) : Put(s, a, b)[a + j] = b[j]
         /\ \A j \in 1 .. Len(s) :
              j \notin a + 1 .. a + Len(b) => Put(s, a, b)[j] = s[j]
<1> PICK n \in Nat, l \in Nat : Len(s) = n /\ Len(b) = l
  OBVIOUS
<1>0. a + l <= n
  OBVIOUS
<1>1. /\ \A j \in 1 .. l : b[j] \in Nat
      /\ \A j \in 1 .. n : s[j] \in Nat
  OBVIOUS
<1>2. Put(s, a, b) = [j \in 1 .. n |-> IF j - a \in 1 .. l THEN b[j - a] ELSE s[j]]
  BY DEF Put
<1>3. \A j \in 1 .. n : (IF j - a \in 1 .. l THEN b[j - a] ELSE s[j]) \in Nat
  <2>1. TAKE j \in 1 .. n
  <2>2. CASE j - a \in 1 .. l
    BY <1>1, <2>2
  <2>3. CASE j - a \notin 1 .. l
    BY <1>1, <2>3
  <2>4. QED
    BY <2>2, <2>3
<1>4. Put(s, a, b) \in [1 .. n -> Nat]
  BY <1>2, <1>3
<1>5. Put(s, a, b) \in Seq(Nat) /\ Len(Put(s, a, b)) = n
  BY <1>4
<1>6. ASSUME NEW j \in 1 .. l
      PROVE  Put(s, a, b)[a + j] = b[j]
  <2>1. PICK i \in 1 .. n : i = a + j
    OBVIOUS
  <2>2. i - a = j
    BY <2>1
  <2>3. Put(s, a, b)[i] = b[j]
    BY <1>2, <2>2
  <2>4. QED
    BY <2>1, <2>3
<1>7. ASSUME NEW j \in 1 .. n, j \notin a + 1 .. a + l
      PROVE  Put(s, a, b)[j] = s[j]
  <2>1. j - a \notin 1 .. l
    BY <1>7
  <2>2. QED
    BY <1>2, <2>1
<1>8. QED
  BY <1>5, <1>6, <1>7
-----------------------------------------------------------------------------
(* What c has become of the window and the write index is a match of l     *)
(* bytes from o back, and nothing else.                                    *)
Wrote(c, n, m, l, o) ==
  /\ c.win \in Seq(Nat) /\ Len(c.win) = n /\ c.w = w + l
  /\ \A k \in 1 .. l : c.win[w + k] = hist[m - o + 1 + ((k - 1) % o)]
  /\ \A j \in 1 .. n : j \notin w + 1 .. w + l => c.win[j] = win[j]

(* copyBytes writes the bytes that the match stands for, and no others.    *)
LEMMA Copied ==
  ASSUME WindowInv, NEW n \in Nat, n = size, NEW m \in Nat, m = Len(hist),
         NEW l \in 1 .. n, NEW o \in 1 .. n, o <= kept, l < n, w + l <= n
  PROVE  Wrote(copyBytes(l, o), n, m, l, o)
<1> DEFINE i   == (w - o) % size
           len == l % size
           n1  == IF i > w THEN Smaller(len, size - i) ELSE 0
           f   == [k \in 1 .. n1 |-> win[i + k]]
           a   == Put(win, w, f)
           w1  == w + n1
           i1  == IF i > w THEN 0 ELSE i
           n2  == Smaller(len - n1, size - w1)
           s   == [k \in 1 .. n2 |-> IF i1 = w1 THEN a[w1 + k]
                                           ELSE a[i1 + 1 + ((k - 1) % (w1 - i1))]]
           B(k) == hist[m - o + 1 + ((k - 1) % o)]
<1>1. copyBytes(l, o) = [win |-> Put(a, w1, s), w |-> w1 + n2]
  BY DEF copyBytes
<1>a. /\ win \in Seq(Nat) /\ Len(win) = n /\ hist \in Seq(Nat)
      /\ w \in 0 .. n /\ kept \in 0 .. n /\ kept <= m
  BY DEF WindowInv, size
<1>b. /\ \A j \in 1 .. n : win[j] \in Nat
      /\ \A j \in 1 .. m : hist[j] \in Nat
  <2>1. \A j \in 1 .. Len(win) : win[j] \in Nat
    BY ONLY <1>a
  <2>2. \A j \in 1 .. Len(hist) : hist[j] \in Nat
    BY ONLY <1>a
  <2>3. QED
    BY <1>a, <2>1, <2>2
<1>2. /\ w \in Nat /\ w <= n /\ l \in Nat /\ l >= 1
      /\ o \in Nat /\ o >= 1 /\ o <= n /\ o <= m /\ n >= 1
  BY <1>a
<1>3. len = l
  BY <1>2, ModSmall
<1>4. i \in 0 .. n - 1 /\ i + 1 = Slot(n, w, o)
  <2>1. PICK x \in Int : x = w - o
    BY <1>2
  <2>2. x % n \in 0 .. n - 1
    BY <1>2, ModAdd
  <2>3. i = x % n
    BY <2>1
  <2>4. ((w - o) % n) + 1 = Slot(n, w, o)
    BY <1>2, HoldsIs
  <2>5. QED
    BY <2>1, <2>2, <2>3, <2>4
<1>5. /\ o <= w => i = w - o
      /\ o > w => i = w - o + n
  <2> HIDE DEF i
  <2>1. QED
    BY <1>2, <1>4 DEF Slot
<1>6. ASSUME NEW e \in 0 .. o - 1
      PROVE  win[Slot(n, w, o - e)] = hist[m - o + 1 + e]
  <2>1. PICK q \in 1 .. kept : q = o - e
    BY <1>a, <1>2
  <2>2. m - q + 1 = m - o + 1 + e
    BY <1>2, <2>1
  <2>3. QED
    BY <2>1, <2>2 DEF WindowInv, Holds, size
<1>7. ASSUME NEW k \in 1 .. l
      PROVE  /\ (k - 1) % o \in 0 .. o - 1
             /\ B(k) \in Nat
             /\ k - 1 < o => (k - 1) % o = k - 1
  <2>1. PICK x \in Int : x = k - 1
    OBVIOUS
  <2>2. x % o \in 0 .. o - 1
    BY <1>2, ModAdd
  <2>3. x < o => x % o = x
    BY <1>2, <2>1, ModSmall
  <2>4. PICK y \in 1 .. m : y = m - o + 1 + (x % o)
    BY <1>2, <2>2
  <2>5. hist[y] \in Nat
    BY <1>b
  <2>6. QED
    BY <1>2, <2>1, <2>2, <2>3, <2>4, <2>5
<1>8. SUFFICES /\ s \in Seq(Nat) /\ a \in Seq(Nat) /\ Len(a) = n
               /\ n1 \in 0 .. l /\ Len(s) = l - n1 /\ n2 = l - n1
               /\ \A k \in 1 .. n1 : a[w + k] = B(k)
               /\ \A j \in 1 .. n : j \notin w + 1 .. w + n1 => a[j] = win[j]
               /\ \A k \in 1 .. l - n1 : s[k] = B(n1 + k)
  <2> HIDE DEF s, a, n1, n2, B
  <2> SUFFICES ASSUME s \in Seq(Nat) /\ a \in Seq(Nat) /\ Len(a) = n,
                      n1 \in 0 .. l, Len(s) = l - n1, n2 = l - n1,
                      \A k \in 1 .. n1 : a[w + k] = B(k),
                      \A j \in 1 .. n : j \notin w + 1 .. w + n1 => a[j] = win[j],
                      \A k \in 1 .. l - n1 : s[k] = B(n1 + k)
               PROVE  LET c == copyBytes(l, o) IN
                      /\ c.win \in Seq(Nat) /\ Len(c.win) = n /\ c.w = w + l
                      /\ \A k \in 1 .. l : c.win[w + k] = B(k)
                      /\ \A j \in 1 .. n : j \notin w + 1 .. w + l => c.win[j] = win[j]
    BY Zenon DEF B, Wrote
  <2>1. PICK v \in 0 .. n, p \in 0 .. n :
            v = w1 /\ p = l - n1 /\ v + p = w + l
    <3>1. PICK x \in Nat : x = n1 /\ x <= l
      BY <1>2
    <3>2. /\ w + x \in 0 .. n /\ l - x \in 0 .. n
          /\ (w + x) + (l - x) = w + l
      BY ONLY <1>2, <3>1, w + l <= n, x \in Nat, n \in Nat
    <3>3. QED
      BY ONLY <3>1, <3>2 DEF w1
  <2>2. PICK u : u = Put(a, v, s)
    OBVIOUS
  <2> HIDE DEF w1
  <2>3. /\ u \in Seq(Nat) /\ Len(u) = n
        /\ \A j \in 1 .. p : u[v + j] = s[j]
        /\ \A j \in 1 .. n : j \notin v + 1 .. v + p => u[j] = a[j]
    <3>1. v \in Nat /\ Len(s) = p /\ v + p <= n
      BY <1>2, <2>1
    <3>2. /\ a \in Seq(Nat) /\ Len(a) = n /\ s \in Seq(Nat)
          /\ n \in Nat /\ p \in Nat
      OBVIOUS
    <3>3. v + Len(s) <= Len(a)
      BY <3>1, <3>2
    <3>4. /\ Put(a, v, s) \in Seq(Nat) /\ Len(Put(a, v, s)) = Len(a)
          /\ \A j \in 1 .. Len(s) : Put(a, v, s)[v + j] = s[j]
          /\ \A j \in 1 .. Len(a) :
               j \notin v + 1 .. v + Len(s) => Put(a, v, s)[j] = a[j]
      BY ONLY Zenon, <3>1, <3>2, <3>3, PutIs
    <3>5. QED
      BY Zenon, <2>2, <3>1, <3>2, <3>4
  <2>4. ASSUME NEW k \in 1 .. l
        PROVE  u[w + k] = B(k)
    <3>1. CASE k <= n1
      <4>1. PICK j \in 1 .. n : j = w + k
        BY <1>2
      <4>2. j \notin v + 1 .. v + p
        BY <1>2, <2>1, <3>1, <4>1
      <4>3. a[j] = B(k)
        BY <3>1, <4>1
      <4>4. QED
        BY <2>3, <4>1, <4>2, <4>3
    <3>2. CASE k > n1
      <4>1. PICK j \in 1 .. p : j = k - n1
        <5>1. PICK x \in Nat : x = n1
          BY <1>2
        <5>2. k \in Nat /\ k <= l /\ p \in Nat
          BY <1>2
        <5>3. k - x \in 1 .. p
          BY ONLY <1>2, <2>1, <3>2, <5>1, <5>2, x \in Nat
        <5>4. QED
          BY ONLY <5>1, <5>3
      <4>2. v + j = w + k /\ n1 + j = k
        BY <1>2, <2>1, <4>1
      <4>3. s[j] = B(n1 + j)
        BY <2>1
      <4>4. QED
        BY <2>3, <4>2, <4>3
    <3>3. QED
      BY <3>1, <3>2
  <2>5. ASSUME NEW j \in 1 .. n, j \notin w + 1 .. w + l
        PROVE  u[j] = win[j]
    <3>1. j \notin v + 1 .. v + p /\ j \notin w + 1 .. w + n1
      BY <1>2, <2>1, <2>5
    <3>2. QED
      BY <2>3, <3>1
  <2>6. copyBytes(l, o).win = u /\ copyBytes(l, o).w = w + l
    BY <1>1, <2>1, <2>2
  <2>7. QED
    BY <2>3, <2>4, <2>5, <2>6
<1>9. CASE i <= w
  <2>1. n1 = 0 /\ w1 = w /\ i1 = i
    BY <1>2, <1>5, <1>9
  <2>2. f = <<>>
    BY <2>1
  <2>3. a \in Seq(Nat) /\ Len(a) = n /\ \A j \in 1 .. n : a[j] = win[j]
    <3> HIDE DEF f
    <3>1. PICK z \in Seq(Nat) : z = <<>> /\ Len(z) = 0
      BY ONLY EmptySeq
    <3>2. w \in Nat /\ w + 0 <= n
      BY <1>2
    <3>3. \A j \in 1 .. n : j \notin w + 1 .. w + 0
      BY <1>2
    <3>4. PICK y : y = Put(win, w, z)
      OBVIOUS
    <3>5. /\ y \in Seq(Nat) /\ Len(y) = n
          /\ \A j \in 1 .. n : j \notin w + 1 .. w + 0 => y[j] = win[j]
      <4>1. n \in Nat /\ win \in Seq(Nat) /\ Len(win) = n
        BY <1>a
      <4>2. w + Len(z) <= Len(win)
        BY <4>1, <3>1, <3>2
      <4>3. /\ Put(win, w, z) \in Seq(Nat) /\ Len(Put(win, w, z)) = Len(win)
            /\ \A j \in 1 .. Len(win) :
                 j \notin w + 1 .. w + Len(z) => Put(win, w, z)[j] = win[j]
        <5>1. z \in Seq(Nat) /\ w \in Nat
          BY <3>2
        <5>2. QED
          BY ONLY Zenon, <4>1, <4>2, <5>1, PutIs
      <4>4. QED
        BY Zenon, <3>1, <3>4, <4>1, <4>3
    <3>6. QED
      BY <2>2, <3>1, <3>3, <3>4, <3>5
  <2>4. n2 = l
    BY <1>2, <1>3, <2>1 DEF Smaller, size
  <2>5. s = [k \in 1 .. l |-> IF i = w THEN a[w + k] ELSE a[i + 1 + ((k - 1) % (w - i))]]
    BY <2>1, <2>4
  <2> HIDE DEF a, n1, w1, i1, n2, s
  <2>6. ASSUME NEW k \in 1 .. l
        PROVE  (IF i = w THEN a[w + k] ELSE a[i + 1 + ((k - 1) % (w - i))]) = B(k)
    <3>1. CASE o <= w
      <4>1. i = w - o /\ w - i = o /\ i # w
        BY <1>2, <1>5, <3>1
      <4>2. PICK e \in 0 .. o - 1 : e = (k - 1) % o
        BY <1>7
      <4>3. PICK j \in 1 .. n : j = w - o + 1 + e
        BY <1>2, <3>1, <4>2
      <4>4. Slot(n, w, o - e) = j
        BY <1>2, <3>1, <4>2, <4>3 DEF Slot
      <4>5. a[j] = B(k)
        BY <1>6, <2>3, <4>2, <4>4
      <4>6. i + 1 + e = j
        BY <4>1, <4>3
      <4>7. QED
        BY <4>1, <4>2, <4>5, <4>6
    <3>2. CASE o > w
      <4>1. i = w /\ o = n
        BY <1>2, <1>5, <1>9, <3>2
      <4>2. PICK e \in 0 .. o - 1 : e = (k - 1) % o /\ e = k - 1
        <5>1. k - 1 < o
          BY <1>2, <4>1
        <5>2. QED
          BY <1>7, <5>1
      <4>3. PICK j \in 1 .. n : j = w + k
        BY <1>2
      <4>4. Slot(n, w, o - e) = j
        BY <1>2, <4>1, <4>2, <4>3 DEF Slot
      <4>5. a[j] = B(k)
        BY <1>6, <2>3, <4>2, <4>4
      <4>6. QED
        BY <4>1, <4>3, <4>5
    <3>3. QED
      BY <1>2, <3>1, <3>2
  <2>7. \A k \in 1 .. l : s[k] = B(k) /\ s[k] \in Nat
    BY <1>7, <2>5, <2>6
  <2>8. s \in Seq(Nat) /\ Len(s) = l
    <3>1. s \in [1 .. l -> Nat]
      BY <2>5, <2>7
    <3>2. QED
      BY <1>2, <3>1
  <2>9. QED
    BY <1>2, <2>1, <2>3, <2>4, <2>7, <2>8
<1>10. CASE i > w
  <2>1. o > w /\ i = w - o + n /\ o < n /\ n - i = o - w
    <3> HIDE DEF i
    <3>1. QED
      BY <1>2, <1>4, <1>5, <1>10
  <2>2. i1 = 0 /\ n1 = Smaller(l, o - w)
    BY <1>3, <1>10, <2>1 DEF size
  <2>3. PICK c \in 0 .. l : n1 = c /\ c <= o - w /\ (c < l => c = o - w)
    BY <1>2, <2>1, <2>2 DEF Smaller
  <2>4. PICK v \in Nat : v = w1 /\ v = w + c /\ v <= n
    BY <1>2, <2>3
  <2>5. n2 = l - c
    <3>1. n2 = Smaller(l - c, n - v)
      BY <1>3, <2>3, <2>4
    <3>2. l - c <= n - v
      BY <1>2, <2>4
    <3>3. QED
      BY ONLY <3>1, <3>2 DEF Smaller
  <2>6. f = [k \in 1 .. c |-> win[i + k]]
    BY <2>3
  <2>7. s = [k \in 1 .. l - c |-> IF 0 = v THEN a[v + k] ELSE a[0 + 1 + ((k - 1) % (v - 0))]]
    BY <2>2, <2>4, <2>5
  <2> HIDE DEF i, s, n1, n2, w1, i1
  <2>8. ASSUME NEW k \in 1 .. c
        PROVE  win[i + k] = B(k)
    <3>1. PICK e \in 0 .. o - 1 : e = (k - 1) % o /\ e = k - 1
      <4>1. k \in 1 .. l /\ k - 1 < o
        BY <1>2, <2>3
      <4>2. QED
        BY <1>7, <4>1
    <3>2. Slot(n, w, o - e) = i + k
      BY <1>2, <2>1, <2>3, <3>1 DEF Slot
    <3>3. QED
      BY <1>6, <3>1, <3>2
  <2>9. f \in Seq(Nat) /\ Len(f) = c /\ \A k \in 1 .. c : f[k] = B(k)
    <3>1. \A k \in 1 .. c : k \in 1 .. l
      BY <2>3
    <3>2. \A k \in 1 .. c : f[k] = B(k) /\ f[k] \in Nat
      BY <1>7, <2>6, <2>8, <3>1
    <3>3. f \in [1 .. c -> Nat]
      BY <2>6, <3>2
    <3>4. QED
      BY <2>3, <3>2, <3>3
  <2> HIDE DEF f, B
  <2>10. /\ a \in Seq(Nat) /\ Len(a) = n
         /\ \A k \in 1 .. c : a[w + k] = B(k)
         /\ \A j \in 1 .. n : j \notin w + 1 .. w + c => a[j] = win[j]
    <3>1. f \in Seq(Nat) /\ win \in Seq(Nat) /\ w \in Nat
      BY <1>a, <2>9
    <3>2. w + Len(f) <= Len(win)
      BY <1>a, <2>4, <2>9
    <3>3. /\ a \in Seq(Nat) /\ Len(a) = Len(win)
          /\ \A k \in 1 .. Len(f) : a[w + k] = f[k]
          /\ \A j \in 1 .. Len(win) : j \notin w + 1 .. w + Len(f) => a[j] = win[j]
      BY ONLY Zenon, <3>1, <3>2, PutIs DEF a
    <3> HIDE DEF a
    <3>4. \A k \in 1 .. c : a[w + k] = f[k]
      BY Zenon, <2>9, <3>3
    <3>5. \A j \in 1 .. n : j \notin w + 1 .. w + c => a[j] = win[j]
      BY Zenon, <1>a, <2>9, <3>3
    <3>6. QED
      BY <1>a, <2>9, <3>3, <3>4, <3>5
  <2> HIDE DEF a
  <2>11. ASSUME NEW k \in 1 .. l - c
         PROVE  /\ (IF 0 = v THEN a[v + k] ELSE a[0 + 1 + ((k - 1) % (v - 0))]) = B(c + k)
                /\ B(c + k) \in Nat
    <3>1. c = o - w /\ v = o /\ v - 0 = o /\ 0 # v
      BY <1>2, <2>3, <2>4
    <3>2. PICK x \in Int, y \in 1 .. l : x = k - 1 /\ y = c + k
      BY <1>2, <2>3
    <3>3. PICK e \in 0 .. o - 1 : e = x % o
      <4>1. x % o \in 0 .. o - 1
        BY <1>2, ModAdd
      <4>2. QED
        BY <4>1
    <3>4. (x + c) % o = (e + c) % o
      BY <1>2, <2>3, <3>3, ModAdd
    <3>5. PICK g \in Int : g = e + c
      BY <2>3
    <3>6. /\ g < o => g % o = g
          /\ g >= o => g % o = g - o
      <4>1. /\ g \in Int /\ o \in Nat /\ o > 0 /\ 0 <= g /\ g < o + o
            /\ -o <= g
        BY <1>2, <2>1, <3>1, <3>3, <3>5
      <4>2. QED
        BY ONLY <4>1, ModSmall
    <3>7. y - 1 = x + c
      BY <2>3, <3>2
    <3>8. (y - 1) % o = g % o
      BY <3>4, <3>5, <3>7
    <3>9. PICK j \in 1 .. n : j = 0 + 1 + e
      BY <1>2, <3>3
    <3>10. a[j] = B(y)
      <4>1. CASE e < w
        <5>1. g < o
          BY <1>2, <3>1, <3>3, <3>5, <4>1
        <5>2. g \in 0 .. o - 1 /\ (y - 1) % o = g
          BY <1>2, <2>3, <3>3, <3>5, <3>6, <3>8, <5>1
        <5>3. Slot(n, w, o - g) = j
          <6>1. PICK q \in Nat : q = o - g /\ q = w - e /\ q <= w
            BY <1>2, <3>1, <3>3, <3>5, <4>1
          <6>2. QED
            BY <1>2, <3>3, <3>9, <6>1 DEF Slot
        <5>4. j \notin w + 1 .. w + c
          BY <1>2, <3>9, <4>1
        <5>5. a[j] = win[j]
          BY <2>10, <5>4
        <5>6. QED
          BY <1>6, <5>2, <5>3, <5>5 DEF B
      <4>2. CASE e >= w
        <5>1. PICK z \in 1 .. c : z = e - w + 1
          <6>1. e - w + 1 >= 1 /\ e - w + 1 <= c /\ e - w + 1 \in Int
            BY <1>2, <3>1, <3>3, <4>2
          <6>2. QED
            BY ONLY <6>1
        <5>2. g >= o /\ g - o = e - w
          BY <1>2, <3>1, <3>3, <3>5, <4>2
        <5>3. z \in 1 .. l /\ z - 1 < o /\ z - 1 = g - o
          BY <1>2, <2>3, <3>1, <5>1, <5>2
        <5>4. (z - 1) % o = z - 1
          BY <1>7, <5>3
        <5>5. (z - 1) % o = (y - 1) % o
          BY <3>6, <3>8, <5>2, <5>3, <5>4
        <5>6. a[w + z] = B(z)
          BY <2>10
        <5>7. w + z = j
          BY <1>2, <3>3, <3>9, <5>1
        <5>8. B(z) = B(y)
          BY <5>5 DEF B
        <5>9. QED
          BY <5>6, <5>7, <5>8
      <4>3. QED
        BY <1>2, <3>3, <4>1, <4>2
    <3>11. B(y) \in Nat
      BY <1>7
    <3>12. QED
      BY <3>1, <3>2, <3>3, <3>9, <3>10, <3>11
  <2>12. s \in Seq(Nat) /\ Len(s) = l - c /\ \A k \in 1 .. l - c : s[k] = B(c + k)
    <3>1. PICK p \in Nat : p = l - c
      BY <2>3
    <3>2. \A k \in 1 .. l - c : s[k] = B(c + k) /\ s[k] \in Nat
      BY <2>7, <2>11
    <3>3. s \in [1 .. p -> Nat]
      BY <2>7, <3>1, <3>2
    <3>4. QED
      BY <3>1, <3>2, <3>3
  <2>13. QED
    BY <2>3, <2>5, <2>10, <2>12
<1>11. QED
  <2> HIDE DEF i
  <2>1. i <= w \/ i > w
    BY <1>2, <1>4
  <2>2. QED
    BY ONLY Zenon, <2>1, <1>9, <1>10
-----------------------------------------------------------------------------
(* The window after the bytes b of the stream were written into it.        *)
LEMMA Extended ==
  ASSUME WindowInv, NEW b \in Seq(Nat), NEW l \in Nat, Len(b) = l, w + l <= size,
         win' \in Seq(Nat), Len(win') = size, w' = w + l,
         hist' = Cat(hist, b), kept' = Smaller(kept + l, size),
         \A k \in 1 .. l : win'[w + k] = b[k],
         \A j \in 1 .. size : j \notin w + 1 .. w + l => win'[j] = win[j]
  PROVE  WindowInv'
<1>1. PICK n \in Nat, m \in Nat, a \in Nat, k \in Nat :
           n = size /\ m = Len(hist) /\ a = w /\ k = kept
  BY DEF WindowInv, size
<1>2. /\ a <= n /\ k <= n /\ k <= m /\ a + l <= n /\ size' = n
      /\ Holds(win, n, a, hist, m, k)
  BY <1>1 DEF WindowInv, size
<1>3. PICK z : z = hist'
  OBVIOUS
<1>4. /\ z \in Seq(Nat) /\ Len(z) = m + l
      /\ \A j \in 1 .. m : z[j] = hist[j]
      /\ \A j \in 1 .. l : z[m + j] = b[j]
  <2>1. hist \in Seq(Nat)
    BY DEF WindowInv
  <2>2. z = Cat(hist, b)
    BY <1>3
  <2>3. QED
    <3>1. /\ Cat(hist, b) \in Seq(Nat)
          /\ Len(Cat(hist, b)) = Len(hist) + Len(b)
          /\ \A j \in 1 .. Len(hist) : Cat(hist, b)[j] = hist[j]
          /\ \A j \in 1 .. Len(b) : Cat(hist, b)[Len(hist) + j] = b[j]
      <4>1. b \in Seq(Nat)
        OBVIOUS
      <4>2. Cat(hist, b) \in Seq(Nat) /\ Len(Cat(hist, b)) = Len(hist) + Len(b)
        BY ONLY <2>1, <4>1, CatType
      <4>3. \A j \in 1 .. Len(hist) : Cat(hist, b)[j] = hist[j]
        BY ONLY <2>1, <4>1, CatType
      <4>4. \A j \in 1 .. Len(b) : Cat(hist, b)[Len(hist) + j] = b[j]
        BY ONLY <2>1, <4>1, CatType
      <4>5. QED
        BY <4>2, <4>3, <4>4
    <3>2. QED
      BY Zenon, <1>1, <2>2, <3>1
<1>5. PICK u : u = win'
  OBVIOUS
<1>6. \A j \in 1 .. l : u[a + j] = z[m + j]
  BY <1>1, <1>4, <1>5
<1>7. \A j \in 1 .. n : j \notin a + 1 .. a + l => u[j] = win[j]
  BY <1>1, <1>5
<1>8. Holds(u, n, a + l, z, m + l, Smaller(k + l, n))
  <2>1. a \in 0 .. n /\ l \in 0 .. n - a /\ k \in 0 .. n
    BY <1>2
  <2>2. QED
    <3>1. n \in Nat /\ m \in Nat /\ k <= m /\ Holds(win, n, a, hist, m, k)
      BY <1>2
    <3>2. \A j \in 1 .. m : z[j] = hist[j]
      BY <1>4
    <3>3. QED
      BY ONLY Zenon, <1>6, <1>7, <2>1, <3>1, <3>2, Written
<1>9. Smaller(k + l, n) \in 0 .. n /\ Smaller(k + l, n) <= m + l
  <2> k \in Nat /\ l \in Nat /\ m \in Nat /\ n \in Nat
    OBVIOUS
  <2>1. PICK x \in Nat : x = k + l /\ x <= m + l
    BY ONLY <1>2, k \in Nat, l \in Nat, m \in Nat
  <2>2. PICK y \in Nat : y = m + l
    OBVIOUS
  <2>3. Smaller(x, n) \in 0 .. n /\ Smaller(x, n) <= y
    BY <2>1, <2>2 DEF Smaller
  <2>4. QED
    BY <2>1, <2>2, <2>3
<1>10. a + l \in 0 .. n
  BY <1>2
<1>11. /\ win' = u /\ hist' = z /\ w' = a + l /\ kept' = Smaller(k + l, n)
       /\ Len(hist') = m + l
  BY <1>1, <1>3, <1>4, <1>5
<1>12. QED
  BY Zenon, <1>2, <1>4, <1>8, <1>9, <1>10, <1>11 DEF WindowInv

(* A window that is full is written from its start. *)
LEMMA Wrapped ==
  ASSUME WindowInv, w = size, w' = 0, UNCHANGED <<win, hist, kept>>
  PROVE  WindowInv'
<1>1. PICK n \in Nat, m \in Nat, k \in Nat : n = size /\ m = Len(hist) /\ k = kept
  BY DEF WindowInv, size
<1>2. k <= n /\ Holds(win, n, n, hist, m, k)
  BY <1>1 DEF WindowInv
<1>3. ASSUME NEW q \in 1 .. k
      PROVE  Slot(n, 0, q) = Slot(n, n, q)
  BY <1>2 DEF Slot
<1>4. Holds(win, n, 0, hist, m, k)
  BY <1>2, <1>3 DEF Holds
<1>5. 0 \in 0 .. n
  OBVIOUS
<1>6. size' = n /\ Len(hist') = m
  BY <1>1 DEF size
<1>7. QED
  BY Zenon, <1>1, <1>4, <1>5, <1>6 DEF WindowInv

(* A file may start on a window that is cleared, on one that grows, with   *)
(* its bytes moved to the start, and on the one there was.                 *)
LEMMA Started ==
  ASSUME WindowInv, NEW sz \in Nat, sz > 0, NEW reset \in BOOLEAN,
         win' = InitWindow(sz, reset).win, w' = InitWindow(sz, reset).w,
         kept' = IF reset THEN 0 ELSE kept,
         hist' = IF reset THEN <<>> ELSE hist
  PROVE  WindowInv' /\ size' > 0
<1>1. PICK n \in Nat, m \in Nat, a \in Nat, k \in Nat :
           n = size /\ m = Len(hist) /\ a = w /\ k = kept
  BY DEF WindowInv, size
<1>2. /\ a <= n /\ k <= n /\ k <= m /\ Len(win) = n
      /\ win \in Seq(Nat) /\ hist \in Seq(Nat) /\ Holds(win, n, a, hist, m, k)
  BY <1>1 DEF WindowInv, size
<1>3. PICK g \in Nat : g = Larger(sz, MinWindowSize) /\ g > 0
  BY SizeAssumption DEF Larger
<1>4. \A e \in Nat : Zeros(e) \in Seq(Nat) /\ Len(Zeros(e)) = e
  BY DEF Zeros
<1>5. \A z, t, x, y : Holds(z, x, y, t, 0, 0) /\ Holds(z, x, y, t, m, 0)
  BY DEF Holds
<1>6. CASE reset
  <2>1. PICK e \in Nat : win' = Zeros(e) /\ w' = 0 /\ e > 0
    <3>1. CASE g > n
      BY <1>1, <1>3, <1>6, <3>1 DEF InitWindow
    <3>2. CASE g <= n
      BY <1>1, <1>3, <1>6, <3>2 DEF InitWindow
    <3>3. QED
      BY <3>1, <3>2
  <2>2. win' \in Seq(Nat) /\ size' = e
    BY <1>4, <2>1 DEF size
  <2>3. hist' = <<>> /\ hist' \in Seq(Nat) /\ Len(hist') = 0 /\ kept' = 0
    BY ONLY <1>6, EmptySeq, kept' = (IF reset THEN 0 ELSE kept),
            hist' = (IF reset THEN <<>> ELSE hist)
  <2>4. 0 \in 0 .. e /\ 0 <= 0
    OBVIOUS
  <2>5. QED
    BY Zenon, <1>5, <2>1, <2>2, <2>3, <2>4 DEF WindowInv
<1>7. CASE ~reset
  <2>1. hist' = hist /\ kept' = k /\ Len(hist') = m
    BY <1>1, <1>7
  <2>2. CASE g > n /\ n = 0
    <3>1. win' = Zeros(g) /\ w' = 0
      BY <1>1, <1>3, <2>2 DEF InitWindow
    <3>2. win' \in Seq(Nat) /\ size' = g
      BY <1>4, <3>1 DEF size
    <3>3. k = 0 /\ 0 \in 0 .. g /\ 0 <= m
      BY <1>2, <2>2
    <3>4. QED
      BY Zenon, <1>2, <1>3, <1>5, <2>1, <3>1, <3>2, <3>3 DEF WindowInv
  <2>3. CASE g > n /\ n > 0
    <3>v. PICK v \in Seq(Nat) : v = win
      BY <1>2
    <3>1. PICK x, y, z, c :
            /\ v = win
            /\ x = Part(v, a + 1, n) /\ y = Part(v, 1, a)
            /\ z = Zeros(g - n) /\ c = Cat(x, y)
      BY <3>v
    <3>2. PICK u : u = Cat(c, z)
      OBVIOUS
    <3>3. win' = u /\ w' = n
      <4>1. /\ Larger(sz, MinWindowSize) > size /\ ~(Larger(sz, MinWindowSize) <= size)
            /\ size > 0 /\ size # 0
        BY <1>1, <1>3, <2>3
      <4>2. InitWindow(sz, reset) =
              [win |-> SubSeq(win, w + 1, size) \o SubSeq(win, 1, w)
                         \o Zeros(Larger(sz, MinWindowSize) - size), w |-> size]
        BY ONLY Zenon, <1>7, <4>1 DEF InitWindow
      <4>3. /\ InitWindow(sz, reset).w = size
            /\ InitWindow(sz, reset).win =
                 Cat(Cat(Part(win, w + 1, size), Part(win, 1, w)),
                     Zeros(Larger(sz, MinWindowSize) - size))
        <5>1. InitWindow(sz, reset) =
                [win |-> Cat(Cat(Part(win, w + 1, size), Part(win, 1, w)),
                             Zeros(Larger(sz, MinWindowSize) - size)),
                 w |-> size]
          BY ONLY Zenon, <4>2 DEF Cat, Part
        <5>2. QED
          BY ONLY <5>1
      <4>4. QED
        BY <1>1, <1>3, <3>1, <3>2, <4>3
    <3>4. PICK f \in Nat, h \in Nat : f = n - a /\ h = g - n
      BY <1>2, <2>3
    <3>5. /\ x \in Seq(Nat) /\ Len(x) = f
          /\ \A j \in 1 .. f : x[j] = v[a + j]
      <4>1. a + 1 \in 1 .. Len(v) + 1 /\ n \in 0 .. Len(v) /\ a + 1 <= n + 1
        BY <1>2, <3>1
      <4>2. /\ Part(v, a + 1, n) \in Seq(Nat) /\ Len(Part(v, a + 1, n)) = n - (a + 1) + 1
            /\ \A j \in 1 .. n - (a + 1) + 1 : Part(v, a + 1, n)[j] = v[a + 1 + j - 1]
        BY ONLY <4>1, PartType, v \in Seq(Nat)
      <4>3. n - (a + 1) + 1 = f /\ \A j \in 1 .. f : a + 1 + j - 1 = a + j
        BY <3>4
      <4>4. QED
        BY <3>1, <4>2, <4>3
    <3>6. /\ y \in Seq(Nat) /\ Len(y) = a
          /\ \A j \in 1 .. a : y[j] = v[j]
      <4>1. 1 \in 1 .. Len(v) + 1 /\ a \in 0 .. Len(v) /\ 1 <= a + 1
        BY <1>2, <3>1
      <4>2. /\ Part(v, 1, a) \in Seq(Nat) /\ Len(Part(v, 1, a)) = a - 1 + 1
            /\ \A j \in 1 .. a - 1 + 1 : Part(v, 1, a)[j] = v[1 + j - 1]
        BY ONLY <4>1, PartType, v \in Seq(Nat)
      <4>3. a - 1 + 1 = a /\ \A j \in 1 .. a : 1 + j - 1 = j
        OBVIOUS
      <4>4. QED
        BY <3>1, <4>2, <4>3
    <3>7. z \in Seq(Nat) /\ Len(z) = h
      BY <1>4, <3>1, <3>4
    <3>t. x \in Seq(Nat) /\ y \in Seq(Nat)
      BY <3>5, <3>6
    <3>8. c \in Seq(Nat) /\ Len(c) = f + a
      <4>1. Cat(x, y) \in Seq(Nat) /\ Len(Cat(x, y)) = Len(x) + Len(y)
        BY ONLY <3>t, CatType
      <4>2. QED
        <5>1. c = Cat(x, y) /\ Len(x) = f /\ Len(y) = a
          BY <3>1, <3>5, <3>6
        <5>2. QED
          BY ONLY Zenon, <4>1, <5>1
    <3>9. /\ \A j \in 1 .. f : c[j] = x[j]
          /\ \A j \in 1 .. a : c[f + j] = y[j]
      <4>1. \A j \in 1 .. Len(x) : Cat(x, y)[j] = x[j]
        BY ONLY <3>t, CatType
      <4>2. \A j \in 1 .. Len(y) : Cat(x, y)[Len(x) + j] = y[j]
        BY ONLY <3>t, CatType
      <4>3. QED
        BY Zenon, <3>1, <3>5, <3>6, <4>1, <4>2
    <3>10. u \in Seq(Nat) /\ Len(u) = f + a + h
      BY ONLY <3>2, <3>7, <3>8, CatType
    <3>11. \A j \in 1 .. f + a : u[j] = c[j]
      <4>1. c \in Seq(Nat) /\ z \in Seq(Nat)
        BY <3>7, <3>8
      <4>2. \A j \in 1 .. Len(c) : Cat(c, z)[j] = c[j]
        BY ONLY Zenon, <4>1, CatType
      <4>3. QED
        BY Zenon, <3>2, <3>8, <4>2
    <3>12. f + a = n /\ f + a + h = g
      BY <1>2, <3>4
    <3>13. ASSUME NEW q \in 1 .. k
           PROVE  u[Slot(g, n, q)] = hist[m - q + 1]
      <4>1. Slot(n, a, q) \in 1 .. n /\ v[Slot(n, a, q)] = hist[m - q + 1]
        <5>1. Slot(n, a, q) \in 1 .. n
          BY <1>2 DEF Slot
        <5>2. QED
          BY <1>2, <3>1, <5>1 DEF Holds
      <4>2. PICK j \in 1 .. n : j = n - q + 1
        BY <1>2
      <4>3. Slot(g, n, q) = j
        BY <1>2, <4>2 DEF Slot
      <4>4. CASE q > a
        <5>1. j \in 1 .. f /\ a + j = Slot(n, a, q)
          BY <1>2, <3>4, <4>2, <4>4 DEF Slot
        <5>2. u[j] = c[j] /\ c[j] = x[j]
          BY <3>9, <3>11, <3>12, <5>1
        <5>3. x[j] = v[a + j]
          BY <3>5, <5>1
        <5>4. QED
          BY <4>1, <4>3, <5>1, <5>2, <5>3
      <4>5. CASE q <= a
        <5>1. PICK i \in 1 .. a : i = a - q + 1
          BY <4>5
        <5>2. f + i = j /\ i = Slot(n, a, q)
          BY <1>2, <3>4, <4>2, <4>5, <5>1 DEF Slot
        <5>3. c[f + i] = v[i]
          BY <3>6, <3>9, <5>1
        <5>4. u[j] = c[j]
          BY <3>11, <3>12
        <5>5. QED
          BY <4>1, <4>3, <5>2, <5>3, <5>4
      <4>6. QED
        BY <4>4, <4>5
    <3>14. Holds(u, g, n, hist, m, k)
      BY <3>13 DEF Holds
    <3>15. n \in 0 .. g /\ k \in 0 .. g /\ k <= m
      BY <1>2, <2>3
    <3>16. size' = g
      BY <3>3, <3>10, <3>12 DEF size
    <3>17. QED
      BY Zenon, <1>2, <1>3, <2>1, <3>3, <3>10, <3>14, <3>15, <3>16 DEF WindowInv
  <2>4. CASE g <= n
    <3>1. win' = win /\ w' = w /\ size' = size
      BY <1>1, <1>3, <1>7, <2>4 DEF InitWindow, size
    <3>2. n > 0
      BY <1>3, <2>4
    <3>3. QED
      BY Zenon, <1>1, <2>1, <3>1, <3>2 DEF WindowInv
  <2>5. QED
    BY <2>2, <2>3, <2>4
<1>8. QED
  BY <1>6, <1>7
-----------------------------------------------------------------------------
(* Steps that leave the window and the stream alone, or only turn to the   *)
(* start of the window.                                                    *)
Kept == UNCHANGED <<win, w, hist, kept, arch>>
Turned == w = size /\ w' = 0 /\ UNCHANGED <<win, hist, kept, arch>>

LEMMA FillKeeps ==
  ASSUME NEW to, fill(to), UNCHANGED <<win, stream>>
  PROVE  Kept \/ Turned
BY DEF fill, Kept, Turned, stream

LEMMA CallsKeep ==
  ASSUME Call \/ (\E p \in ReadSizes : Read(p) \/ writeToN(p)) \/ ReadByte \/ WriteTo
  PROVE  Kept \/ Turned
<1>1. CASE decode
  <2>1. CASE w = r /\ fill("decode2")
    BY <1>1, <2>1, FillKeeps DEF decode
  <2>2. CASE w # r
    BY <1>1, <2>2 DEF decode, Kept, d, stream
  <2>3. QED
    BY <1>1, <2>1, <2>2 DEF decode
<1>2. CASE decode2
  BY <1>2 DEF decode2, Kept, stream
<1>3. CASE bufBytes
  BY <1>3 DEF bufBytes, Kept, stream
<1>4. CASE bufMore
  BY <1>4, FillKeeps DEF bufMore, stream
<1>5. CASE processFilters
  BY <1>5 DEF processFilters, Kept, stream
<1>6. CASE serve
  BY <1>6 DEF serve, Deliver, Kept, stream
<1>7. ASSUME NEW p, Read(p)
      PROVE  Kept
  BY <1>7 DEF Read, Deliver, Kept, d, stream
<1>8. ASSUME NEW p, writeToN(p)
      PROVE  Kept
  BY <1>8 DEF writeToN, Kept, d, stream
<1>9. QED
  BY <1>1, <1>2, <1>3, <1>4, <1>5, <1>6, <1>7, <1>8 DEF Call, ReadByte, WriteTo

LEMMA DecoderKeeps ==
  ASSUME (\E offset \in 0 .. size, length \in 1 .. size - 1 : queueFilter(offset, length))
           \/ Full \/ EndOfFile \/ DecoderFails
  PROVE  Kept
<1>1. ASSUME NEW offset, NEW length, queueFilter(offset, length)
      PROVE  Kept
  BY <1>1 DEF queueFilter, Kept
<1>2. CASE Full
  BY <1>2 DEF Full, Kept, stream
<1>3. CASE EndOfFile
  BY <1>3 DEF EndOfFile, Kept
<1>4. CASE DecoderFails
  BY <1>4 DEF DecoderFails, Kept, stream
<1>5. QED
  BY <1>1, <1>2, <1>3, <1>4

\* l bytes are added to the window, and to the end of the stream
Grown(l) ==
  /\ w' = w + l /\ w + l <= size /\ size' = size
  /\ hist' \in Seq(Nat) /\ Len(hist') = Len(hist) + l
  /\ \A j \in 1 .. Len(hist) : hist'[j] = hist[j]
  /\ kept' = Smaller(kept + l, size)

(* A literal. *)
LEMMA ByteStep ==
  ASSUME WindowInv, writeByte
  PROVE  WindowInv' /\ Grown(1)
<1>1. PICK b \in Seq(Nat) : b = <<Len(hist) + 1>> /\ Len(b) = 1
  <2>1. PICK x \in Nat : x = Len(hist) + 1
    BY DEF WindowInv
  <2>2. <<x>> \in Seq(Nat) /\ Len(<<x>>) = 1
    OBVIOUS
  <2>3. QED
    BY <2>1, <2>2
<1>2. win \in Seq(Nat) /\ w \in Nat /\ w + Len(b) <= Len(win)
  BY <1>1 DEF WindowInv, writeByte, Decoding, size
<1>3. win' = Put(win, w, b) /\ w' = w + 1
  BY <1>1 DEF writeByte
<1>4. hist' = Cat(hist, b) /\ kept' = Smaller(kept + Len(b), size)
  BY <1>1 DEF writeByte, Extend, Cat
<1>5. /\ Put(win, w, b) \in Seq(Nat) /\ Len(Put(win, w, b)) = Len(win)
      /\ \A j \in 1 .. Len(b) : Put(win, w, b)[w + j] = b[j]
      /\ \A j \in 1 .. Len(win) :
           j \notin w + 1 .. w + Len(b) => Put(win, w, b)[j] = win[j]
  <2>1. b \in Seq(Nat)
    OBVIOUS
  <2>2. QED
    BY ONLY Zenon, <1>2, <2>1, PutIs
<1>6. /\ win' \in Seq(Nat) /\ Len(win') = size
      /\ \A j \in 1 .. 1 : win'[w + j] = b[j]
      /\ \A j \in 1 .. size : j \notin w + 1 .. w + 1 => win'[j] = win[j]
  BY Zenon, <1>1, <1>3, <1>5 DEF size
<1>7. w + 1 <= size /\ kept' = Smaller(kept + 1, size)
  BY Zenon, <1>1, <1>2, <1>4 DEF size
<1>8. 1 \in Nat
  OBVIOUS
<1>9. WindowInv'
  BY Zenon, <1>1, <1>3, <1>4, <1>6, <1>7, <1>8, Extended
<1>10. /\ hist' \in Seq(Nat) /\ Len(hist') = Len(hist) + 1
       /\ \A j \in 1 .. Len(hist) : hist'[j] = hist[j]
  <2>1. /\ hist \in Seq(Nat) /\ b \in Seq(Nat)
        /\ Len(b) = 1 /\ hist' = Cat(hist, b)
    BY <1>1, <1>4 DEF WindowInv
  <2>2. /\ hist' \in Seq(Nat) /\ Len(hist') = Len(hist) + Len(b)
        /\ \A j \in 1 .. Len(hist) : hist'[j] = hist[j]
    BY ONLY Zenon, <2>1, CatType
  <2>3. QED
    BY ONLY <2>1, <2>2
<1>11. QED
  BY Zenon, <1>3, <1>6, <1>7, <1>9, <1>10 DEF Grown, size

(* A match, where matches do not run over the end of the window. *)
LEMMA MatchStep ==
  ASSUME WindowInv, arch \in Archives, "crossing" \notin arch.features,
         NEW l \in 1 .. size, NEW o \in 1 .. size, Match(l, o)
  PROVE  WindowInv' /\ Grown(l)
<1>1. PICK n \in Nat, m \in Nat : n = size /\ m = Len(hist)
  BY DEF WindowInv, size
<1>2. o <= kept /\ l < n /\ w + l <= n /\ l \in 1 .. n /\ o \in 1 .. n
  BY <1>1 DEF Match
<1>3. PICK u : u = copyBytes(l, o).win
  OBVIOUS
<1>4. /\ u \in Seq(Nat) /\ Len(u) = n /\ copyBytes(l, o).w = w + l
      /\ \A k \in 1 .. l : u[w + k] = hist[m - o + 1 + ((k - 1) % o)]
      /\ \A j \in 1 .. n : j \notin w + 1 .. w + l => u[j] = win[j]
  <2>1. n \in Nat /\ m \in Nat /\ n = size /\ m = Len(hist)
    BY <1>1
  <2>2. Wrote(copyBytes(l, o), n, m, l, o)
    BY ONLY Zenon, <1>2, <2>1, WindowInv, Copied
  <2>3. QED
    BY Zenon, <1>3, <2>2 DEF Wrote
<1>5. win' = u /\ w' = w + l
  BY Zenon, <1>3, <1>4 DEF Match
<1>6. PICK b : b = [k \in 1 .. l |-> hist[m - o + 1 + ((k - 1) % o)]]
  OBVIOUS
<1>7. hist' = Cat(hist, b) /\ kept' = Smaller(kept + Len(b), size)
  BY Zenon, <1>1, <1>6 DEF Match, Extend, Cat
<1>8. \A k \in 1 .. l : u[w + k] = b[k]
  BY Zenon, <1>4, <1>6
<1>9. b \in Seq(Nat) /\ Len(b) = l
  <2>1. ASSUME NEW k \in 1 .. l
        PROVE  b[k] \in Nat
    <3>1. w + k \in 1 .. n
      BY <1>1, <1>2 DEF WindowInv
    <3>2. u[w + k] \in Nat
      BY <1>4, <3>1
    <3>3. QED
      BY <1>8, <3>2
  <2>2. b \in [1 .. l -> Nat] /\ l \in Nat
    BY <1>2, <1>6, <2>1
  <2>3. QED
    BY ONLY <2>2
<1>10. l \in Nat /\ w + l <= size /\ kept' = Smaller(kept + l, size)
  BY <1>1, <1>2, <1>7, <1>9
<1>11. WindowInv'
  BY Zenon, <1>1, <1>4, <1>5, <1>7, <1>8, <1>9, <1>10, Extended
<1>12. /\ hist' \in Seq(Nat) /\ Len(hist') = Len(hist) + l
       /\ \A j \in 1 .. Len(hist) : hist'[j] = hist[j]
  <2>1. hist \in Seq(Nat) /\ b \in Seq(Nat)
    BY <1>9 DEF WindowInv
  <2>2. QED
    BY ONLY Zenon, <1>7, <1>9, <2>1, CatType
<1>13. QED
  BY Zenon, <1>1, <1>4, <1>5, <1>10, <1>11, <1>12 DEF Grown, size

(* A file is started. *)
LEMMA InitStep ==
  ASSUME WindowInv, arch \in Archives, NEW v, NEW sz \in arch.sizes, NEW reset \in BOOLEAN,
         init(v, sz, reset)
  PROVE  WindowInv' /\ size' > 0
<1>1. sz \in Nat /\ sz > 0
  BY ArchiveAssumption DEF Archive
<1>2. /\ win' = InitWindow(sz, reset).win /\ w' = InitWindow(sz, reset).w
      /\ kept' = (IF reset THEN 0 ELSE kept) /\ hist' = (IF reset THEN <<>> ELSE hist)
  BY Zenon DEF init
<1>3. QED
  BY Zenon, <1>1, <1>2, Started
-----------------------------------------------------------------------------
LEMMA InitHolds == Init => IInv
<1> SUFFICES ASSUME Init
             PROVE  IInv
  OBVIOUS
<1>1. arch \in Archives /\ win = <<>> /\ w = 0 /\ hist = <<>> /\ kept = 0
  BY Zenon DEF Init
<1>2. <<>> \in Seq(Nat) /\ Len(<<>>) = 0
  BY EmptySeq
<1>3. 0 \in 0 .. 0 /\ 0 <= 0
  OBVIOUS
<1>4. Holds(<<>>, 0, 0, <<>>, 0, 0)
  BY DEF Holds
<1>5. QED
  BY Zenon, <1>1, <1>2, <1>3, <1>4 DEF IInv, WindowInv, size

LEMMA StepHolds == IInv /\ [Next]_vars => IInv'
<1> SUFFICES ASSUME IInv, [Next]_vars
             PROVE  IInv'
  OBVIOUS
<1>1. CASE Kept
  BY Zenon, <1>1 DEF IInv, WindowInv, Kept, size
<1>2. CASE Turned
  <2>1. arch' = arch /\ (WindowInv => WindowInv')
    BY Zenon, <1>2, Wrapped DEF Turned
  <2>2. QED
    BY Zenon, <2>1 DEF IInv
<1>3. CASE writeByte
  <2>1. arch' = arch /\ (WindowInv => WindowInv')
    BY Zenon, <1>3, ByteStep DEF writeByte
  <2>2. QED
    BY Zenon, <2>1 DEF IInv
<1>4. ASSUME NEW l \in 1 .. size, NEW o \in 1 .. size, Match(l, o)
      PROVE  IInv'
  <2>1. arch' = arch
    BY Zenon, <1>4 DEF Match
  <2>2. QED
    BY Zenon, <1>4, <2>1, MatchStep DEF IInv
<1>5. ASSUME NEW v, NEW sz \in arch.sizes, NEW reset \in BOOLEAN, init(v, sz, reset)
      PROVE  IInv'
  <2>1. arch' = arch
    BY Zenon, <1>5 DEF init
  <2>2. QED
    BY Zenon, <1>5, <2>1, InitStep DEF IInv
<1>6. CASE UNCHANGED vars
  BY Zenon, <1>1, <1>6 DEF vars, d, stream, Kept
<1>7. QED
  BY Zenon, <1>1, <1>2, <1>3, <1>4, <1>5, <1>6, CallsKeep, DecoderKeeps
     DEF Next, Decoder

(* The window holds the end of the stream, whatever is read of it. *)
THEOREM Invariance == Spec => []IInv
BY InitHolds, StepHolds, PTL DEF Spec

(* A match of any length and offset finds the bytes it was written for in  *)
(* the window that decodeReader keeps (decode_reader.go:63 to :125):       *)
(* however it wrapped, and however solid files made it grow.               *)
THEOREM WindowKept == Spec => []WindowIsHistory
<1>1. IInv => WindowIsHistory
  <2> SUFFICES ASSUME WindowInv, NEW q \in 1 .. kept
               PROVE  win[((w - q) % size) + 1] = hist[Len(hist) - q + 1]
    BY DEF IInv, WindowIsHistory
  <2>1. PICK n \in Nat, a \in Nat : n = size /\ a = w /\ a <= n
    BY DEF WindowInv, size
  <2>2. a \in 0 .. n /\ q \in 1 .. n
    BY <2>1 DEF WindowInv
  <2>3. ((w - q) % size) + 1 = Slot(n, a, q)
    BY <2>1, <2>2, HoldsIs
  <2>4. win[Slot(n, a, q)] = hist[Len(hist) - q + 1]
    BY <2>1 DEF WindowInv, Holds
  <2>5. QED
    BY ONLY Zenon, <2>3, <2>4
<1>2. QED
  BY <1>1, Invariance, PTL
-----------------------------------------------------------------------------
(* The output.  a is the place in the stream from which the next output is *)
(* made: the bytes before it are in outbuf or with callers.  The queue f   *)
(* is for the blocks ms behind the first c, which lie before a.            *)
Mark == [start : Nat, length : Nat \ {0}]
Filter == [id : Nat, offset : Int, length : Nat]
Byte == [byte : Nat, by : Seq([id : Nat, at : Int])]

Behind(x, y) == x.start + x.length <= y.start
Apart(ms) ==
  \A j \in 1 .. Len(ms) : \A i \in 1 .. j - 1 : Behind(ms[i], ms[j]) \/ ms[i] = ms[j]
Passed(ms, c, a) == \A m \in 1 .. c : ms[m].start + ms[m].length <= a
Ahead(ms, c, a) == \A m \in c + 1 .. Len(ms) : ms[m].start >= a

\* where the offset of filter k is counted from
From(ms, c, a, k) == IF k = 1 THEN a ELSE ms[c + k - 1].start

Linked(f, ms, c, a) ==
  \A k \in 1 .. Len(f) :
    /\ f[k].id = c + k /\ f[k].length = ms[c + k].length
    /\ f[k].offset = ms[c + k].start - From(ms, c, a, k)

QueueFor(f, ms, c, a) ==
  /\ f \in Seq(Filter) /\ ms \in Seq(Mark) /\ c \in Nat /\ c + Len(f) <= Len(ms)
  /\ Apart(ms) /\ Passed(ms, c, a) /\ Ahead(ms, c, a) /\ Linked(f, ms, c, a)

(* Blocks are announced in their order. *)
LEMMA Ordered ==
  ASSUME NEW ms \in Seq(Mark), Apart(ms), NEW i \in 1 .. Len(ms), NEW j \in i .. Len(ms)
  PROVE  ms[i].start <= ms[j].start
<1>1. CASE i = j
  <2>1. ms[i] \in Mark
    OBVIOUS
  <2>2. ms[i].start \in Nat
    BY <2>1 DEF Mark
  <2>3. QED
    BY <1>1, <2>2
<1>2. CASE i # j
  <2>1. j \in 1 .. Len(ms) /\ i \in 1 .. j - 1
    BY <1>2
  <2>2. ms[i] \in Mark /\ ms[j] \in Mark
    BY <2>1
  <2>3. /\ ms[i].start \in Nat /\ ms[i].length \in Nat
        /\ ms[j].start \in Nat
    BY <2>2 DEF Mark
  <2>4. Behind(ms[i], ms[j]) \/ ms[i] = ms[j]
    BY <2>1 DEF Apart
  <2>5. QED
    BY <2>3, <2>4 DEF Behind
<1>3. QED
  BY <1>1, <1>2

(* The offsets of the filters add up to the start of the last one's block. *)
LEMMA Total ==
  ASSUME NEW ms, NEW c, NEW a \in Nat, QueueFor(fl, ms, c, a)
  PROVE  QueuedUpTo = IF fl = <<>> THEN 0 ELSE ms[c + Len(fl)].start - a
<1>1. PICK n \in Nat : n = Len(fl)
  BY DEF QueueFor
<1> DEFINE P == [k \in 0 .. n |-> IF k = 0 THEN 0 ELSE ms[c + k].start - a]
           Sums(g) == g = [k \in 0 .. n |-> IF k = 0 THEN 0 ELSE g[k - 1] + Queued[k]]
           Add == CHOOSE g : Sums(g)
<1>2. ASSUME NEW k \in 1 .. n
      PROVE  /\ ms[c + k].start \in Nat
             /\ Queued[k] = ms[c + k].start - From(ms, c, a, k)
  <2>1. c + k \in 1 .. Len(ms) /\ ms \in Seq(Mark)
    BY <1>1 DEF QueueFor
  <2>2. ms[c + k] \in Mark
    BY <2>1
  <2>3. ms[c + k].start \in Nat
    BY <2>2 DEF Mark
  <2>4. Queued[k] = fl[k].offset
    BY <1>1 DEF Queued
  <2>5. fl[k].offset = ms[c + k].start - From(ms, c, a, k)
    BY <1>1 DEF QueueFor, Linked
  <2>6. QED
    BY <2>3, <2>4, <2>5
<1>3. /\ P = [k \in 0 .. n |-> P[k]] /\ P[0] = 0
      /\ \A k \in 1 .. n : P[k] = ms[c + k].start - a
  OBVIOUS
<1> HIDE DEF P
<1>4. ASSUME NEW k \in 1 .. n
      PROVE  P[k] = P[k - 1] + Queued[k]
  <2>1. CASE k = 1
    <3>1. Queued[1] = ms[c + 1].start - a /\ ms[c + 1].start \in Nat
      BY <1>2, <2>1 DEF From
    <3>2. P[1] = ms[c + 1].start - a /\ P[0] = 0 /\ 1 - 1 = 0
      BY <1>3, <2>1
    <3>3. P[1] = P[0] + Queued[1]
      BY <3>1, <3>2
    <3>4. QED
      BY <2>1, <3>2, <3>3
  <2>2. CASE k # 1
    <3>1. PICK i \in 1 .. n : i = k - 1
      BY <2>2
    <3>2. c + k - 1 = c + i
      BY <3>1 DEF QueueFor
    <3>3. Queued[k] = ms[c + k].start - ms[c + i].start
      BY <1>2, <2>2, <3>2 DEF From
    <3>4. ms[c + k].start \in Nat /\ ms[c + i].start \in Nat
      BY <1>2
    <3>5. P[k] = ms[c + k].start - a /\ P[i] = ms[c + i].start - a
      BY <1>3
    <3>6. QED
      BY <3>1, <3>3, <3>4, <3>5
  <2>3. QED
    BY <2>1, <2>2
<1>5. Sums(P)
  <2>1. \A k \in 0 .. n : P[k] = IF k = 0 THEN 0 ELSE P[k - 1] + Queued[k]
    BY <1>3, <1>4
  <2>2. QED
    BY <1>3, <2>1
<1>6. Sums(Add)
  BY <1>5
<1>7. QueuedUpTo = Add[n]
  BY <1>1 DEF QueuedUpTo
<1> HIDE DEF Add
<1>8. \A k \in Nat : k <= n => Add[k] = P[k]
  <2> DEFINE S == {k \in Nat : k <= n => Add[k] = P[k]}
  <2>1. \A k \in 0 .. n : Add[k] = IF k = 0 THEN 0 ELSE Add[k - 1] + Queued[k]
    BY <1>6
  <2>2. 0 \in S
    BY <1>3, <2>1
  <2>3. ASSUME NEW k \in Nat, k \in S
        PROVE  k + 1 \in S
    <3>1. SUFFICES ASSUME k + 1 <= n
                   PROVE  Add[k + 1] = P[k + 1]
      OBVIOUS
    <3>2. PICK i \in 1 .. n : i = k + 1
      BY <3>1
    <3>3. Add[k] = P[k] /\ i - 1 = k
      BY <2>3, <3>2
    <3>4. Add[i] = Add[i - 1] + Queued[i]
      BY <2>1
    <3>5. P[i] = P[i - 1] + Queued[i]
      BY <1>4
    <3>6. QED
      BY <3>2, <3>3, <3>4, <3>5
  <2> HIDE DEF S
  <2>4. \A k \in Nat : k \in S
    BY ONLY <2>2, <2>3, Inductive
  <2>5. QED
    BY <2>4 DEF S
<1>9. fl = <<>> <=> n = 0
  <2>1. fl \in Seq(Filter)
    BY DEF QueueFor
  <2>2. QED
    BY ONLY <1>1, <2>1, EmptySeq
<1>10. Add[n] = P[n]
  BY <1>8
<1>11. P[n] = IF n = 0 THEN 0 ELSE ms[c + n].start - a
  <2>1. CASE n = 0
    BY Zenon, <1>3, <2>1
  <2>2. CASE n # 0
    <3>1. n \in 1 .. n
      BY <2>2
    <3>2. QED
      BY Zenon, <1>3, <2>2, <3>1
  <2>3. QED
    BY <2>1, <2>2
<1>12. QED
  BY <1>1, <1>7, <1>9, <1>10, <1>11

(* A block is announced, behind the others or the same as the last ones. *)
LEMMA Announced ==
  ASSUME NEW f, NEW ms, NEW c, NEW a \in Nat, QueueFor(f, ms, c, a),
         NEW x \in Mark, x.start >= a,
         \A m \in 1 .. Len(ms) : Behind(ms[m], x) \/ ms[m] = x
  PROVE  QueueFor(f, Append(ms, x), c, a)
<1>1. /\ f \in Seq(Filter) /\ ms \in Seq(Mark) /\ c \in Nat /\ c + Len(f) <= Len(ms)
      /\ Apart(ms) /\ Passed(ms, c, a) /\ Ahead(ms, c, a) /\ Linked(f, ms, c, a)
  BY Zenon DEF QueueFor
<1>2. PICK y : y = Append(ms, x)
  OBVIOUS
<1>3. PICK n \in Nat, e \in Nat, z \in Nat : n = Len(ms) /\ e = Len(f) /\ z = n + 1
  BY <1>1
<1>4. /\ y \in Seq(Mark) /\ Len(y) = z /\ y[z] = x
      /\ \A m \in 1 .. n : y[m] = ms[m]
  BY <1>1, <1>2, <1>3
<1>5. c + e <= n /\ c + e <= z
  BY <1>1, <1>3
<1>6. Apart(y)
  <2>1. ASSUME NEW j \in 1 .. z, NEW i \in 1 .. j - 1
        PROVE  Behind(y[i], y[j]) \/ y[i] = y[j]
    <3>1. i \in 1 .. n /\ y[i] = ms[i]
      BY <1>3, <1>4
    <3>2. CASE j = z
      BY <1>3, <1>4, <3>1, <3>2
    <3>3. CASE j # z
      <4>1. j \in 1 .. n /\ y[j] = ms[j]
        BY <1>3, <1>4, <3>3
      <4>2. Behind(ms[i], ms[j]) \/ ms[i] = ms[j]
        BY <1>1, <1>3, <4>1 DEF Apart
      <4>3. QED
        BY <3>1, <4>1, <4>2
    <3>4. QED
      BY <3>2, <3>3
  <2>2. QED
    BY Zenon, <1>4, <2>1 DEF Apart
<1>7. Passed(y, c, a)
  <2>1. ASSUME NEW m \in 1 .. c
        PROVE  y[m].start + y[m].length <= a
    <3>1. m \in 1 .. n
      BY <1>1, <1>3, <1>5
    <3>2. QED
      BY <1>1, <1>4, <3>1 DEF Passed
  <2>2. QED
    BY <2>1 DEF Passed
<1>8. Ahead(y, c, a)
  <2>1. ASSUME NEW m \in c + 1 .. z
        PROVE  y[m].start >= a
    <3>1. CASE m = z
      BY <1>4, <3>1
    <3>2. CASE m # z
      <4>1. m \in 1 .. n /\ m \in c + 1 .. n
        BY <1>1, <1>3, <3>2
      <4>2. QED
        BY <1>1, <1>3, <1>4, <4>1 DEF Ahead
    <3>3. QED
      BY <3>1, <3>2
  <2>2. QED
    BY Zenon, <1>4, <2>1 DEF Ahead
<1>9. Linked(f, y, c, a)
  <2>1. ASSUME NEW k \in 1 .. e
        PROVE  y[c + k] = ms[c + k] /\ From(y, c, a, k) = From(ms, c, a, k)
    <3>1. c + k \in 1 .. n
      BY <1>1, <1>3, <1>5
    <3>2. k # 1 => c + k - 1 \in 1 .. n
      BY <1>1, <1>3, <1>5
    <3>3. QED
      BY <1>4, <3>1, <3>2 DEF From
  <2>2. QED
    BY Zenon, <1>1, <1>3, <2>1 DEF Linked
<1>10. QED
  BY Zenon, <1>1, <1>2, <1>3, <1>4, <1>5, <1>6, <1>7, <1>8, <1>9 DEF QueueFor

(* A filter for the last block, the offset of which is that from the one   *)
(* before, is put into the queue.                                          *)
LEMMA Appended ==
  ASSUME NEW f, NEW ms, NEW c, NEW a \in Nat, QueueFor(f, ms, c, a),
         c + Len(f) + 1 = Len(ms), NEW x \in Filter,
         x.id = Len(ms), x.length = ms[Len(ms)].length,
         x.offset = ms[Len(ms)].start
                      - (IF f = <<>> THEN a ELSE ms[c + Len(f)].start)
  PROVE  QueueFor(Append(f, x), ms, c, a) /\ x.offset >= 0
<1>1. /\ f \in Seq(Filter) /\ ms \in Seq(Mark) /\ c \in Nat
      /\ Apart(ms) /\ Passed(ms, c, a) /\ Ahead(ms, c, a) /\ Linked(f, ms, c, a)
  BY Zenon DEF QueueFor
<1>2. PICK g : g = Append(f, x)
  OBVIOUS
<1>3. PICK n \in Nat, e \in Nat, z \in Nat : n = Len(ms) /\ e = Len(f) /\ z = e + 1
  BY <1>1
<1>4. /\ g \in Seq(Filter) /\ Len(g) = z /\ g[z] = x
      /\ \A k \in 1 .. e : g[k] = f[k]
  BY <1>1, <1>2, <1>3
<1>5. c + z = n /\ c + e = n - 1 /\ c + e \in Nat
  BY <1>1, <1>3
<1>6. f = <<>> <=> z = 1
  BY <1>1, <1>3, EmptySeq
<1>7. From(ms, c, a, z) = IF f = <<>> THEN a ELSE ms[c + Len(f)].start
  <2>1. c + z - 1 = c + e
    BY <1>1, <1>3
  <2>2. QED
    BY ONLY Zenon, <1>3, <1>6, <2>1 DEF From
<1>8. Linked(g, ms, c, a)
  <2>1. ASSUME NEW k \in 1 .. z
        PROVE  /\ g[k].id = c + k /\ g[k].length = ms[c + k].length
               /\ g[k].offset = ms[c + k].start - From(ms, c, a, k)
    <3>1. CASE k = z
      BY Zenon, <1>3, <1>4, <1>5, <1>7, <3>1
    <3>2. CASE k # z
      <4>1. k \in 1 .. e
        BY <1>3, <3>2
      <4>2. QED
        BY Zenon, <1>1, <1>3, <1>4, <4>1 DEF Linked
    <3>3. QED
      BY <3>1, <3>2
  <2>2. QED
    BY Zenon, <1>4, <2>1 DEF Linked
<1>9. x.offset >= 0
  <2>1. n \in c + 1 .. n /\ n \in 1 .. n
    BY <1>1, <1>3, <1>5
  <2>2. ms[n] \in Mark
    BY <1>1, <1>3, <2>1
  <2>3. ms[n].start \in Nat
    BY <2>2 DEF Mark
  <2>4. CASE f = <<>>
    <3>1. ms[n].start >= a
      BY <1>1, <1>3, <2>1 DEF Ahead
    <3>2. QED
      BY <1>3, <2>3, <2>4, <3>1
  <2>5. CASE f # <<>>
    <3>1. PICK i \in 1 .. n : i = c + e /\ n \in i .. n
      BY <1>1, <1>3, <1>5, <1>6, <2>5
    <3>2. ms[i].start <= ms[n].start
      BY <1>1, <1>3, <3>1, Ordered
    <3>3. ms[i] \in Mark
      BY <1>1, <1>3
    <3>4. ms[i].start \in Nat
      BY <3>3 DEF Mark
    <3>5. x.offset = ms[n].start - ms[i].start
      BY <1>3, <2>5, <3>1
    <3>6. QED
      BY <2>3, <3>2, <3>4, <3>5
  <2>6. QED
    BY <2>4, <2>5
<1>10. c + Len(g) <= Len(ms)
  BY <1>3, <1>4, <1>5
<1>11. QED
  BY Zenon, <1>1, <1>2, <1>4, <1>8, <1>9, <1>10 DEF QueueFor

(* Bytes are output up to the first filter, or up to a place no block lies *)
(* behind of, when there is none.                                          *)
LEMMA Advanced ==
  ASSUME NEW f, NEW ms, NEW c, NEW a \in Nat, QueueFor(f, ms, c, a), NEW l \in Nat,
         f # <<>>, l <= f[1].offset,
         NEW g, g = [f EXCEPT ![1].offset = @ - l]
  PROVE  QueueFor(g, ms, c, a + l)
<1>1. /\ f \in Seq(Filter) /\ ms \in Seq(Mark) /\ c \in Nat /\ c + Len(f) <= Len(ms)
      /\ Apart(ms) /\ Passed(ms, c, a) /\ Ahead(ms, c, a) /\ Linked(f, ms, c, a)
  BY Zenon DEF QueueFor
<1>2. PICK n \in Nat, e \in Nat : n = Len(ms) /\ e = Len(f)
  BY <1>1
<1>3. e >= 1 /\ 1 \in 1 .. e
  BY <1>1, <1>2, EmptySeq
<1>4. f[1] \in Filter
  BY <1>1, <1>2, <1>3
<1>5. PICK x : x = [f[1] EXCEPT !.offset = @ - l]
  OBVIOUS
<1>6. /\ x \in Filter /\ x.id = f[1].id /\ x.length = f[1].length
      /\ x.offset = f[1].offset - l /\ f[1].offset \in Int
  BY <1>4, <1>5 DEF Filter
<1>7. g = [f EXCEPT ![1] = x]
  BY Zenon, <1>5
<1>8. /\ g \in Seq(Filter) /\ Len(g) = e /\ g[1] = x
      /\ \A k \in 1 .. e : k # 1 => g[k] = f[k]
  BY <1>1, <1>2, <1>3, <1>6, <1>7
<1>9. PICK i \in 1 .. n : i = c + 1
  BY <1>1, <1>2, <1>3
<1>10. ms[i] \in Mark /\ ms[i].start \in Nat
  <2>1. ms[i] \in Mark
    BY <1>1, <1>2
  <2>2. QED
    BY <2>1 DEF Mark
<1>11. f[1].offset = ms[i].start - a
  BY <1>1, <1>2, <1>3, <1>9 DEF Linked, From
<1>12. ms[i].start >= a + l
  BY <1>6, <1>10, <1>11
<1>13. Passed(ms, c, a + l)
  <2>1. ASSUME NEW m \in 1 .. c
        PROVE  ms[m].start + ms[m].length <= a + l
    <3>1. m \in 1 .. n
      BY <1>1, <1>2, <1>3
    <3>2. ms[m] \in Mark
      BY <1>1, <1>2, <3>1
    <3>3. ms[m].start \in Nat /\ ms[m].length \in Nat
      BY <3>2 DEF Mark
    <3>4. ms[m].start + ms[m].length <= a
      BY <1>1 DEF Passed
    <3>5. QED
      BY <3>3, <3>4
  <2>2. QED
    BY <2>1 DEF Passed
<1>14. Ahead(ms, c, a + l)
  <2>1. ASSUME NEW m \in c + 1 .. n
        PROVE  ms[m].start >= a + l
    <3>1. m \in i .. n /\ m \in 1 .. n
      BY <1>1, <1>9
    <3>2. ms[i].start <= ms[m].start
      BY <1>1, <1>2, <3>1, Ordered
    <3>3. ms[m] \in Mark
      BY <1>1, <1>2, <3>1
    <3>4. ms[m].start \in Nat
      BY <3>3 DEF Mark
    <3>5. QED
      BY <1>10, <1>12, <3>2, <3>4
  <2>2. QED
    BY Zenon, <1>2, <2>1 DEF Ahead
<1>15. Linked(g, ms, c, a + l)
  <2>1. ASSUME NEW k \in 1 .. e
        PROVE  /\ g[k].id = c + k /\ g[k].length = ms[c + k].length
               /\ g[k].offset = ms[c + k].start - From(ms, c, a + l, k)
    <3>1. /\ f[k].id = c + k /\ f[k].length = ms[c + k].length
          /\ f[k].offset = ms[c + k].start - From(ms, c, a, k)
      BY Zenon, <1>1, <1>2 DEF Linked
    <3>2. CASE k = 1
      <4>1. x.offset = ms[i].start - (a + l)
        BY <1>6, <1>10, <1>11
      <4>2. QED
        BY Zenon, <1>6, <1>8, <1>9, <3>1, <3>2, <4>1 DEF From
    <3>3. CASE k # 1
      BY Zenon, <1>8, <3>1, <3>3 DEF From
    <3>4. QED
      BY <3>2, <3>3
  <2>2. QED
    BY Zenon, <1>8, <2>1 DEF Linked
<1>16. QED
  BY Zenon, <1>1, <1>2, <1>8, <1>13, <1>14, <1>15 DEF QueueFor

LEMMA AdvancedFreely ==
  ASSUME NEW ms, NEW c, NEW a \in Nat, QueueFor(<<>>, ms, c, a), NEW l \in Nat,
         Ahead(ms, c, a + l)
  PROVE  QueueFor(<<>>, ms, c, a + l)
<1>1. /\ ms \in Seq(Mark) /\ c \in Nat /\ c + Len(<<>>) <= Len(ms) /\ <<>> \in Seq(Filter)
      /\ Apart(ms) /\ Passed(ms, c, a)
  BY Zenon DEF QueueFor
<1>2. Passed(ms, c, a + l)
  <2>1. ASSUME NEW m \in 1 .. c
        PROVE  ms[m].start + ms[m].length <= a + l
    <3>1. m \in 1 .. Len(ms)
      BY <1>1
    <3>2. ms[m] \in Mark
      BY <1>1, <3>1
    <3>3. ms[m].start \in Nat /\ ms[m].length \in Nat
      BY <3>2 DEF Mark
    <3>4. ms[m].start + ms[m].length <= a
      BY <1>1 DEF Passed
    <3>5. QED
      BY <3>3, <3>4
  <2>2. QED
    BY <2>1 DEF Passed
<1>3. Linked(<<>>, ms, c, a + l)
  BY DEF Linked
<1>4. QED
  BY Zenon, <1>1, <1>2, <1>3 DEF QueueFor

(* The first filters of a queue that are for one block. *)
FirstBlock(f, k) ==
  /\ k \in 1 .. Len(f)
  /\ \A j \in 2 .. k : f[j].offset = 0
  /\ k < Len(f) => f[k + 1].offset # 0

LEMMA SameBlockIs ==
  ASSUME fl \in Seq(Filter), fl # <<>>
  PROVE  FirstBlock(fl, SameBlock)
<1>1. PICK e \in Nat : e = Len(fl)
  OBVIOUS
<1>2. e >= 1
  BY <1>1, EmptySeq
<1> DEFINE T == {k \in 1 .. e : k = e \/ fl[k + 1].offset # 0}
<1>3. T \subseteq Nat /\ e \in T
  BY <1>2
<1>4. PICK k \in T : \A j \in T : k <= j
  <2> HIDE DEF T
  <2>1. T # {}
    BY <1>3
  <2>2. QED
    BY ONLY <1>3, <2>1, Least
<1>5. k \in 1 .. e /\ (k = e \/ fl[k + 1].offset # 0)
  BY <1>4
<1>6. ASSUME NEW j \in 2 .. k
      PROVE  fl[j].offset = 0
  <2>1. PICK i \in 1 .. e : i = j - 1 /\ i < k /\ i + 1 = j
    BY <1>5
  <2>2. i \notin T
    <3>1. ~(k <= i)
      BY ONLY <1>5, <2>1, e \in Nat
    <3>2. QED
      BY Zenon, <1>4, <3>1
  <2>3. i # e
    BY <1>5, <2>1
  <2>4. QED
    BY <2>1, <2>2, <2>3
<1>7. FirstBlock(fl, k)
  <2>1. k < Len(fl) => k # e
    BY <1>1
  <2>2. QED
    BY Zenon, <1>1, <1>5, <1>6, <2>1 DEF FirstBlock
<1>8. \E i \in 1 .. Len(fl) : FirstBlock(fl, i)
  BY <1>7 DEF FirstBlock
<1>9. SameBlock = CHOOSE i \in 1 .. Len(fl) :
                    /\ \A j \in 2 .. i : fl[j].offset = 0
                    /\ i < Len(fl) => fl[i + 1].offset # 0
  BY DEF SameBlock
<1>10. QED
  BY Zenon, <1>8, <1>9 DEF FirstBlock

(* The filters of the first block have that block in the list of blocks,   *)
(* and with it the same length.                                            *)
LEMMA BlocksSame ==
  ASSUME NEW f, NEW ms, NEW c, NEW a \in Nat, QueueFor(f, ms, c, a),
         NEW k, FirstBlock(f, k), f[1].offset = 0
  PROVE  \A j \in 1 .. k : /\ ms[c + j].start = a /\ ms[c + j] = ms[c + 1]
                           /\ f[j].length = f[1].length
<1>1. /\ f \in Seq(Filter) /\ ms \in Seq(Mark) /\ c \in Nat /\ c + Len(f) <= Len(ms)
      /\ Apart(ms) /\ Linked(f, ms, c, a)
  BY Zenon DEF QueueFor
<1>2. PICK n \in Nat, e \in Nat : n = Len(ms) /\ e = Len(f)
  BY <1>1
<1>3. k \in 1 .. e /\ \A j \in 2 .. k : f[j].offset = 0
  BY <1>2 DEF FirstBlock
<1>4. ASSUME NEW j \in 1 .. e
      PROVE  /\ c + j \in 1 .. n /\ ms[c + j] \in Mark
             /\ ms[c + j].start \in Nat /\ ms[c + j].length \in Nat \ {0}
             /\ f[j].length = ms[c + j].length
             /\ f[j].offset = ms[c + j].start - From(ms, c, a, j)
  <2>1. c + j \in 1 .. n
    BY <1>1, <1>2
  <2>2. ms[c + j] \in Mark
    BY <1>1, <1>2, <2>1
  <2>3. QED
    BY <1>1, <1>2, <2>1, <2>2 DEF Mark, Linked
<1> DEFINE T == {j \in 1 .. k : ms[c + j].start # a}
<1>5. T = {}
  <2>1. SUFFICES ASSUME T # {} PROVE FALSE
    OBVIOUS
  <2>2. T \subseteq Nat
    BY <1>3
  <2>3. PICK j \in T : \A i \in T : j <= i
    BY ONLY <2>1, <2>2, Least
  <2>4. j \in 1 .. k /\ j \in 1 .. e /\ ms[c + j].start # a
    BY <1>3, <2>3
  <2>5. CASE j = 1
    <3>1. f[1].offset = ms[c + 1].start - a /\ ms[c + 1].start \in Nat
      BY <1>4, <2>4, <2>5 DEF From
    <3>2. QED
      BY <2>4, <2>5, <3>1
  <2>6. CASE j # 1
    <3>1. PICK i \in 1 .. k : i = j - 1 /\ i \in 1 .. e /\ c + j - 1 = c + i
      BY <1>1, <1>3, <2>4, <2>6
    <3>2. ms[c + i].start = a
      <4>1. ~(j <= i)
        BY ONLY <1>3, <2>4, <3>1, e \in Nat
      <4>2. i \notin T
        BY Zenon, <2>3, <4>1
      <4>3. QED
        BY Zenon, <4>2
    <3>3. j \in 2 .. k
      BY <1>3, <2>4, <2>6
    <3>4. f[j].offset = ms[c + j].start - a /\ f[j].offset = 0
      BY <1>3, <1>4, <2>4, <2>6, <3>1, <3>2, <3>3 DEF From
    <3>5. ms[c + j].start \in Nat
      BY <1>4, <2>4
    <3>6. QED
      BY <2>4, <3>4, <3>5
  <2>7. QED
    BY <2>5, <2>6
<1>6. ASSUME NEW j \in 1 .. k
      PROVE  ms[c + j].start = a /\ ms[c + j] = ms[c + 1]
  <2>1. ms[c + j].start = a /\ ms[c + 1].start = a
    BY <1>3, <1>5
  <2>2. CASE j = 1
    BY <2>1, <2>2
  <2>3. CASE j # 1
    <3>1. PICK x \in 1 .. n, y \in 1 .. n : x = c + 1 /\ y = c + j
      BY <1>3, <1>4
    <3>2. x \in 1 .. y - 1
      BY <1>1, <2>3, <3>1
    <3>3. Behind(ms[x], ms[y]) \/ ms[x] = ms[y]
      BY <1>1, <1>2, <3>2 DEF Apart
    <3>4. ms[x].length \in Nat \ {0}
      BY <1>3, <1>4, <3>1
    <3>5. ~Behind(ms[x], ms[y])
      BY <2>1, <3>1, <3>4 DEF Behind
    <3>6. QED
      BY <2>1, <3>1, <3>3, <3>5
  <2>4. QED
    BY <2>2, <2>3
<1>7. ASSUME NEW j \in 1 .. k
      PROVE  f[j].length = f[1].length
  <2>1. j \in 1 .. e /\ 1 \in 1 .. e
    BY <1>3
  <2>2. f[j].length = ms[c + j].length /\ f[1].length = ms[c + 1].length
    BY <1>4, <2>1
  <2>3. ms[c + j] = ms[c + 1]
    BY <1>6
  <2>4. QED
    BY <2>2, <2>3
<1>8. QED
  BY <1>6, <1>7

(* The first block is output, and its filters are taken from the queue. *)
LEMMA Popped ==
  ASSUME NEW ms, NEW c, NEW a \in Nat, QueueFor(fl, ms, c, a),
         NEW k, FirstBlock(fl, k), fl[1].offset = 0,
         \A m \in c + Len(fl) + 1 .. Len(ms) : ms[m].start >= a + fl[1].length
  PROVE  QueueFor(NextFilter(k), ms, c + k, a + fl[1].length)
<1>1. /\ fl \in Seq(Filter) /\ ms \in Seq(Mark) /\ c \in Nat /\ c + Len(fl) <= Len(ms)
      /\ Apart(ms) /\ Passed(ms, c, a) /\ Ahead(ms, c, a) /\ Linked(fl, ms, c, a)
  BY Zenon DEF QueueFor
<1>2. PICK n \in Nat, e \in Nat, l \in {fl[1].length} :
        n = Len(ms) /\ e = Len(fl) /\ l = fl[1].length
  BY <1>1
<1>3. k \in 1 .. e /\ (k < e => fl[k + 1].offset # 0)
  BY <1>2 DEF FirstBlock
<1>4. c + e <= n /\ c + k \in Nat /\ c + k <= n
  BY <1>1, <1>2, <1>3
<1>5. \A j \in 1 .. k : ms[c + j].start = a /\ ms[c + j] = ms[c + 1]
  BY BlocksSame
<1>6. \A m \in 1 .. n : /\ ms[m] \in Mark
                        /\ ms[m].start \in Nat /\ ms[m].length \in Nat \ {0}
  <2>1. TAKE m \in 1 .. n
  <2>2. ms[m] \in Mark
    BY <1>1, <1>2
  <2>3. QED
    BY <2>2 DEF Mark
<1>7. PICK b \in 1 .. n : b = c + 1
  BY <1>1, <1>3, <1>4
<1>8. /\ ms[b].start = a /\ ms[b].length = l /\ l \in Nat \ {0}
      /\ \A j \in 1 .. k : ms[c + j] = ms[b]
  <2>1. fl[1].length = ms[c + 1].length
    BY <1>1, <1>2, <1>3 DEF Linked
  <2>2. QED
    BY <1>2, <1>3, <1>5, <1>6, <1>7, <2>1
<1>9. Passed(ms, c + k, a + l)
  <2>1. ASSUME NEW m \in 1 .. c + k
        PROVE  ms[m].start + ms[m].length <= a + l
    <3>1. m \in 1 .. n
      BY <1>4
    <3>2. CASE m <= c
      <4>1. ms[m].start + ms[m].length <= a
        BY <1>1, <3>2 DEF Passed
      <4>2. QED
        BY <1>6, <1>8, <3>1, <4>1
    <3>3. CASE m > c
      <4>1. PICK j \in 1 .. k : m = c + j
        <5>1. m - c \in 1 .. k /\ m = c + (m - c)
          BY <1>1, <1>3, <3>3
        <5>2. QED
          BY <5>1
      <4>2. ms[m] = ms[b]
        BY <1>8, <4>1
      <4>3. QED
        BY <1>8, <4>2
    <3>4. QED
      BY <1>1, <3>2, <3>3
  <2>2. QED
    BY <2>1 DEF Passed
<1>10. ASSUME k < e
       PROVE  /\ c + k + 1 \in 1 .. n /\ ms[c + k + 1].start >= a + l
              /\ fl[k + 1].offset = ms[c + k + 1].start - a
  <2>1. PICK i \in 1 .. n : i = c + k + 1
    BY <1>1, <1>3, <1>4, <1>10
  <2>2. PICK h \in 1 .. e : h = k + 1
    BY <1>3, <1>10
  <2>3. fl[h].offset = ms[c + h].start - From(ms, c, a, h)
    BY <1>1, <1>2 DEF Linked
  <2>4. c + h = i /\ c + h - 1 = c + k /\ h # 1
    <3>1. c \in Nat /\ k \in Nat /\ k >= 1
      BY <1>1, <1>3
    <3>2. QED
      BY ONLY <2>1, <2>2, <3>1
  <2>5. From(ms, c, a, h) = a
    BY <1>3, <1>5, <2>4 DEF From
  <2>6. fl[h].offset = ms[i].start - a /\ fl[h].offset # 0
    BY <1>3, <1>10, <2>2, <2>3, <2>4, <2>5
  <2>7. b \in 1 .. i - 1
    BY <1>1, <1>3, <1>7, <2>1
  <2>8. Behind(ms[b], ms[i]) \/ ms[b] = ms[i]
    BY <1>1, <1>2, <2>7 DEF Apart
  <2>9. ms[b] # ms[i]
    BY <1>6, <1>8, <2>6
  <2>10. ms[i].start >= a + l
    BY <1>6, <1>8, <2>8, <2>9 DEF Behind
  <2>11. QED
    BY <2>1, <2>2, <2>6, <2>10
<1>11. Ahead(ms, c + k, a + l)
  <2>1. ASSUME NEW m \in c + k + 1 .. n
        PROVE  ms[m].start >= a + l
    <3>1. CASE k < e
      <4>1. PICK i \in 1 .. n : i = c + k + 1
        BY <1>10, <3>1
      <4>2. m \in i .. n /\ m \in 1 .. n
        BY <1>1, <1>3, <4>1
      <4>3. ms[i].start <= ms[m].start
        BY <1>1, <1>2, <4>2, Ordered
      <4>4. ms[i].start >= a + l
        BY <1>10, <3>1, <4>1
      <4>5. QED
        BY <1>6, <1>8, <4>2, <4>3, <4>4
    <3>2. CASE ~(k < e)
      <4>1. m \in c + Len(fl) + 1 .. Len(ms)
        BY <1>2, <1>3, <3>2
      <4>2. QED
        BY <1>2, <4>1
    <3>3. QED
      BY <3>1, <3>2
  <2>2. QED
    BY Zenon, <1>2, <2>1 DEF Ahead
<1>12. PICK g : g = NextFilter(k)
  OBVIOUS
<1>13. PICK z \in Nat : z = e - k
  BY <1>3
<1>14. ASSUME NEW j \in 1 .. z
       PROVE  /\ k + j \in 1 .. e /\ fl[k + j] \in Filter
              /\ j = 1 => k + j = k + 1
  <2>1. k + j \in 1 .. e
    BY <1>3, <1>13
  <2>2. QED
    BY <1>1, <1>2, <2>1
<1>15. g = [j \in 1 .. z |-> IF j = 1 THEN [fl[k + 1] EXCEPT !.offset = @ - l]
                                     ELSE fl[k + j]]
  BY Zenon, <1>2, <1>12, <1>13 DEF NextFilter
<1>16. ASSUME NEW x \in Filter
       PROVE  LET y == [x EXCEPT !.offset = @ - l] IN
              /\ y \in Filter /\ y.id = x.id /\ y.length = x.length
              /\ y.offset = x.offset - l
  BY <1>8 DEF Filter
<1>17. ASSUME NEW j \in 1 .. z
       PROVE  /\ g[j] \in Filter /\ g[j].id = fl[k + j].id
              /\ g[j].length = fl[k + j].length
              /\ g[j].offset = fl[k + j].offset - (IF j = 1 THEN l ELSE 0)
  <2>1. CASE j = 1
    <3>1. g[j] = [fl[k + j] EXCEPT !.offset = @ - l]
      BY Zenon, <1>14, <1>15, <2>1
    <3>2. QED
      BY <1>14, <1>16, <2>1, <3>1
  <2>2. CASE j # 1
    <3>1. g[j] = fl[k + j]
      BY Zenon, <1>15, <2>2
    <3>2. fl[k + j].offset \in Int
      BY <1>14 DEF Filter
    <3>3. QED
      BY <1>14, <2>2, <3>1, <3>2
  <2>3. QED
    BY <2>1, <2>2
<1>18. g \in Seq(Filter) /\ Len(g) = z
  <2>1. g = [j \in 1 .. z |-> g[j]]
    BY <1>15
  <2>2. g \in [1 .. z -> Filter]
    BY <1>17, <2>1
  <2>3. QED
    BY ONLY <2>1, <2>2, z \in Nat
<1>19. Linked(g, ms, c + k, a + l)
  <2>1. ASSUME NEW j \in 1 .. z
        PROVE  /\ g[j].id = c + k + j /\ g[j].length = ms[c + k + j].length
               /\ g[j].offset = ms[c + k + j].start - From(ms, c + k, a + l, j)
    <3>c. c \in Nat /\ k \in Nat /\ k >= 1 /\ j \in Nat /\ j >= 1
      BY <1>1, <1>3
    <3>1. PICK i \in 1 .. e : i = k + j /\ c + i = c + k + j
      <4>1. PICK i \in 1 .. e : i = k + j
        BY <1>14
      <4>2. c + i = c + k + j
        BY ONLY <3>c, <4>1
      <4>3. QED
        BY Zenon, <4>1, <4>2
    <3>2. /\ fl[i].id = c + i /\ fl[i].length = ms[c + i].length
          /\ fl[i].offset = ms[c + i].start - From(ms, c, a, i)
      BY <1>1, <1>2 DEF Linked
    <3>3. CASE j = 1
      <4>1. k < e /\ i = k + 1 /\ c + i = c + k + 1
        BY <1>1, <1>3, <1>13, <3>1, <3>3
      <4>2. fl[i].offset = ms[c + i].start - a /\ c + i \in 1 .. n
        BY <1>10, <4>1
      <4>3. ms[c + i].start \in Nat
        BY <1>6, <4>2
      <4>4. g[j].offset = ms[c + i].start - (a + l)
        BY <1>8, <1>17, <3>1, <3>3, <4>2, <4>3
      <4>5. From(ms, c + k, a + l, j) = a + l
        BY <3>3 DEF From
      <4>6. QED
        BY Zenon, <1>17, <3>1, <3>2, <4>4, <4>5
    <3>4. CASE j # 1
      <4>1. i # 1 /\ c + i - 1 = c + k + j - 1
        BY ONLY <3>c, <3>1, <3>4
      <4>2. From(ms, c + k, a + l, j) = From(ms, c, a, i)
        BY Zenon, <3>4, <4>1 DEF From
      <4>3. fl[i].offset \in Int
        BY <1>14, <3>1 DEF Filter
      <4>4. g[j].offset = fl[i].offset
        BY <1>17, <3>1, <3>4, <4>3
      <4>5. QED
        BY Zenon, <1>17, <3>1, <3>2, <4>2, <4>4
    <3>5. QED
      BY <3>3, <3>4
  <2>2. QED
    BY Zenon, <1>18, <2>1 DEF Linked
<1>20. c + k + Len(g) <= Len(ms)
  BY <1>1, <1>2, <1>3, <1>4, <1>13, <1>18
<1>21. QED
  BY Zenon, <1>1, <1>2, <1>4, <1>9, <1>11, <1>12, <1>18, <1>19, <1>20 DEF QueueFor
-----------------------------------------------------------------------------
(* The inductive invariant.  After an error that is not EOF a reader is    *)
(* only used again once it has been reset: what concerns the data holds    *)
(* while there was none.                                                   *)
Errors == {"EOF", "corrupt", "ErrTooManyFilters"}
Good == ret \in {"nil", "EOF"}
Running == pc \in {"decode", "decode2", "fill", "buf"}
Collecting == pc = "buf" \/ (pc = "fill" /\ back = "buf")

\* where in the stream the next output is made from
At == Len(hist) - (w - r) - Len(fbuf)

(* The unread bytes are in the window, and a fill starts with room in it. *)
Flow ==
  /\ r \in 0 .. w /\ w - r <= kept
  /\ pc \in {"new", "idle", "decode", "decode2", "fill", "buf", "serve"}
  /\ back \in {"decode2", "buf"}
  /\ pc = "fill" => r < size /\ err = "nil"
  /\ pc # "new" => size > 0

(* The end comes after the last block, and is reported when nothing is     *)
(* left in the window, in outbuf or of a block that was being collected.   *)
Ends ==
  /\ ret \in {"nil", "ErrMultipleDecoders"} \cup Errors /\ err \in {"nil"} \cup Errors
  /\ ended => /\ Good /\ err \in {"nil", "EOF"}
              /\ Passed(marks, Len(marks), Len(hist))
  /\ err = "EOF" => ended
  /\ ret = "EOF" => ended /\ w = r /\ outbuf = <<>> /\ fbuf = <<>>
  /\ Good \/ pc = "idle"

(* tot counts the bytes up to At, and a filter's input starts there.       *)
Collected ==
  /\ fbuf \in Seq(Nat) /\ base \in Nat /\ tot \in Nat
  /\ ~Collecting => fbuf = <<>>
  /\ Good => /\ base + tot = At
             /\ \A j \in 1 .. Len(fbuf) : fbuf[j] = hist[At + j]
             /\ Collecting => fl # <<>> /\ fl[1].offset = 0 /\ Len(fbuf) <= fl[1].length
             /\ Collecting /\ pc = "fill" => Len(fbuf) < fl[1].length

(* The queue is for the last blocks, but for one that is ahead of all that *)
(* was decoded, the filter of which was one too many.                      *)
QueueAs(f, ms, a, e, h) ==
  \E c \in Nat :
    /\ QueueFor(f, ms, c, a)
    /\ e # "ErrTooManyFilters" => c + Len(f) = Len(ms)
    /\ e = "ErrTooManyFilters" => c + Len(f) + 1 = Len(ms) /\ ms[Len(ms)].start >= h
Queue == Good => QueueAs(fl, marks, At, err, Len(hist))

\* Exact for any stream h, list of blocks ms and start b of the file
Holding(ms, m, q) == ms[m].start < q /\ q <= ms[m].start + ms[m].length
ExactIn(h, ms, b, x, q) ==
  /\ x.byte = h[q]
  /\ \A k \in 1 .. Len(x.by) :
       LET m == x.by[k].id IN
         /\ m \in 1 .. Len(ms) /\ Holding(ms, m, q)
         /\ x.by[k].at = ms[m].start - b
         /\ \A j \in 1 .. k - 1 : x.by[j].id < m
  /\ \A m \in 1 .. Len(ms) : Holding(ms, m, q) => \E k \in 1 .. Len(x.by) : x.by[k].id = m

(* What callers have been given last, and will be given next.              *)
Output ==
  /\ outbuf \in Seq(Byte) /\ Len(outbuf) <= tot
  /\ Running => outbuf = <<>>
  /\ \A j \in 1 .. Len(outbuf) :
       ExactIn(hist, marks, base, outbuf[j], base + Delivered + j)
  /\ \A j \in 1 .. Len(got.data) :
       ExactIn(hist, marks, base, got.data[j], base + got.at + j)

Whole == Flow /\ Ends /\ Collected /\ Queue /\ Output
Demand == [n : Int, on : BOOLEAN]
OInv == Ordinary => want \in Demand /\ Whole

(* The lengths and the indexes, and the order they are in. *)
LEMMA Numbers ==
  ASSUME WindowInv, Flow, Collected
  PROVE  /\ size \in Nat /\ w \in Nat /\ r \in Nat /\ kept \in Nat
         /\ Len(hist) \in Nat /\ Len(fbuf) \in Nat
         /\ r <= w /\ w <= size /\ w - r <= kept /\ kept <= size /\ kept <= Len(hist)
<1>1. win \in Seq(Nat) /\ hist \in Seq(Nat) /\ fbuf \in Seq(Nat)
  BY DEF WindowInv, Collected
<1>2. size \in Nat /\ Len(hist) \in Nat /\ Len(fbuf) \in Nat
  BY <1>1 DEF size
<1>3. w \in 0 .. size /\ kept \in 0 .. size /\ kept <= Len(hist)
  BY DEF WindowInv
<1>4. r \in 0 .. w /\ w - r <= kept
  BY DEF Flow
<1>5. QED
  BY ONLY <1>2, <1>3, <1>4

(* At is a place in the stream, where no more than the unread bytes and    *)
(* the ones of a block are left.                                           *)
LEMMA Place ==
  ASSUME WindowInv, Flow, Collected, Good
  PROVE  At \in Nat /\ At + Len(fbuf) + (w - r) = Len(hist) /\ w - r \in Nat
<1>1. PICK h \in Nat, b \in Nat, x \in Nat, y \in Nat :
        h = Len(hist) /\ b = Len(fbuf) /\ x = w /\ y = r
  BY ONLY WindowInv, Flow, Collected, Numbers
<1>2. y <= x
  BY <1>1 DEF Flow, WindowInv
<1>3. PICK s \in Nat, t \in Nat : s = base /\ t = tot
  BY DEF Collected
<1>4. At = s + t
  BY Zenon, <1>3 DEF Collected
<1>5. At = h - (x - y) - b
  BY Zenon, <1>1 DEF At
<1>6. QED
  BY <1>1, <1>2, <1>4, <1>5

(* A block that is being collected ends behind what has been decoded, if   *)
(* all of that is in it: at the end of a file nothing is being collected.  *)
LEMMA NothingHeld ==
  ASSUME WindowInv, Flow, Collected, Good, w = r,
         NEW e \in {"nil", "EOF"}, QueueAs(fl, marks, At, e, Len(hist)),
         Passed(marks, Len(marks), Len(hist)),
         Collecting => Len(fbuf) < fl[1].length
  PROVE  fbuf = <<>> /\ ~Collecting
<1>1. SUFFICES ASSUME Collecting
               PROVE  FALSE
  BY DEF Collected
<1>2. PICK a \in Nat, h \in Nat, b \in Nat :
        a = At /\ h = Len(hist) /\ b = Len(fbuf)
  BY Place DEF WindowInv, Collected
<1>3. a + b = h
  BY <1>2, Place DEF Flow, WindowInv
<1>4. PICK c \in Nat : QueueFor(fl, marks, c, a) /\ c + Len(fl) = Len(marks)
  <2>1. e # "ErrTooManyFilters"
    OBVIOUS
  <2>2. QED
    BY ONLY Zenon, <1>2, <2>1, QueueAs(fl, marks, At, e, Len(hist)) DEF QueueAs
<1>5. fl \in Seq(Filter) /\ marks \in Seq(Mark) /\ Linked(fl, marks, c, a)
  BY <1>4 DEF QueueFor
<1>6. fl # <<>> /\ fl[1].offset = 0
  BY <1>1 DEF Collected
<1>7. 1 \in 1 .. Len(fl)
  BY <1>5, <1>6, EmptySeq
<1>8. PICK m \in 1 .. Len(marks) : m = c + 1
  BY <1>4, <1>5, <1>7
<1>9. marks[m] \in Mark
  BY <1>5
<1>10. marks[m].start \in Nat /\ marks[m].length \in Nat
  BY <1>9 DEF Mark
<1>11. fl[1].length = marks[m].length /\ fl[1].offset = marks[m].start - a
  BY <1>5, <1>7, <1>8 DEF Linked, From
<1>12. marks[m].start + marks[m].length <= h
  BY <1>2 DEF Passed
<1>13. b < fl[1].length
  BY <1>1, <1>2
<1>14. QED
  BY <1>2, <1>3, <1>6, <1>10, <1>11, <1>12, <1>13

\* what the fill and the calls that only move data leave alone
DataKept == UNCHANGED <<win, w, r, hist, kept, fl, outbuf, tot, base, back>>

(* A call returns an error, with nothing left in the window. *)
LEMMA ReturnStep ==
  ASSUME WindowInv, Whole, Running, NEW e \in Errors, Return(e), err' = "nil", w = r,
         DataKept,
         e = "EOF" => /\ ended' /\ fbuf = <<>> /\ marks' = marks /\ err \in {"nil", "EOF"}
                      /\ Passed(marks, Len(marks), Len(hist)),
         e # "EOF" => ~ended'
  PROVE  Whole'
<1>1. /\ pc' = "idle" /\ ret' = (IF e = "EOF" /\ want.n < 0 THEN "nil" ELSE e)
      /\ got' = Nothing /\ fbuf' = <<>>
  BY DEF Return
<1>2. /\ win' = win /\ w' = w /\ r' = r /\ hist' = hist /\ kept' = kept /\ fl' = fl
      /\ outbuf' = outbuf /\ tot' = tot /\ base' = base /\ back' = back
  BY DEF DataKept
<1>3. Flow /\ Ends /\ Collected /\ Queue /\ Output
  BY DEF Whole
<1>4. outbuf = <<>> /\ Good /\ pc # "new"
  BY <1>3 DEF Output, Ends, Running
<1>5. Flow'
  BY <1>1, <1>2, <1>3, <1>4 DEF Flow, size
<1>6. Ends'
  <2>1. ret' \in {"nil", "ErrMultipleDecoders"} \cup Errors
    BY <1>1
  <2>2. ended' => e = "EOF"
    OBVIOUS
  <2>3. e = "EOF" => Good' /\ Passed(marks', Len(marks'), Len(hist'))
    BY <1>1, <1>2 DEF Good
  <2>4. ret' = "EOF" => ended' /\ w' = r' /\ outbuf' = <<>> /\ fbuf' = <<>>
    BY <1>1, <1>2, <1>4
  <2>5. QED
    BY <1>1, <2>1, <2>2, <2>3, <2>4 DEF Ends
<1>7. e # "EOF" => ~Good'
  BY <1>1 DEF Good, Errors
<1>8. <<>> \in Seq(Nat) /\ Len(<<>>) = 0
  BY EmptySeq
<1>9. e = "EOF" => At' = At
  BY Zenon, <1>1, <1>2 DEF At
<1>10. Collected'
  <2>1. fbuf' \in Seq(Nat) /\ base' \in Nat /\ tot' \in Nat
    BY <1>1, <1>2, <1>3, <1>8 DEF Collected
  <2>2. ~Collecting'
    BY <1>1 DEF Collecting
  <2>3. e = "EOF" => base' + tot' = At'
    BY Zenon, <1>2, <1>3, <1>4, <1>9 DEF Collected
  <2>4. \A j \in 1 .. Len(fbuf') : fbuf'[j] = hist'[At' + j]
    BY <1>1, <1>8
  <2>5. QED
    BY Zenon, <1>1, <1>7, <2>1, <2>2, <2>3, <2>4 DEF Collected
<1>11. Queue'
  <2>1. e = "EOF" => QueueAs(fl, marks, At, "nil", Len(hist))
    <3>1. SUFFICES ASSUME e = "EOF"
                   PROVE  QueueAs(fl, marks, At, "nil", Len(hist))
      OBVIOUS
    <3>2. QueueAs(fl, marks, At, err, Len(hist)) /\ err # "ErrTooManyFilters"
      BY <1>3, <1>4, <3>1 DEF Queue
    <3>3. "nil" # "ErrTooManyFilters"
      OBVIOUS
    <3>4. QED
      BY ONLY Zenon, <3>2, <3>3 DEF QueueAs
  <2>2. QED
    BY Zenon, <1>2, <1>7, <1>9, <2>1 DEF Queue
<1>12. Output'
  <2>1. outbuf' = <<>> /\ outbuf' \in Seq(Byte) /\ Len(outbuf') = 0 /\ Len(got'.data) = 0
    BY <1>1, <1>2, <1>4, EmptySeq DEF Nothing
  <2>2. 0 <= tot'
    BY <1>2, <1>3 DEF Collected
  <2>3. QED
    BY <2>1, <2>2 DEF Output
<1>13. QED
  BY Zenon, <1>5, <1>6, <1>10, <1>11, <1>12 DEF Whole

(* The decoder returns e, and the call goes on with what is in the window. *)
LEMMA FillReturnsStep ==
  ASSUME WindowInv, Whole, pc = "fill", NEW e \in {"nil"} \cup Errors, FillReturns(e, w),
         DataKept,
         e = "nil" => w = size /\ (ended' <=> ended) /\ marks' = marks,
         e = "EOF" => ended' /\ marks' = marks /\ Passed(marks, Len(marks), Len(hist)),
         e \notin {"nil", "EOF"} => ~ended',
         QueueAs(fl, marks', At, e, Len(hist))
  PROVE  Whole'
<1>1. /\ win' = win /\ w' = w /\ r' = r /\ hist' = hist /\ kept' = kept /\ fl' = fl
      /\ outbuf' = outbuf /\ tot' = tot /\ base' = base /\ back' = back
  BY DEF DataKept
<1>2. Flow /\ Ends /\ Collected /\ Queue /\ Output
  BY DEF Whole
<1>3. outbuf = <<>> /\ Good /\ err = "nil" /\ Running
  BY <1>2 DEF Output, Ends, Running, Flow
<1>4. CASE w = r /\ Return(e) /\ err' = "nil"
  <2>1. e # "nil"
    BY <1>2, <1>4 DEF Flow
  <2>2. e \in Errors
    BY <2>1
  <2>3. e = "EOF" => fbuf = <<>>
    <3>1. SUFFICES ASSUME e = "EOF"
                   PROVE  fbuf = <<>>
      OBVIOUS
    <3>2. e \in {"nil", "EOF"} /\ marks' = marks /\ Passed(marks, Len(marks), Len(hist))
      BY <3>1
    <3>3. QueueAs(fl, marks, At, e, Len(hist))
      BY ONLY Zenon, <3>2, QueueAs(fl, marks', At, e, Len(hist))
    <3>4. Collecting => Len(fbuf) < fl[1].length
      BY <1>2, <1>3 DEF Collected
    <3>5. QED
      BY ONLY <1>2, <1>3, <1>4, <3>2, <3>3, <3>4, WindowInv, NothingHeld
  <2>4. e = "EOF" => /\ ended' /\ fbuf = <<>> /\ marks' = marks /\ err \in {"nil", "EOF"}
                     /\ Passed(marks, Len(marks), Len(hist))
    BY <1>3, <2>3
  <2>5. e # "EOF" => ~ended'
    BY <2>1
  <2>6. QED
    BY ONLY WindowInv, Whole, DataKept, <1>3, <1>4, <2>2, <2>4, <2>5, ReturnStep
<1>5. CASE w # r /\ pc' = back /\ err' = e /\ got' = Nothing /\ UNCHANGED <<ret, want, fbuf>>
  <2>1. ret' = ret /\ fbuf' = fbuf /\ got' = Nothing /\ Good'
    BY <1>3, <1>5 DEF Good
  <2>2. Flow'
    BY <1>1, <1>2, <1>3, <1>5 DEF Flow, size
  <2>3. Ends'
    <3>1. ret \in {"nil"}
      BY <1>2, <1>3, <1>5 DEF Ends, Good
    <3>2. ended' => e \in {"nil", "EOF"} /\ marks' = marks
      OBVIOUS
    <3>3. ended' => Passed(marks', Len(marks'), Len(hist'))
      BY <1>1, <1>2, <3>2 DEF Ends
    <3>4. e = "EOF" => ended'
      OBVIOUS
    <3>5. QED
      BY <1>5, <2>1, <3>1, <3>2, <3>3, <3>4 DEF Ends
  <2>4. At' = At
    BY Zenon, <1>1, <2>1 DEF At
  <2>5. Collected'
    <3>1. Collecting' <=> Collecting
      BY <1>2, <1>5 DEF Collecting, Flow
    <3>2. pc' # "fill"
      BY <1>2, <1>5 DEF Flow
    <3>3. QED
      BY Zenon, <1>1, <1>2, <1>3, <2>1, <2>4, <3>1, <3>2 DEF Collected
  <2>6. Queue'
    BY Zenon, <1>1, <1>5, <2>4 DEF Queue
  <2>7. Output'
    <3>1. outbuf' = <<>> /\ outbuf' \in Seq(Byte) /\ Len(outbuf') = 0 /\ Len(got'.data) = 0
      BY <1>1, <1>3, <2>1, EmptySeq DEF Nothing
    <3>2. 0 <= tot'
      BY <1>1, <1>2 DEF Collected
    <3>3. QED
      BY <3>1, <3>2 DEF Output
  <2>8. QED
    BY Zenon, <2>2, <2>3, <2>5, <2>6, <2>7 DEF Whole
<1>6. QED
  BY <1>4, <1>5 DEF FillReturns

(* A call needs more bytes than the window has. *)
LEMMA FillStep ==
  ASSUME WindowInv, Whole, Running, pc # "fill", w = r, NEW to \in {"decode2", "buf"}, fill(to),
         UNCHANGED <<win, fl, outbuf, tot, stream>>,
         Collecting <=> to = "buf", Collecting => Len(fbuf) < fl[1].length
  PROVE  Whole'
<1>1. /\ win' = win /\ hist' = hist /\ kept' = kept /\ fl' = fl /\ marks' = marks
      /\ outbuf' = outbuf /\ tot' = tot /\ base' = base /\ (ended' <=> ended)
  BY DEF stream
<1>2. Flow /\ Ends /\ Collected /\ Queue /\ Output
  BY DEF Whole
<1>3. outbuf = <<>> /\ Good /\ pc # "new"
  BY <1>2 DEF Output, Ends, Running
<1>4. CASE err # "nil" /\ Return(err) /\ err' = "nil" /\ UNCHANGED <<w, r, back>>
  <2>1. err \in Errors
    BY <1>2, <1>4 DEF Ends
  <2>2. DataKept
    BY <1>1, <1>4 DEF DataKept
  <2>3. ended => err \in {"nil", "EOF"} /\ Passed(marks, Len(marks), Len(hist))
    BY <1>2 DEF Ends
  <2>4. err = "EOF" => ended
    BY <1>2 DEF Ends
  <2>5. err = "EOF" => fbuf = <<>>
    <3>1. SUFFICES ASSUME err = "EOF"
                   PROVE  fbuf = <<>>
      OBVIOUS
    <3>2. err \in {"nil", "EOF"} /\ Passed(marks, Len(marks), Len(hist))
      BY <2>3, <2>4, <3>1
    <3>3. QueueAs(fl, marks, At, err, Len(hist))
      BY <1>2, <1>3 DEF Queue
    <3>4. QED
      BY ONLY <1>2, <1>3, <3>2, <3>3, WindowInv, w = r,
              Collecting => Len(fbuf) < fl[1].length, NothingHeld
  <2>6. err = "EOF" => /\ ended' /\ fbuf = <<>> /\ marks' = marks /\ err \in {"nil", "EOF"}
                       /\ Passed(marks, Len(marks), Len(hist))
    BY <1>1, <2>3, <2>4, <2>5
  <2>7. err # "EOF" => ~ended'
    BY <1>1, <1>4, <2>3
  <2>8. QED
    BY ONLY WindowInv, Whole, Running, w = r, <1>4, <2>1, <2>2, <2>6, <2>7, ReturnStep
<1>5. CASE /\ err = "nil" /\ pc' = "fill" /\ back' = to /\ got' = Nothing
           /\ IF w = size THEN w' = 0 /\ r' = 0 ELSE UNCHANGED <<w, r>>
           /\ UNCHANGED <<err, ret, want, fbuf>>
  <2>1. PICK n \in Nat, x \in Nat, k \in Nat :
          n = size /\ x = w /\ x = r /\ x <= n /\ k = kept /\ n > 0
    BY <1>2, <1>3 DEF WindowInv, Flow, size
  <2>2. /\ w' = r' /\ w' \in Nat /\ r' < n /\ w' - r' = 0 /\ w - r = 0
    BY <1>5, <2>1
  <2>3. ret' = ret /\ fbuf' = fbuf /\ got' = Nothing /\ err' = "nil" /\ Good'
    BY <1>3, <1>5 DEF Good
  <2>4. size' = n
    BY <1>1, <2>1 DEF size
  <2>5. Flow'
    <3>1. r' \in 0 .. w' /\ w' - r' <= kept'
      BY <1>1, <2>1, <2>2
    <3>2. QED
      BY <1>5, <2>1, <2>2, <2>3, <2>4, <3>1 DEF Flow
  <2>6. Ends'
    BY <1>1, <1>2, <1>5, <2>2, <2>3 DEF Ends, Passed
  <2>7. At' = At
    BY Zenon, <1>1, <2>2, <2>3 DEF At
  <2>8. Collected'
    <3>1. Collecting' <=> Collecting
      BY <1>5 DEF Collecting
    <3>2. QED
      BY Zenon, <1>1, <1>2, <1>3, <2>3, <2>7, <3>1 DEF Collected
  <2>9. Queue'
    BY Zenon, <1>1, <1>2, <1>3, <1>5, <2>3, <2>7 DEF Queue
  <2>10. Output'
    <3>1. outbuf' = <<>> /\ outbuf' \in Seq(Byte) /\ Len(outbuf') = 0 /\ Len(got'.data) = 0
      BY <1>1, <1>3, <2>3, EmptySeq DEF Nothing
    <3>2. 0 <= tot'
      BY <1>1, <1>2 DEF Collected
    <3>3. QED
      BY <3>1, <3>2 DEF Output
  <2>11. QED
    BY Zenon, <2>5, <2>6, <2>8, <2>9, <2>10 DEF Whole
<1>6. QED
  BY <1>4, <1>5 DEF fill

(* The decoder writes: the bytes that are waiting stay where they are. *)
LEMMA GrowStep ==
  ASSUME WindowInv, Whole, pc = "fill", ~ended, NEW l \in Nat, Grown(l), got' = Nothing,
         UNCHANGED <<r, fl, outbuf, tot, err, base, marks, ended, call, ret>>
  PROVE  Whole'
<1>1. /\ r' = r /\ fl' = fl /\ outbuf' = outbuf /\ tot' = tot /\ err' = err /\ base' = base
      /\ marks' = marks /\ ~ended' /\ pc' = pc /\ back' = back /\ fbuf' = fbuf /\ ret' = ret
  BY DEF call
<1>2. Flow /\ Ends /\ Collected /\ Queue /\ Output
  BY DEF Whole
<1>3. outbuf = <<>> /\ Good /\ err = "nil" /\ ret = "nil" /\ Good'
  BY <1>1, <1>2 DEF Output, Ends, Running, Flow, Good
<1>4. PICK n \in Nat, x \in Nat, y \in Nat, k \in Nat, h \in Nat, b \in Nat :
        /\ n = size /\ x = w /\ y = r /\ k = kept /\ h = Len(hist) /\ b = Len(fbuf)
        /\ y <= x /\ x <= n /\ x - y <= k /\ k <= n
  BY ONLY <1>2, WindowInv, Numbers
<1>5. /\ w' = x + l /\ x + l <= n /\ size' = n
      /\ hist' \in Seq(Nat) /\ Len(hist') = h + l
      /\ \A j \in 1 .. h : hist'[j] = hist[j]
      /\ kept' = Smaller(k + l, n)
  BY Zenon, <1>4 DEF Grown
<1>6. Flow'
  <2>1. x + l - y <= Smaller(k + l, n) /\ y \in 0 .. x + l
    <3>1. x + l - y <= k + l /\ x + l - y <= n /\ y <= x + l
      BY <1>4, <1>5
    <3>2. QED
      BY <3>1 DEF Smaller
  <2>2. r' \in 0 .. w' /\ w' - r' <= kept'
    <3>1. r' = y /\ w' = x + l /\ kept' = Smaller(k + l, n)
      BY <1>1, <1>4, <1>5
    <3>2. QED
      BY ONLY <2>1, <3>1
  <2>3. QED
    BY <1>1, <1>2, <1>4, <1>5, <2>2 DEF Flow
<1>7. Ends'
  BY <1>1, <1>2, <1>3 DEF Ends
<1>8. At' = At
  <2>1. h + l - (x + l - y) - b = h - (x - y) - b
    BY ONLY h \in Nat, l \in Nat, x \in Nat, y \in Nat, b \in Nat
  <2>2. At' = h + l - (x + l - y) - b
    <3>1. Len(hist') = h + l /\ w' = x + l /\ r' = y /\ Len(fbuf') = b
      BY <1>1, <1>4, <1>5
    <3>2. At' = Len(hist') - (w' - r') - Len(fbuf')
      BY DEF At
    <3>3. QED
      BY ONLY <3>1, <3>2
  <2>3. At = h - (x - y) - b
    BY Zenon, <1>4 DEF At
  <2>4. QED
    BY ONLY Zenon, <2>1, <2>2, <2>3
<1>9. Collected'
  <2>1. Collecting' <=> Collecting
    BY <1>1 DEF Collecting
  <2>2. ASSUME NEW j \in 1 .. b
        PROVE  fbuf[j] = hist'[At + j]
    <3>1. PICK i \in 1 .. h : i = At + j
      BY <1>2, <1>3, <1>4, Place
    <3>2. fbuf[j] = hist[i]
      BY <1>2, <1>3, <1>4, <3>1 DEF Collected
    <3>3. QED
      BY <1>5, <3>1, <3>2
  <2>3. \A j \in 1 .. Len(fbuf') : fbuf'[j] = hist'[At' + j]
    BY Zenon, <1>1, <1>4, <1>8, <2>2
  <2>4. QED
    BY Zenon, <1>1, <1>2, <1>3, <1>8, <2>1, <2>3 DEF Collected
<1>10. Queue'
  <2>1. err # "ErrTooManyFilters"
    BY <1>3
  <2>2. QueueAs(fl, marks, At, err, Len(hist'))
    BY Zenon, <1>2, <1>3, <2>1 DEF Queue, QueueAs
  <2>3. QED
    BY Zenon, <1>1, <1>8, <2>2 DEF Queue
<1>11. Output'
  <2>1. outbuf' = <<>> /\ outbuf' \in Seq(Byte) /\ Len(outbuf') = 0 /\ Len(got'.data) = 0
    BY <1>1, <1>3, EmptySeq DEF Nothing
  <2>2. 0 <= tot'
    BY <1>1, <1>2 DEF Collected
  <2>3. QED
    BY <2>1, <2>2 DEF Output
<1>12. QED
  BY Zenon, <1>6, <1>7, <1>9, <1>10, <1>11 DEF Whole

\* a block that starts at u is announced, with y for the list of blocks and
\* it; v is where the block of the last filter starts
Announces(offset, u, v, y, c, a) ==
  /\ QueueFor(fl, marks, c, a) /\ c + Len(fl) = Len(marks) /\ fbuf = <<>>
  /\ a \in Nat /\ a = At /\ offset \in Nat /\ u = Len(hist) + offset
  /\ \A m \in 1 .. Len(marks) : y[m] = marks[m]
  /\ v = IF fl = <<>> THEN a ELSE y[c + Len(fl)].start

(* The offset that a new filter is queued with: it is counted from the     *)
(* start of the block before, and is less than the size of the window.     *)
LEMMA RelativeIs ==
  ASSUME WindowInv, Flow, Collected, Good,
         NEW offset, NEW u, NEW v, NEW y, NEW c, NEW a, Announces(offset, u, v, y, c, a)
  PROVE  Relative(offset) = u - v /\ Relative(offset) <= offset + w
<1>0. /\ QueueFor(fl, marks, c, a) /\ c + Len(fl) = Len(marks) /\ fbuf = <<>>
      /\ a \in Nat /\ a = At /\ offset \in Nat /\ u = Len(hist) + offset
      /\ \A m \in 1 .. Len(marks) : y[m] = marks[m]
      /\ fl = <<>> => v = a
      /\ fl # <<>> => v = y[c + Len(fl)].start
  BY Zenon DEF Announces
<1>1. PICK h \in Nat, x \in Nat, z \in Nat :
        /\ h = Len(hist) /\ x = w /\ z = r /\ z <= x /\ a = h - (x - z) /\ u = h + offset
        /\ a \in Nat /\ offset \in Nat
  <2>1. Len(fbuf) = 0
    BY <1>0, EmptySeq
  <2>2. /\ Len(hist) \in Nat /\ w \in Nat /\ r \in Nat /\ r <= w
        /\ a + 0 + (w - r) = Len(hist)
    BY <1>0, <2>1, Numbers, Place
  <2>3. a = Len(hist) - (w - r)
    BY ONLY <1>0, <2>2
  <2>4. QED
    BY <1>0, <2>2, <2>3
<1>2. QueuedUpTo = IF fl = <<>> THEN 0 ELSE marks[c + Len(fl)].start - a
  BY Zenon, <1>0, Total
<1>3. Relative(offset) = offset + (x - z) - QueuedUpTo
  <2>1. w = x /\ r = z
    BY <1>1
  <2>2. Relative(offset) = offset + (w - r) - QueuedUpTo
    BY DEF Relative
  <2>3. QED
    BY ONLY <2>1, <2>2
<1>4. CASE fl = <<>>
  <2>1. Relative(offset) = offset + (x - z) - 0 /\ v = a
    BY Zenon, <1>0, <1>2, <1>3, <1>4
  <2>2. /\ offset + (x - z) - 0 = u - a
        /\ offset + (x - z) - 0 <= offset + x
    BY <1>1
  <2>3. QED
    BY Zenon, <1>1, <2>1, <2>2
<1>5. CASE fl # <<>>
  <2>1. fl \in Seq(Filter) /\ marks \in Seq(Mark) /\ c \in Nat /\ Ahead(marks, c, a)
    BY <1>0 DEF QueueFor
  <2>2. PICK m \in 1 .. Len(marks) : m = c + Len(fl) /\ m \in c + 1 .. Len(marks)
    BY <1>0, <1>5, <2>1, EmptySeq
  <2>3. marks[m] \in Mark
    BY <2>1
  <2>4. marks[m].start \in Nat
    BY <2>3 DEF Mark
  <2>5. marks[m].start >= a
    BY <2>1, <2>2 DEF Ahead
  <2>6. QueuedUpTo = marks[m].start - a /\ y[m] = marks[m]
    BY <1>0, <1>2, <1>5, <2>2
  <2>7. PICK s \in Nat : s = marks[m].start /\ s >= a
    BY <2>4, <2>5
  <2>8. /\ Relative(offset) = offset + (x - z) - (s - a)
        /\ v = s
    BY Zenon, <1>0, <1>3, <1>5, <2>2, <2>6, <2>7
  <2>9. /\ offset + (x - z) - (s - a) = u - s
        /\ offset + (x - z) - (s - a) <= offset + x
    <3>1. s \in Nat /\ s >= a /\ z <= x /\ a = h - (x - z) /\ u = h + offset
      BY <1>1, <2>7
    <3>2. QED
      BY ONLY h \in Nat, x \in Nat, z \in Nat, <1>1, <3>1
  <2>10. QED
    BY Zenon, <1>1, <1>5, <2>8, <2>9
<1>6. QED
  BY <1>4, <1>5

(* A filter is announced: it is put into the queue, or it is one too many. *)
LEMMA QueueFilterStep ==
  ASSUME WindowInv, Whole, Ordinary, NEW offset \in 0 .. size, NEW length \in 1 .. size - 1,
         queueFilter(offset, length)
  PROVE  Whole'
<1>1. Flow /\ Ends /\ Collected /\ Queue /\ Output
  BY DEF Whole
<1>2. /\ pc = "fill" /\ ~ended /\ back # "buf" /\ w + offset < size
      /\ BlockAllowed(Len(hist) + offset, length)
      /\ UNCHANGED <<win, w, r, outbuf, tot, dec, hist, base, ended, kept, files, arch>>
  BY DEF queueFilter, Decoding, Ordinary
<1>3. err = "nil" /\ Good /\ ret = "nil" /\ outbuf = <<>> /\ ~Collecting /\ fbuf = <<>>
  BY <1>1, <1>2 DEF Flow, Ends, Good, Output, Running, Collecting, Collected
<1>4. PICK a \in Nat, h \in Nat : a = At /\ h = Len(hist) /\ a <= h
  BY <1>1, <1>3, Place DEF Collected, WindowInv
<1>5. PICK c \in Nat : QueueFor(fl, marks, c, a) /\ c + Len(fl) = Len(marks)
  <2>1. QueueAs(fl, marks, a, err, Len(hist)) /\ err # "ErrTooManyFilters"
    BY Zenon, <1>1, <1>3, <1>4 DEF Queue
  <2>2. QED
    BY ONLY Zenon, <2>1 DEF QueueAs
<1>6. fl \in Seq(Filter) /\ marks \in Seq(Mark)
  BY <1>5 DEF QueueFor
<1>7. size \in Nat /\ w \in Nat /\ length \in Nat \ {0} /\ offset \in Nat
  BY <1>1, Numbers
<1>8. PICK x : x = [start |-> Len(hist) + offset, length |-> length]
  OBVIOUS
<1>9. x \in Mark /\ x.start = h + offset /\ x.length = length /\ x.start >= a /\ x.start >= h
  BY <1>4, <1>7, <1>8 DEF Mark
<1>10. \A m \in 1 .. Len(marks) : Behind(marks[m], x) \/ marks[m] = x
  <2>1. TAKE m \in 1 .. Len(marks)
  <2>2. marks[m] \in Mark
    BY <1>6
  <2>3. \/ marks[m].start + marks[m].length <= x.start
        \/ marks[m].start = x.start /\ marks[m].length = x.length
    BY <1>2, <1>4, <1>9 DEF BlockAllowed
  <2>4. CASE marks[m].start = x.start /\ marks[m].length = x.length
    BY <1>9, <2>2, <2>4 DEF Mark
  <2>5. QED
    BY <2>3, <2>4 DEF Behind
<1>11. PICK y : y = Append(marks, x)
  OBVIOUS
<1>12. marks' = y
  BY <1>8, <1>11 DEF queueFilter
<1>13. QueueFor(fl, y, c, a)
  BY ONLY Zenon, <1>5, <1>9, <1>10, <1>11, a \in Nat, Announced
<1>14. /\ Len(y) = Len(marks) + 1 /\ y[Len(y)] = x /\ Len(y) \in Nat
       /\ \A m \in 1 .. Len(marks) : y[m] = marks[m]
       /\ c + Len(fl) + 1 = Len(y)
  BY <1>5, <1>6, <1>9, <1>11
<1>15. PICK o : o = Relative(offset)
  OBVIOUS
<1>16. /\ o = x.start - (IF fl = <<>> THEN a ELSE y[c + Len(fl)].start)
       /\ o <= offset + w
  <2>1. PICK u, v : u = x.start /\ v = IF fl = <<>> THEN a ELSE y[c + Len(fl)].start
    OBVIOUS
  <2>2. u = Len(hist) + offset /\ a = At
    BY <1>4, <1>9, <2>1
  <2>3. Relative(offset) = u - v /\ Relative(offset) <= offset + w
    <3>1. Announces(offset, u, v, y, c, a)
      BY Zenon, <1>3, <1>5, <1>7, <1>14, <2>1, <2>2 DEF Announces
    <3>2. QED
      BY ONLY WindowInv, <1>1, <1>3, <3>1, RelativeIs
  <2>4. QED
    BY ONLY Zenon, <1>15, <2>1, <2>3
<1>17. o \in Int
  <2>1. CASE fl = <<>>
    BY <1>4, <1>9, <1>16, <2>1
  <2>2. CASE fl # <<>>
    <3>1. PICK m \in 1 .. Len(marks) : m = c + Len(fl)
      BY <1>5, <1>6, <2>2, EmptySeq
    <3>2. marks[m] \in Mark
      BY <1>6
    <3>3. y[m].start \in Nat
      BY <1>14, <3>2 DEF Mark
    <3>4. QED
      BY <1>4, <1>9, <1>16, <2>2, <3>1, <3>3
  <2>3. QED
    BY <2>1, <2>2
<1>18. PICK g : g = [id |-> Len(y), offset |-> o, length |-> length]
  OBVIOUS
<1>19. /\ g \in Filter /\ g.id = Len(y) /\ g.offset = o /\ g.length = y[Len(y)].length
  BY <1>7, <1>9, <1>14, <1>17, <1>18 DEF Filter
<1>20. QueueFor(Append(fl, g), y, c, a) /\ g.offset >= 0
  <2>1. g.offset = y[Len(y)].start - (IF fl = <<>> THEN a ELSE y[c + Len(fl)].start)
    BY Zenon, <1>14, <1>16, <1>19
  <2>2. QED
    BY ONLY <1>13, <1>14, <1>19, <2>1, a \in Nat, Appended
<1>21. o >= 0
  BY <1>19, <1>20
<1>22. CASE /\ fl' = Append(fl, [id |-> Len(marks) + 1, offset |-> Relative(offset) % size,
                                 length |-> length % size])
            /\ got' = Nothing /\ UNCHANGED <<err, call, ret>>
  <2>1. o % size = o /\ length % size = length
    BY <1>2, <1>7, <1>16, <1>17, <1>21, ModSmall
  <2>2. fl' = Append(fl, g)
    BY Zenon, <1>14, <1>15, <1>18, <1>22, <2>1
  <2>3. /\ w' = w /\ r' = r /\ outbuf' = outbuf /\ tot' = tot /\ hist' = hist /\ base' = base
        /\ kept' = kept /\ win' = win /\ pc' = pc /\ back' = back /\ fbuf' = fbuf
        /\ ret' = ret /\ err' = err /\ got' = Nothing /\ ~ended'
    BY <1>2, <1>22 DEF call
  <2>4. Flow'
    BY <1>1, <2>3 DEF Flow, size
  <2>5. Ends'
    BY <1>1, <1>3, <2>3 DEF Ends, Good
  <2>6. At' = At /\ Good' /\ ~Collecting'
    BY Zenon, <1>3, <2>3 DEF At, Good, Collecting
  <2>7. Collected'
    BY Zenon, <1>1, <1>3, <2>3, <2>6 DEF Collected
  <2>8. Queue'
    <3>1. PICK f : f = Append(fl, g)
      OBVIOUS
    <3>2. c + Len(f) = Len(y)
      BY <1>5, <1>6, <1>14, <1>19, <3>1
    <3>3. QueueFor(f, y, c, a) /\ err # "ErrTooManyFilters"
      BY <1>3, <1>20, <3>1
    <3>4. QueueAs(f, y, a, err, h)
      BY ONLY Zenon, <3>2, <3>3, c \in Nat DEF QueueAs
    <3>5. QED
      BY Zenon, <1>4, <1>12, <2>2, <2>3, <2>6, <3>1, <3>4 DEF Queue
  <2>9. Output'
    <3>1. outbuf' = <<>> /\ outbuf' \in Seq(Byte) /\ Len(outbuf') = 0 /\ Len(got'.data) = 0
      BY <1>3, <2>3, EmptySeq DEF Nothing
    <3>2. 0 <= tot'
      BY <1>1, <2>3 DEF Collected
    <3>3. QED
      BY <3>1, <3>2 DEF Output
  <2>10. QED
    BY Zenon, <2>4, <2>5, <2>7, <2>8, <2>9 DEF Whole
<1>23. CASE FillReturns("ErrTooManyFilters", w) /\ UNCHANGED <<fl, back>>
  <2>1. PICK e : e = "ErrTooManyFilters"
    OBVIOUS
  <2>2. QueueAs(fl, y, a, e, h)
    BY ONLY Zenon, <1>9, <1>13, <1>14, <2>1, c \in Nat DEF QueueAs
  <2>3. QueueAs(fl, marks', At, e, Len(hist))
    BY Zenon, <1>4, <1>12, <2>2
  <2>4. DataKept
    BY <1>2, <1>23 DEF DataKept
  <2>5. /\ e \in {"nil"} \cup Errors /\ FillReturns(e, w) /\ ~ended'
        /\ e # "nil" /\ e # "EOF"
    BY <1>2, <1>23, <2>1 DEF Errors
  <2>6. QED
    BY ONLY WindowInv, Whole, <1>2, <2>3, <2>4, <2>5, FillReturnsStep
<1>24. ~(Relative(offset) < 0)
  BY ONLY <1>15, <1>17, <1>21
<1>25. QED
  BY Zenon, <1>22, <1>23, <1>24 DEF queueFilter

(* The window is full, the file ends, or the decoder fails. *)
LEMMA ReturningSteps ==
  ASSUME WindowInv, Whole, Full \/ EndOfFile \/ DecoderFails
  PROVE  Whole'
<1>1. Flow /\ Ends /\ Collected /\ Queue /\ Output
  BY DEF Whole
<1>2. pc = "fill" /\ DataKept /\ marks' = marks
  BY DEF Full, EndOfFile, DecoderFails, Decoding, DataKept, stream
<1>3. err = "nil" /\ Good
  BY <1>1, <1>2 DEF Flow, Ends
<1>4. \A e : e # "ErrTooManyFilters" => QueueAs(fl, marks', At, e, Len(hist))
  <2>1. QueueAs(fl, marks', At, err, Len(hist)) /\ err # "ErrTooManyFilters"
    BY <1>1, <1>2, <1>3 DEF Queue
  <2>2. QED
    BY ONLY Zenon, <2>1 DEF QueueAs
<1>5. PICK e \in {"nil", "EOF", "corrupt"} :
        /\ FillReturns(e, w)
        /\ e = "nil" => w = size /\ (ended' <=> ended)
        /\ e = "EOF" => ended' /\ Passed(marks, Len(marks), Len(hist))
        /\ e = "corrupt" => ~ended'
  <2>1. CASE Full
    BY <2>1 DEF Full, stream
  <2>2. CASE EndOfFile
    BY <2>2 DEF EndOfFile, Passed
  <2>3. CASE DecoderFails
    BY <2>3 DEF DecoderFails, Decoding, stream
  <2>4. QED
    BY <2>1, <2>2, <2>3
<1>6. e \in {"nil"} \cup Errors /\ QueueAs(fl, marks', At, e, Len(hist))
  BY <1>4 DEF Errors
<1>7. e \notin {"nil", "EOF"} => ~ended'
  BY <1>5
<1>8. QED
  BY ONLY WindowInv, Whole, <1>2, <1>5, <1>6, <1>7, FillReturnsStep

(* Only the step of the call changes. *)
LEMMA MoveStep ==
  ASSUME Whole, ~Collecting, Good, pc # "new", pc' \in {"decode", "decode2", "serve"},
         pc' # "serve" => outbuf = <<>>, got' = Nothing,
         UNCHANGED <<d, stream, back, fbuf, ret>>
  PROVE  Whole'
<1>1. Flow /\ Ends /\ Collected /\ Queue /\ Output
  BY DEF Whole
<1>2. /\ win' = win /\ w' = w /\ r' = r /\ fl' = fl /\ outbuf' = outbuf /\ tot' = tot
      /\ err' = err /\ hist' = hist /\ base' = base /\ marks' = marks /\ (ended' <=> ended)
      /\ kept' = kept /\ back' = back /\ fbuf' = fbuf /\ ret' = ret
  BY DEF d, stream
<1>3. Good' /\ ~Collecting' /\ At' = At
  BY <1>2 DEF Good, Collecting, At
<1>4. Flow'
  BY <1>1, <1>2 DEF Flow, size
<1>5. Ends'
  BY <1>1, <1>2, <1>3 DEF Ends
<1>6. Collected'
  BY Zenon, <1>1, <1>2, <1>3 DEF Collected
<1>7. Queue'
  BY Zenon, <1>1, <1>2, <1>3 DEF Queue
<1>8. Output'
  <2>1. Len(got'.data) = 0
    BY EmptySeq DEF Nothing
  <2>2. /\ Running' => outbuf' = <<>>
        /\ outbuf' \in Seq(Byte) /\ Len(outbuf') <= tot'
    BY <1>1, <1>2 DEF Output, Running
  <2>3. Delivered' = Delivered
    BY <1>2 DEF Delivered
  <2>4. \A j \in 1 .. Len(outbuf') :
          ExactIn(hist', marks', base', outbuf'[j], base' + Delivered' + j)
    BY Zenon, <1>1, <1>2, <2>3 DEF Output
  <2>5. \A j \in 1 .. Len(got'.data) : FALSE
    BY <2>1
  <2>6. QED
    BY Zenon, <2>2, <2>4, <2>5 DEF Output
<1>9. QED
  BY Zenon, <1>4, <1>5, <1>6, <1>7, <1>8 DEF Whole

(* A byte that is waiting in the window. *)
LEMMA WindowByte ==
  ASSUME WindowInv, Flow, Collected, NEW j \in 1 .. w - r
  PROVE  /\ r + j \in 1 .. Len(win) /\ win[r + j] \in Nat
         /\ win[r + j] = hist[Len(hist) - (w - r) + j]
<1>1. PICK n \in Nat, x \in Nat, y \in Nat, k \in Nat, h \in Nat :
        /\ n = size /\ x = w /\ y = r /\ k = kept /\ h = Len(hist)
        /\ y <= x /\ x <= n /\ x - y <= k /\ k <= n /\ j \in Nat /\ j >= 1 /\ j <= x - y
  BY Numbers
<1>2. PICK q \in 1 .. k : q = x - y - j + 1 /\ q <= x
  BY <1>1
<1>3. Slot(n, x, q) = y + j
  BY <1>1, <1>2 DEF Slot
<1>4. win[Slot(n, x, q)] = hist[h - q + 1]
  BY <1>1, <1>2 DEF WindowInv, Holds
<1>5. h - q + 1 = h - (x - y) + j
  BY <1>1, <1>2
<1>6. y + j \in 1 .. n
  BY <1>1
<1>7. win \in Seq(Nat) /\ Len(win) = n
  BY <1>1 DEF WindowInv, size
<1>8. win[y + j] \in Nat
  BY ONLY <1>6, <1>7
<1>9. win[y + j] = hist[h - (x - y) + j]
  BY Zenon, <1>3, <1>4, <1>5
<1>10. QED
  BY ONLY <1>1, <1>6, <1>7, <1>8, <1>9

(* The next l of them. *)
LEMMA WindowPart ==
  ASSUME WindowInv, Flow, Collected, NEW l \in 0 .. w - r
  PROVE  LET u == SubSeq(win, r + 1, r + l) IN
         /\ u \in Seq(Nat) /\ Len(u) = l
         /\ \A j \in 1 .. l : u[j] = hist[Len(hist) - (w - r) + j]
<1>1. PICK n \in Nat, x \in Nat, y \in Nat, k \in Nat :
        /\ n = size /\ x = w /\ y = r /\ k \in Nat /\ k = l
        /\ y <= x /\ x <= n /\ k <= x - y
  <2>1. size \in Nat /\ w \in Nat /\ r \in Nat /\ r <= w /\ w <= size
    BY Numbers
  <2>2. l \in Nat /\ l <= w - r
    BY <2>1
  <2>3. QED
    BY <2>1, <2>2
<1>2. win \in Seq(Nat) /\ Len(win) = n
  BY <1>1 DEF WindowInv, size
<1>3. PICK i \in 1 .. n + 1, e \in 0 .. n : i = y + 1 /\ e = y + k
  BY <1>1
<1>4. i <= e + 1 /\ e - i + 1 = k /\ \A j \in 1 .. k : i + j - 1 = y + j
  BY <1>1, <1>3
<1>5. PICK u : u = Part(win, i, e)
  OBVIOUS
<1>6. /\ u \in Seq(Nat) /\ Len(u) = e - i + 1
      /\ \A j \in 1 .. e - i + 1 : u[j] = win[i + j - 1]
  <2>1. i \in 1 .. Len(win) + 1 /\ e \in 0 .. Len(win) /\ i <= e + 1 /\ win \in Seq(Nat)
    BY Zenon, <1>2, <1>4
  <2>2. QED
    BY ONLY Zenon, <1>5, <2>1, PartType
<1>7. ASSUME NEW j \in 1 .. l
      PROVE  u[j] = hist[Len(hist) - (w - r) + j]
  <2>1. j \in 1 .. w - r /\ j \in 1 .. k
    BY <1>1
  <2>2. win[r + j] = hist[Len(hist) - (w - r) + j]
    BY ONLY <2>1, WindowInv, Flow, Collected, WindowByte
  <2>3. u[j] = win[y + j]
    BY Zenon, <1>4, <1>6, <2>1
  <2>4. QED
    BY <1>1, <2>2, <2>3
<1>8. SubSeq(win, r + 1, r + l) = u
  <2>1. r + 1 = i /\ r + l = e
    BY <1>1, <1>3
  <2>2. QED
    BY Zenon, <1>5, <2>1 DEF Part
<1>9. u \in Seq(Nat) /\ Len(u) = l
  BY <1>1, <1>4, <1>6
<1>10. QED
  BY Zenon, <1>7, <1>8, <1>9

(* The first filter of a queue is not behind the place that is read from. *)
LEMMA FirstOffset ==
  ASSUME NEW f, NEW ms, NEW c, NEW a \in Nat, QueueFor(f, ms, c, a), f # <<>>
  PROVE  /\ f[1].offset \in Nat /\ f[1].length \in Nat \ {0}
         /\ 1 \in 1 .. Len(f) /\ c + 1 \in 1 .. Len(ms)
<1>1. /\ f \in Seq(Filter) /\ ms \in Seq(Mark) /\ c \in Nat /\ c + Len(f) <= Len(ms)
      /\ Ahead(ms, c, a) /\ Linked(f, ms, c, a)
  BY DEF QueueFor
<1>2. Len(f) \in Nat /\ Len(f) >= 1
  BY <1>1, EmptySeq
<1>3. 1 \in 1 .. Len(f)
  BY <1>2
<1>4. PICK m \in 1 .. Len(ms) : m = c + 1 /\ m \in c + 1 .. Len(ms)
  BY <1>1, <1>2
<1>5. ms[m] \in Mark
  BY <1>1
<1>6. ms[m].start \in Nat /\ ms[m].length \in Nat \ {0}
  BY <1>5 DEF Mark
<1>7. ms[m].start >= a
  BY <1>1, <1>4 DEF Ahead
<1>8. f[1].offset = ms[m].start - a /\ f[1].length = ms[m].length
  BY <1>1, <1>3, <1>4 DEF Linked, From
<1>9. QED
  BY <1>3, <1>4, <1>6, <1>7, <1>8

(* No filter's block holds a byte between two that are behind it and ahead *)
(* of it.                                                                  *)
LEMMA PlainExact ==
  ASSUME NEW c, NEW a \in Nat, NEW l \in Nat, NEW f, NEW ms, NEW h, NEW b,
         QueueFor(f, ms, c, a + l), Passed(ms, c, a),
         NEW q \in a + 1 .. a + l, NEW x, x.byte = h[q], x.by = <<>>
  PROVE  ExactIn(h, ms, b, x, q)
<1>1. ms \in Seq(Mark) /\ c \in Nat /\ Ahead(ms, c, a + l)
  BY DEF QueueFor
<1>2. ASSUME NEW m \in 1 .. Len(ms)
      PROVE  ~Holding(ms, m, q)
  <2>1. ms[m] \in Mark
    BY <1>1
  <2>2. ms[m].start \in Nat /\ ms[m].length \in Nat
    BY <2>1 DEF Mark
  <2>3. CASE m <= c
    <3>1. ms[m].start + ms[m].length <= a
      BY <1>1, <2>3 DEF Passed
    <3>2. QED
      BY <2>2, <3>1 DEF Holding
  <2>4. CASE m > c
    <3>1. ms[m].start >= a + l
      BY <1>1, <2>4 DEF Ahead
    <3>2. QED
      BY <2>2, <3>1 DEF Holding
  <2>5. QED
    BY <1>1, <2>3, <2>4
<1>3. Len(x.by) = 0
  BY EmptySeq
<1>4. \A k \in 1 .. Len(x.by) : FALSE
  BY <1>3
<1>5. QED
  BY Zenon, <1>2, <1>4 DEF ExactIn

(* l bytes of the window are output that are in no filter's block. *)
LEMMA EmitStep ==
  ASSUME WindowInv, Whole, pc = "decode2", NEW l \in 0 .. w - r, Emit(l),
         pc' = "serve", got' = Nothing,
         UNCHANGED <<win, w, err, dec, back, stream, want, fbuf, ret>>,
         \/ fl = <<>> /\ fl' = fl
         \/ fl # <<>> /\ l <= fl[1].offset /\ fl' = [fl EXCEPT ![1].offset = @ - l]
  PROVE  Whole'
<1>1. Flow /\ Ends /\ Collected /\ Queue /\ Output
  BY DEF Whole
<1>2. /\ win' = win /\ w' = w /\ r' = r + l /\ tot' = tot + l /\ err' = err /\ hist' = hist
      /\ base' = base /\ marks' = marks /\ (ended' <=> ended) /\ kept' = kept
      /\ back' = back /\ fbuf' = fbuf /\ ret' = ret
      /\ outbuf' = Unfiltered(SubSeq(win, r + 1, r + l))
  BY DEF stream, Emit
<1>3. Good /\ Good' /\ ~Collecting /\ ~Collecting' /\ fbuf = <<>> /\ outbuf = <<>>
  BY <1>1, <1>2 DEF Ends, Good, Collecting, Collected, Output, Running
<1>4. PICK n \in Nat, x \in Nat, y \in Nat, k \in Nat, h \in Nat, a \in Nat, s \in Nat, t \in Nat :
        /\ n = size /\ x = w /\ y = r /\ k = kept /\ h = Len(hist) /\ a = At
        /\ s = base /\ t = tot
        /\ y <= x /\ x <= n /\ x - y <= k /\ l \in Nat /\ l <= x - y
        /\ s + t = a /\ a = h - (x - y) /\ a + l <= h
  <2>1. /\ size \in Nat /\ w \in Nat /\ r \in Nat /\ kept \in Nat /\ Len(hist) \in Nat
        /\ r <= w /\ w <= size /\ w - r <= kept
    BY ONLY <1>1, WindowInv, Numbers
  <2>2. At \in Nat /\ At + Len(fbuf) + (w - r) = Len(hist)
    BY ONLY <1>1, <1>3, WindowInv, Place
  <2>3. Len(fbuf) = 0 /\ base \in Nat /\ tot \in Nat /\ base + tot = At
    BY <1>1, <1>3, EmptySeq DEF Collected
  <2>4. At + 0 + (w - r) = Len(hist)
    BY Zenon, <2>2, <2>3
  <2>5. At = Len(hist) - (w - r) /\ At + l <= Len(hist)
    BY ONLY <2>1, <2>2, <2>4, l \in 0 .. w - r
  <2>6. l \in Nat /\ l <= w - r
    BY ONLY <2>1, l \in 0 .. w - r
  <2>7. QED
    BY ONLY <2>1, <2>2, <2>3, <2>5, <2>6
<1>5. At' = a + l
  <2>1. At' = Len(hist) - (w - (r + l)) - Len(fbuf)
    BY Zenon, <1>2 DEF At
  <2>2. Len(fbuf) = 0
    BY <1>3, EmptySeq
  <2>3. QED
    BY <1>4, <2>1, <2>2
<1>6. PICK c \in Nat :
        /\ QueueFor(fl, marks, c, a)
        /\ err # "ErrTooManyFilters" => c + Len(fl) = Len(marks)
        /\ err = "ErrTooManyFilters" => /\ c + Len(fl) + 1 = Len(marks)
                                        /\ marks[Len(marks)].start >= h
  <2>1. QueueAs(fl, marks, a, err, h)
    BY Zenon, <1>1, <1>3, <1>4 DEF Queue
  <2>2. QED
    BY ONLY Zenon, <2>1 DEF QueueAs
<1>7. QueueFor(fl', marks, c, a + l) /\ Len(fl') = Len(fl)
  <2>1. CASE fl = <<>> /\ fl' = fl
    <3>1. QueueFor(<<>>, marks, c, a) /\ Len(fl) = 0
      BY <1>6, <2>1, EmptySeq
    <3>2. marks \in Seq(Mark)
      BY <3>1 DEF QueueFor
    <3>3. ASSUME NEW m \in c + 1 .. Len(marks)
          PROVE  marks[m].start >= a + l
      <4>1. m = Len(marks) /\ marks[Len(marks)].start >= h /\ m \in 1 .. Len(marks)
        BY <1>6, <3>1, <3>2
      <4>2. marks[m] \in Mark
        BY <3>2, <4>1
      <4>3. marks[m].start \in Nat
        BY <4>2 DEF Mark
      <4>4. a + l <= h /\ marks[m].start >= h
        BY ONLY Zenon, <1>4, <4>1
      <4>5. QED
        BY ONLY <4>3, <4>4, a \in Nat, l \in Nat, h \in Nat
    <3>4. Ahead(marks, c, a + l)
      BY <3>3 DEF Ahead
    <3>5. QueueFor(<<>>, marks, c, a + l)
      BY ONLY <1>4, <3>1, <3>4, a \in Nat, AdvancedFreely
    <3>6. QED
      BY <2>1, <3>5
  <2>2. CASE fl # <<>> /\ l <= fl[1].offset /\ fl' = [fl EXCEPT ![1].offset = @ - l]
    <3>1. QueueFor(fl', marks, c, a + l)
      BY ONLY <1>4, <1>6, <2>2, a \in Nat, Advanced
    <3>2. fl \in Seq(Filter)
      BY <1>6 DEF QueueFor
    <3>3. Len(fl') = Len(fl)
      BY <2>2, <3>2
    <3>4. QED
      BY <3>1, <3>3
  <2>3. QED
    BY <2>1, <2>2
<1>8. Flow'
  <2>1. y + l \in 0 .. x /\ x - (y + l) <= k
    BY ONLY <1>4, x \in Nat, y \in Nat, k \in Nat
  <2>2. r' = y + l /\ w' = x /\ kept' = k
    BY Zenon, <1>2, <1>4
  <2>3. r' \in 0 .. w' /\ w' - r' <= kept'
    BY ONLY Zenon, <2>1, <2>2
  <2>4. QED
    BY <1>1, <1>2, <2>3 DEF Flow, size
<1>9. PICK u : u = SubSeq(win, r + 1, r + l)
  OBVIOUS
<1>10. /\ u \in Seq(Nat) /\ Len(u) = l
       /\ \A j \in 1 .. l : u[j] = hist[Len(hist) - (w - r) + j]
  BY ONLY <1>1, <1>9, WindowInv, l \in 0 .. w - r, WindowPart
<1>11. Len(u) = l /\ \A j \in 1 .. l : u[j] = hist[a + j] /\ u[j] \in Nat
  <2>1. Len(hist) - (w - r) = a
    BY <1>4
  <2>2. \A j \in 1 .. l : u[j] \in Nat
    BY ONLY <1>4, <1>10
  <2>3. QED
    BY Zenon, <1>10, <2>1, <2>2
<1>12. /\ outbuf' \in Seq(Byte) /\ Len(outbuf') = l
       /\ \A j \in 1 .. l : outbuf'[j].byte = hist[a + j] /\ outbuf'[j].by = <<>>
  <2>1. outbuf' = [j \in 1 .. l |-> [byte |-> u[j], by |-> <<>>]]
    BY Zenon, <1>2, <1>9, <1>11 DEF Unfiltered
  <2>2. <<>> \in Seq([id : Nat, at : Int])
    BY EmptySeq
  <2>3. \A j \in 1 .. l : [byte |-> u[j], by |-> <<>>] \in Byte
    BY <1>11, <2>2 DEF Byte
  <2>4. outbuf' \in [1 .. l -> Byte] /\ l \in Nat
    BY <1>4, <2>1, <2>3
  <2>5. outbuf' \in Seq(Byte) /\ Len(outbuf') = l
    BY ONLY <2>1, <2>4
  <2>6. ASSUME NEW j \in 1 .. l
        PROVE  outbuf'[j].byte = hist[a + j] /\ outbuf'[j].by = <<>>
    <3>1. outbuf'[j] = [byte |-> u[j], by |-> <<>>]
      BY <2>1
    <3>2. QED
      BY <1>11, <3>1
  <2>7. QED
    BY <2>5, <2>6
<1>13. Ends'
  <2>1. w = r => outbuf' = <<>> /\ w' = r'
    <3>1. SUFFICES ASSUME w = r
                   PROVE  outbuf' = <<>> /\ w' = r'
      OBVIOUS
    <3>2. l = 0
      BY <1>4, <3>1
    <3>3. QED
      BY <1>2, <1>4, <1>12, <3>1, <3>2, EmptySeq
  <2>2. QED
    BY <1>1, <1>2, <1>3, <2>1 DEF Ends
<1>14. Collected'
  <2>1. base' + tot' = At' /\ tot' \in Nat
    <3>1. s + (t + l) = a + l /\ t + l \in Nat
      BY ONLY <1>4, s \in Nat, t \in Nat, a \in Nat
    <3>2. base' = s /\ tot' = t + l
      BY Zenon, <1>2, <1>4
    <3>3. QED
      BY Zenon, <1>5, <3>1, <3>2
  <2>2. \A j \in 1 .. Len(fbuf') : FALSE
    BY <1>2, <1>3, EmptySeq
  <2>3. QED
    BY Zenon, <1>1, <1>2, <1>3, <2>1, <2>2 DEF Collected
<1>15. Queue'
  <2>1. QueueAs(fl', marks, a + l, err, h)
    BY ONLY Zenon, <1>6, <1>7, c \in Nat DEF QueueAs
  <2>2. QED
    BY Zenon, <1>2, <1>4, <1>5, <2>1 DEF Queue
<1>16. Output'
  <2>1. ASSUME NEW j \in 1 .. l
        PROVE  ExactIn(hist, marks, base, outbuf'[j], a + j)
    <3>1. PICK q \in a + 1 .. a + l : q = a + j
      <4>1. l \in Nat
        BY <1>4
      <4>2. QED
        BY ONLY <4>1, a \in Nat, j \in 1 .. l
    <3>2. Passed(marks, c, a)
      BY <1>6 DEF QueueFor
    <3>3. outbuf'[j].byte = hist[q] /\ outbuf'[j].by = <<>>
      BY <1>12, <3>1
    <3>4. ExactIn(hist, marks, base, outbuf'[j], q)
      BY ONLY <1>4, <1>7, <3>2, <3>3, a \in Nat, q \in a + 1 .. a + l, PlainExact
    <3>5. QED
      BY <3>1, <3>4
  <2>2. Delivered' = t
    <3>1. Delivered' = tot' - Len(outbuf')
      BY DEF Delivered
    <3>2. tot' = t + l /\ Len(outbuf') = l /\ l \in Nat
      BY Zenon, <1>2, <1>4, <1>12
    <3>3. QED
      BY ONLY <3>1, <3>2, t \in Nat
  <2>3. \A j \in 1 .. l : base' + Delivered' + j = a + j
    BY <1>2, <1>4, <2>2
  <2>4. \A j \in 1 .. Len(outbuf') :
          ExactIn(hist', marks', base', outbuf'[j], base' + Delivered' + j)
    BY Zenon, <1>2, <1>12, <2>1, <2>3
  <2>5. \A j \in 1 .. Len(got'.data) : FALSE
    BY EmptySeq DEF Nothing
  <2>6. ~Running' /\ Len(outbuf') <= tot'
    <3>1. ~Running'
      BY DEF Running
    <3>2. l <= t + l
      BY ONLY <1>4, t \in Nat
    <3>3. QED
      BY Zenon, <1>2, <1>4, <1>12, <3>1, <3>2
  <2>7. QED
    BY Zenon, <1>12, <2>4, <2>5, <2>6 DEF Output
<1>17. QED
  BY Zenon, <1>8, <1>13, <1>14, <1>15, <1>16 DEF Whole

(* decode starts: the window has bytes, or is filled. *)
LEMMA DecodeStep ==
  ASSUME WindowInv, Whole, decode
  PROVE  Whole'
<1>1. Flow /\ Ends /\ Collected /\ Queue /\ Output
  BY DEF Whole
<1>2. pc = "decode" /\ UNCHANGED stream
  BY DEF decode
<1>3. Running /\ ~Collecting /\ Good /\ outbuf = <<>> /\ pc # "new" /\ pc # "fill"
  BY <1>1, <1>2 DEF Running, Collecting, Ends, Output
<1>4. CASE w = r /\ fill("decode2") /\ UNCHANGED <<win, fl, outbuf, tot, dec>>
  <2>1. UNCHANGED <<win, fl, outbuf, tot, stream>>
    BY <1>2, <1>4
  <2>2. PICK to \in {"decode2", "buf"} : to = "decode2"
    OBVIOUS
  <2>3. fill(to) /\ (Collecting <=> to = "buf") /\ (Collecting => Len(fbuf) < fl[1].length)
    BY <1>3, <1>4, <2>2
  <2>4. QED
    BY ONLY WindowInv, Whole, <1>3, <1>4, <2>1, <2>3, to \in {"decode2", "buf"}, FillStep
<1>5. CASE /\ w # r /\ pc' = "decode2" /\ got' = Nothing
           /\ UNCHANGED <<d, back, want, fbuf, ret>>
  <2>1. UNCHANGED <<d, stream, back, fbuf, ret>>
    BY <1>2, <1>5
  <2>2. pc' \in {"decode", "decode2", "serve"} /\ (pc' # "serve" => outbuf = <<>>)
    BY <1>3, <1>5
  <2>3. QED
    BY ONLY Whole, <1>3, <1>5, <2>1, <2>2, MoveStep
<1>6. QED
  BY <1>4, <1>5 DEF decode

(* decode goes on: bytes up to the first filter, or its block. *)
LEMMA Decode2Step ==
  ASSUME WindowInv, Whole, decode2
  PROVE  Whole'
<1>1. Flow /\ Ends /\ Collected /\ Queue /\ Output
  BY DEF Whole
<1>2. pc = "decode2" /\ UNCHANGED <<win, w, err, dec, back, stream>>
  BY DEF decode2
<1>3. /\ Running /\ ~Collecting /\ Good /\ outbuf = <<>> /\ fbuf = <<>>
      /\ pc # "new" /\ pc # "fill"
  BY <1>1, <1>2 DEF Running, Collecting, Ends, Output, Collected
<1>4. w \in Nat /\ r \in Nat /\ r <= w /\ w - r \in 0 .. w - r
  <2>1. w \in Nat /\ r \in Nat /\ r <= w
    BY ONLY <1>1, WindowInv, Numbers
  <2>2. QED
    BY <2>1
<1>5. PICK a \in Nat : a = At
  BY <1>1, <1>3, Place
<1>6. PICK c \in Nat : QueueFor(fl, marks, c, a)
  <2>1. QueueAs(fl, marks, a, err, Len(hist))
    BY Zenon, <1>1, <1>3, <1>5 DEF Queue
  <2>2. QED
    BY ONLY Zenon, <2>1 DEF QueueAs
<1>7. fl # <<>> => fl[1].offset \in Nat /\ fl[1].length \in Nat \ {0}
  BY ONLY <1>6, a \in Nat, FirstOffset
<1>8. CASE /\ fl = <<>> /\ Emit(w - r)
           /\ pc' = "serve" /\ got' = Nothing /\ UNCHANGED <<fl, want, fbuf, ret>>
  <2>1. UNCHANGED <<win, w, err, dec, back, stream, want, fbuf, ret>> /\ fl' = fl
    BY <1>2, <1>8
  <2>2. PICK l \in 0 .. w - r : l = w - r
    BY <1>4
  <2>3. Emit(l)
    BY Zenon, <1>8, <2>2
  <2>4. QED
    BY ONLY WindowInv, Whole, <1>2, <1>8, <2>1, <2>3, l \in 0 .. w - r, EmitStep
<1>9. CASE /\ fl # <<>> /\ fl[1].offset > 0
           /\ Emit(Smaller(fl[1].offset, w - r))
           /\ fl' = [fl EXCEPT ![1].offset = @ - Smaller(fl[1].offset, w - r)]
           /\ pc' = "serve" /\ got' = Nothing /\ UNCHANGED <<want, fbuf, ret>>
  <2>1. UNCHANGED <<win, w, err, dec, back, stream, want, fbuf, ret>>
    BY <1>2, <1>9
  <2>2. PICK l \in 0 .. w - r : l = Smaller(fl[1].offset, w - r)
    BY <1>4, <1>7, <1>9 DEF Smaller
  <2>3. l <= fl[1].offset
    BY <1>4, <1>7, <1>9, <2>2 DEF Smaller
  <2>4. Emit(l) /\ fl' = [fl EXCEPT ![1].offset = @ - l]
    BY Zenon, <1>9, <2>2
  <2>5. QED
    BY ONLY WindowInv, Whole, <1>2, <1>9, <2>1, <2>3, <2>4, l \in 0 .. w - r, EmitStep
<1>10. CASE /\ fl # <<>> /\ fl[1].offset = 0
            /\ pc' = "buf" /\ fbuf' = <<>> /\ got' = Nothing
            /\ UNCHANGED <<r, fl, outbuf, tot, want, ret>>
  <2>1. /\ win' = win /\ w' = w /\ r' = r /\ fl' = fl /\ outbuf' = outbuf /\ tot' = tot
        /\ err' = err /\ hist' = hist /\ base' = base /\ marks' = marks /\ (ended' <=> ended)
        /\ kept' = kept /\ back' = back /\ fbuf' = fbuf /\ ret' = ret
    BY <1>2, <1>3, <1>10 DEF stream
  <2>2. Good' /\ Collecting' /\ At' = At
    BY <1>3, <1>10, <2>1 DEF Good, Collecting, At
  <2>3. Flow'
    BY <1>1, <1>2, <1>10, <2>1 DEF Flow, size
  <2>4. Ends'
    BY <1>1, <1>3, <2>1, <2>2 DEF Ends
  <2>5. Collected'
    <3>1. Len(fbuf') <= fl'[1].length
      BY <1>7, <1>10, <2>1, EmptySeq
    <3>2. fl' # <<>> /\ fl'[1].offset = 0 /\ pc' # "fill"
      BY <1>10, <2>1
    <3>3. QED
      BY Zenon, <1>1, <1>3, <2>1, <2>2, <3>1, <3>2 DEF Collected
  <2>6. Queue'
    BY Zenon, <1>1, <1>3, <2>1, <2>2 DEF Queue
  <2>7. Output'
    <3>1. outbuf' = <<>> /\ outbuf' \in Seq(Byte) /\ Len(outbuf') = 0 /\ Len(got'.data) = 0
      BY <1>3, <1>10, <2>1, EmptySeq DEF Nothing
    <3>2. 0 <= tot'
      BY <1>1, <2>1 DEF Collected
    <3>3. QED
      BY <3>1, <3>2 DEF Output
  <2>8. QED
    BY Zenon, <2>3, <2>4, <2>5, <2>6, <2>7 DEF Whole
<1>11. ~(fl # <<>> /\ fl[1].offset < 0)
  BY <1>7
<1>12. QED
  BY Zenon, <1>8, <1>9, <1>10, <1>11 DEF decode2

(* A part of a block is collected: it is the part of the stream behind     *)
(* what there was of it.                                                   *)
LEMMA CollectStep ==
  ASSUME WindowInv, Whole, bufBytes
  PROVE  Whole'
<1>1. Flow /\ Ends /\ Collected /\ Queue /\ Output
  BY DEF Whole
<1>2. PICK l : /\ l = Smaller(fl[1].length - Len(fbuf), w - r) /\ l > 0
               /\ fbuf' = fbuf \o SubSeq(win, r + 1, r + l)
               /\ r' = r + l /\ got' = Nothing
               /\ UNCHANGED <<win, w, fl, outbuf, tot, err, dec, pc, back, want, ret>>
  BY DEF bufBytes
<1>3. /\ win' = win /\ w' = w /\ fl' = fl /\ outbuf' = outbuf /\ tot' = tot
      /\ err' = err /\ hist' = hist /\ base' = base /\ marks' = marks /\ (ended' <=> ended)
      /\ kept' = kept /\ pc' = pc /\ back' = back /\ ret' = ret
  BY <1>2 DEF bufBytes, stream
<1>4. pc = "buf" /\ Collecting /\ Collecting' /\ Good /\ Good' /\ outbuf = <<>> /\ pc # "fill"
  BY <1>1, <1>3 DEF bufBytes, Collecting, Ends, Good, Output, Running
<1>5. fl # <<>> /\ fl[1].offset = 0 /\ Len(fbuf) <= fl[1].length /\ fbuf \in Seq(Nat)
  BY <1>1, <1>4 DEF Collected
<1>6. PICK a \in Nat : a = At
  BY <1>1, <1>4, Place
<1>7. PICK m \in Nat : m = fl[1].length
  <2>1. PICK c \in Nat : QueueFor(fl, marks, c, a)
    <3>1. QueueAs(fl, marks, a, err, Len(hist))
      BY Zenon, <1>1, <1>4, <1>6 DEF Queue
    <3>2. QED
      BY ONLY Zenon, <3>1 DEF QueueAs
  <2>2. fl[1].length \in Nat \ {0}
    BY ONLY <1>5, <2>1, a \in Nat, FirstOffset
  <2>3. QED
    BY <2>2
<1>8. PICK n \in Nat, x \in Nat, y \in Nat, k \in Nat, h \in Nat, b \in Nat :
        /\ n = size /\ x = w /\ y = r /\ k = kept /\ h = Len(hist) /\ b = Len(fbuf)
        /\ y <= x /\ x <= n /\ x - y <= k
  BY ONLY <1>1, WindowInv, Numbers
<1>9. l \in Nat /\ l > 0 /\ l <= x - y /\ b + l <= m
  <2>1. l = Smaller(m - b, x - y) /\ l > 0
    BY ONLY Zenon, <1>2, <1>7, <1>8
  <2>2. b <= m
    BY ONLY <1>5, <1>7, <1>8
  <2>3. QED
    BY ONLY <1>8, <2>1, <2>2, m \in Nat, b \in Nat, x \in Nat, y \in Nat DEF Smaller
<1>10. a + b = h - (x - y)
  <2>1. a + b + (x - y) = h
    BY <1>1, <1>4, <1>6, <1>8, Place
  <2>2. QED
    BY <2>1
<1>11. PICK u : u = SubSeq(win, r + 1, r + l)
  OBVIOUS
<1>12. /\ u \in Seq(Nat) /\ Len(u) = l
       /\ \A j \in 1 .. l : u[j] = hist[Len(hist) - (w - r) + j]
  <2>1. l \in 0 .. w - r
    BY <1>8, <1>9
  <2>2. QED
    BY ONLY <1>1, <1>11, <2>1, WindowInv, WindowPart
<1>13. fbuf' = Cat(fbuf, u)
  BY Zenon, <1>2, <1>11 DEF Cat
<1>14. /\ fbuf' \in Seq(Nat) /\ Len(fbuf') = b + l
       /\ \A j \in 1 .. b : fbuf'[j] = fbuf[j]
       /\ \A j \in b + 1 .. b + l : fbuf'[j] = u[j - b]
  <2>1. /\ Cat(fbuf, u) \in Seq(Nat) /\ Len(Cat(fbuf, u)) = Len(fbuf) + Len(u)
        /\ \A j \in 1 .. Len(fbuf) : Cat(fbuf, u)[j] = fbuf[j]
        /\ \A j \in Len(fbuf) + 1 .. Len(fbuf) + Len(u) : Cat(fbuf, u)[j] = u[j - Len(fbuf)]
    <3>1. fbuf \in Seq(Nat) /\ u \in Seq(Nat)
      BY <1>5, <1>12
    <3>2. Cat(fbuf, u) \in Seq(Nat) /\ Len(Cat(fbuf, u)) = Len(fbuf) + Len(u)
      BY ONLY <3>1, CatType
    <3>3. \A j \in 1 .. Len(fbuf) : Cat(fbuf, u)[j] = fbuf[j]
      BY ONLY <3>1, CatType
    <3>4. \A j \in Len(fbuf) + 1 .. Len(fbuf) + Len(u) : Cat(fbuf, u)[j] = u[j - Len(fbuf)]
      BY ONLY <3>1, CatType
    <3>5. QED
      BY ONLY Zenon, <3>2, <3>3, <3>4
  <2>2. b = Len(fbuf) /\ l = Len(u)
    BY ONLY <1>8, <1>12
  <2>3. PICK g : g = fbuf'
    OBVIOUS
  <2>4. g = Cat(fbuf, u)
    BY Zenon, <1>13, <2>3
  <2>5. QED
    BY ONLY <2>1, <2>2, <2>3, <2>4
<1>15. At' = At
  <2>1. At' = h - (x - (y + l)) - (b + l)
    <3>1. At' = Len(hist') - (w' - r') - Len(fbuf')
      BY DEF At
    <3>2. QED
      BY Zenon, <1>2, <1>3, <1>8, <1>14, <3>1
  <2>2. h - (x - (y + l)) - (b + l) = a
    BY ONLY <1>9, <1>10, a \in Nat, b \in Nat, h \in Nat, x \in Nat, y \in Nat
  <2>3. QED
    BY ONLY Zenon, <1>6, <2>1, <2>2
<1>16. Flow'
  <2>1. r' = y + l /\ w' = x /\ kept' = k
    BY Zenon, <1>2, <1>3, <1>8
  <2>2. y + l \in 0 .. x /\ x - (y + l) <= k
    BY ONLY <1>8, <1>9, x \in Nat, y \in Nat, k \in Nat
  <2>3. r' \in 0 .. w' /\ w' - r' <= kept'
    BY ONLY Zenon, <2>1, <2>2
  <2>4. QED
    BY <1>1, <1>3, <1>4, <2>3 DEF Flow, size
<1>17. Ends'
  <2>1. w # r
    BY <1>8, <1>9
  <2>2. ret # "EOF"
    BY <1>1, <2>1 DEF Ends
  <2>3. QED
    BY <1>1, <1>3, <1>4, <2>2 DEF Ends
<1>18. Collected'
  <2>1. ASSUME NEW j \in 1 .. b + l
        PROVE  fbuf'[j] = hist[a + j]
    <3>1. CASE j <= b
      <4>1. j \in 1 .. b
        BY <3>1
      <4>2. \A i \in 1 .. Len(fbuf) : fbuf[i] = hist[At + i]
        BY <1>1, <1>4 DEF Collected
      <4>3. QED
        BY Zenon, <1>6, <1>8, <1>14, <4>1, <4>2
    <3>2. CASE j > b
      <4>1. PICK i \in 1 .. l : i = j - b /\ b + i = j
        BY <1>9, <3>2
      <4>2. Len(hist) - (w - r) + i = a + j
        BY <1>8, <1>10, <4>1
      <4>3. u[i] = hist[a + j]
        BY Zenon, <1>12, <4>2
      <4>4. j \in b + 1 .. b + l
        BY <3>2
      <4>5. QED
        BY Zenon, <1>14, <4>1, <4>3, <4>4
    <3>3. QED
      BY <1>9, <3>1, <3>2
  <2>2. \A j \in 1 .. Len(fbuf') : fbuf'[j] = hist'[At' + j]
    BY Zenon, <1>3, <1>6, <1>14, <1>15, <2>1
  <2>3. Len(fbuf') <= fl'[1].length
    BY <1>3, <1>7, <1>9, <1>14
  <2>4. fl' # <<>> /\ fl'[1].offset = 0 /\ pc' # "fill"
    BY <1>3, <1>4, <1>5
  <2>5. base' + tot' = At'
    BY Zenon, <1>1, <1>3, <1>4, <1>15 DEF Collected
  <2>6. fbuf' \in Seq(Nat) /\ base' \in Nat /\ tot' \in Nat
    BY <1>1, <1>3, <1>14 DEF Collected
  <2>7. QED
    BY Zenon, <1>4, <2>2, <2>3, <2>4, <2>5, <2>6 DEF Collected
<1>19. Queue'
  BY Zenon, <1>1, <1>3, <1>4, <1>15 DEF Queue
<1>20. Output'
  <2>1. outbuf' = <<>> /\ outbuf' \in Seq(Byte) /\ Len(outbuf') = 0 /\ Len(got'.data) = 0
    BY <1>2, <1>3, <1>4, EmptySeq DEF Nothing
  <2>2. 0 <= tot'
    BY <1>1, <1>3 DEF Collected
  <2>3. QED
    BY <2>1, <2>2 DEF Output
<1>21. QED
  BY Zenon, <1>16, <1>17, <1>18, <1>19, <1>20 DEF Whole

(* The block goes on behind the window. *)
LEMMA MoreStep ==
  ASSUME WindowInv, Whole, bufMore
  PROVE  Whole'
<1>1. Flow /\ Ends /\ Collected /\ Queue /\ Output
  BY DEF Whole
<1>2. /\ pc = "buf" /\ w = r /\ Len(fbuf) < fl[1].length /\ fill("buf")
      /\ UNCHANGED <<win, fl, outbuf, tot, stream>>
  BY DEF bufMore
<1>3. Running /\ Collecting /\ pc # "fill"
  BY <1>2 DEF Running, Collecting
<1>4. PICK to \in {"decode2", "buf"} : to = "buf"
  OBVIOUS
<1>5. fill(to) /\ (Collecting <=> to = "buf") /\ (Collecting => Len(fbuf) < fl[1].length)
  BY <1>2, <1>3, <1>4
<1>6. QED
  BY ONLY WindowInv, Whole, <1>2, <1>3, <1>5, to \in {"decode2", "buf"}, FillStep

\* k blocks behind the first c are one, at a and of length l
OneBlock(ms, c, k, a, l) == \A j \in 1 .. k : ms[c + j].start = a /\ ms[c + j].length = l

\* x has gone through k filters behind the first c, at p
Through(x, k, c, p) ==
  Len(x.by) = k /\ \A j \in 1 .. k : x.by[j].id = c + j /\ x.by[j].at = p

(* The bytes of a block have gone through the filters that are for it, and *)
(* no others: those are for blocks behind it or ahead of it.               *)
LEMMA FilteredExact ==
  ASSUME NEW c \in Nat, NEW a \in Nat, NEW l \in Nat, NEW k \in Nat,
         NEW g, NEW ms, NEW h, NEW b,
         QueueFor(g, ms, c + k, a + l), Passed(ms, c, a), OneBlock(ms, c, k, a, l),
         NEW q \in a + 1 .. a + l, NEW x, x.byte = h[q], Through(x, k, c, a - b)
  PROVE  ExactIn(h, ms, b, x, q)
<1>1. ms \in Seq(Mark) /\ Ahead(ms, c + k, a + l) /\ c + k + Len(g) <= Len(ms) /\ g \in Seq(Filter)
  BY DEF QueueFor
<1>2. PICK n \in Nat : n = Len(ms) /\ c + k <= n
  BY <1>1
<1>3. \A m \in 1 .. n : ms[m].start \in Nat /\ ms[m].length \in Nat
  <2>1. TAKE m \in 1 .. n
  <2>2. ms[m] \in Mark
    BY <1>1, <1>2
  <2>3. QED
    BY <2>2 DEF Mark
<1>4. q \in Nat /\ a < q /\ q <= a + l
  OBVIOUS
<1>5. ASSUME NEW j \in 1 .. k
      PROVE  /\ x.by[j].id \in 1 .. n /\ Holding(ms, x.by[j].id, q)
             /\ x.by[j].at = ms[x.by[j].id].start - b
             /\ \A i \in 1 .. j - 1 : x.by[i].id < x.by[j].id
  <2>1. PICK m \in 1 .. n : m = c + j
    BY <1>2
  <2>2. x.by[j].id = m /\ x.by[j].at = a - b /\ ms[m].start = a /\ ms[m].length = l
    BY Zenon, <2>1 DEF OneBlock, Through
  <2>3. Holding(ms, m, q)
    BY <1>4, <2>2 DEF Holding
  <2>4. ASSUME NEW i \in 1 .. j - 1
        PROVE  x.by[i].id < m
    <3>1. i \in 1 .. k /\ c + i < m
      BY <2>1
    <3>2. x.by[i].id = c + i
      BY Zenon, <3>1 DEF Through
    <3>3. QED
      BY ONLY <3>1, <3>2
  <2>5. QED
    BY Zenon, <2>2, <2>3, <2>4
<1>6. ASSUME NEW m \in 1 .. n, Holding(ms, m, q)
      PROVE  \E j \in 1 .. k : x.by[j].id = m
  <2>1. ms[m].start < q /\ q <= ms[m].start + ms[m].length
    BY <1>6 DEF Holding
  <2>2. ~(m <= c)
    <3>1. SUFFICES ASSUME m <= c
                   PROVE  FALSE
      OBVIOUS
    <3>2. ms[m].start + ms[m].length <= a
      BY <3>1 DEF Passed
    <3>3. QED
      BY <1>3, <1>4, <2>1, <3>2
  <2>3. ~(m > c + k)
    <3>1. SUFFICES ASSUME m > c + k
                   PROVE  FALSE
      OBVIOUS
    <3>2. m \in c + k + 1 .. Len(ms)
      BY <1>2, <3>1
    <3>3. ms[m].start >= a + l
      BY <1>1, <3>2 DEF Ahead
    <3>4. QED
      BY <1>3, <1>4, <2>1, <3>3
  <2>4. PICK j \in 1 .. k : c + j = m
    <3>1. m - c \in 1 .. k /\ c + (m - c) = m
      BY <2>2, <2>3
    <3>2. QED
      BY Zenon, <3>1
  <2>5. x.by[j].id = m
    BY Zenon, <2>4 DEF Through
  <2>6. QED
    BY Zenon, <2>5
<1>7. QED
  BY Zenon, <1>2, <1>5, <1>6 DEF ExactIn, Through

(* A block is complete: its filters go over it, and it is the next output. *)
LEMMA BlockStep ==
  ASSUME WindowInv, Whole, processFilters
  PROVE  Whole'
<1>1. Flow /\ Ends /\ Collected /\ Queue /\ Output
  BY DEF Whole
<1>2. /\ pc = "buf" /\ Len(fbuf) = fl[1].length
      /\ UNCHANGED <<win, w, r, err, dec, back, stream>>
  BY DEF processFilters
<1>3. Collecting /\ Good /\ outbuf = <<>> /\ pc # "fill"
  BY <1>1, <1>2 DEF Collecting, Ends, Output, Running
<1>4. fl # <<>> /\ fl[1].offset = 0 /\ fbuf \in Seq(Nat)
  BY <1>1, <1>3 DEF Collected
<1>5. PICK a \in Nat, b \in Nat, h \in Nat : a = At /\ b = Len(fbuf) /\ h = Len(hist)
  BY <1>1, <1>3, Place DEF Collected, WindowInv
<1>6. a + b + (w - r) = h /\ w - r \in Nat
  BY ONLY <1>1, <1>3, <1>5, WindowInv, Place
<1>7. PICK c \in Nat :
        /\ QueueFor(fl, marks, c, a)
        /\ err # "ErrTooManyFilters" => c + Len(fl) = Len(marks)
        /\ err = "ErrTooManyFilters" => /\ c + Len(fl) + 1 = Len(marks)
                                        /\ marks[Len(marks)].start >= h
  <2>1. QueueAs(fl, marks, a, err, h)
    BY Zenon, <1>1, <1>3, <1>5 DEF Queue
  <2>2. QED
    BY ONLY Zenon, <2>1 DEF QueueAs
<1>8. /\ fl \in Seq(Filter) /\ marks \in Seq(Mark) /\ c + Len(fl) <= Len(marks)
      /\ Passed(marks, c, a) /\ Linked(fl, marks, c, a)
  BY <1>7 DEF QueueFor
<1>9. PICK e \in Nat, n \in Nat : e = Len(fl) /\ n = Len(marks)
  BY <1>8
<1>10. PICK k : k = SameBlock /\ FirstBlock(fl, k)
  BY <1>4, <1>8, SameBlockIs
<1>11. k \in 1 .. e /\ k \in Nat
  BY <1>9, <1>10 DEF FirstBlock
<1>12. b > 0
  BY <1>2, <1>4, <1>5, <1>7, FirstOffset
<1>13. \A j \in 1 .. k : /\ marks[c + j].start = a /\ marks[c + j] = marks[c + 1]
                         /\ fl[j].length = fl[1].length
  BY ONLY <1>4, <1>7, <1>10, a \in Nat, BlocksSame
<1>14. \A j \in 1 .. k : /\ marks[c + j].start = a /\ marks[c + j].length = b
                         /\ fl[j].id = c + j
  <2>1. TAKE j \in 1 .. k
  <2>2. j \in 1 .. e
    BY <1>11
  <2>3. fl[j].length = marks[c + j].length /\ fl[j].id = c + j
    BY <1>8, <1>9, <2>2 DEF Linked
  <2>4. QED
    BY ONLY Zenon, <1>2, <1>5, <1>13, <2>3, j \in 1 .. k
<1>15. /\ outbuf' = [p \in 1 .. b |->
             [byte |-> fbuf[p], by |-> [j \in 1 .. k |-> [id |-> fl[j].id, at |-> tot]]]]
       /\ fl' = NextFilter(k) /\ tot' = tot + b
       /\ pc' = "serve" /\ fbuf' = <<>> /\ got' = Nothing /\ UNCHANGED <<want, ret>>
  <2>1. ~(\E j \in 2 .. SameBlock : fl[j].length # Len(fbuf))
    <3>1. \A j \in 2 .. k : j \in 1 .. k
      BY <1>11
    <3>2. QED
      BY ONLY Zenon, <1>2, <1>10, <1>13, <3>1
  <2>2. /\ outbuf' = [p \in 1 .. Len(fbuf) |->
             [byte |-> fbuf[p],
              by |-> [j \in 1 .. SameBlock |-> [id |-> fl[j].id, at |-> tot]]]]
        /\ fl' = NextFilter(SameBlock)
        /\ tot' = tot + Len(fbuf)
        /\ pc' = "serve" /\ fbuf' = <<>> /\ got' = Nothing
        /\ UNCHANGED <<want, ret>>
    BY Zenon, <2>1 DEF processFilters
  <2>3. QED
    BY Zenon, <1>5, <1>10, <2>2
<1>16. /\ win' = win /\ w' = w /\ r' = r /\ err' = err /\ hist' = hist /\ base' = base
       /\ marks' = marks /\ (ended' <=> ended) /\ kept' = kept /\ back' = back /\ ret' = ret
  BY <1>2, <1>15 DEF stream
<1>17. Good' /\ ~Collecting'
  BY <1>3, <1>15, <1>16 DEF Good, Collecting
<1>18. QueueFor(fl', marks, c + k, a + b) /\ c + k + Len(fl') = c + Len(fl)
  <2>1. ASSUME NEW m \in c + Len(fl) + 1 .. Len(marks)
        PROVE  marks[m].start >= a + fl[1].length
    <3>1. err = "ErrTooManyFilters" /\ m = n /\ m \in 1 .. n
      BY <1>7, <1>9
    <3>2. marks[m] \in Mark
      BY <1>8, <1>9, <3>1
    <3>3. marks[m].start \in Nat
      BY <3>2 DEF Mark
    <3>4. marks[m].start >= h
      BY <1>7, <1>9, <3>1
    <3>5. h >= a + b
      BY ONLY <1>6, a \in Nat, b \in Nat, h \in Nat
    <3>6. marks[m].start >= a + b
      BY ONLY <3>3, <3>4, <3>5, a \in Nat, b \in Nat, h \in Nat
    <3>7. QED
      BY Zenon, <1>2, <1>5, <3>6
  <2>2. QueueFor(NextFilter(k), marks, c + k, a + fl[1].length)
    BY ONLY <1>4, <1>7, <1>10, <2>1, a \in Nat, Popped
  <2>3. Len(NextFilter(k)) = e - k
    <3>1. e - k \in Nat
      BY <1>9, <1>11
    <3>2. QED
      BY <1>9, <3>1 DEF NextFilter
  <2>4. Len(fl') = e - k
    BY Zenon, <1>15, <2>3
  <2>5. c + k + Len(fl') = c + Len(fl)
    BY ONLY <1>9, <1>11, <2>4, c \in Nat, e \in Nat
  <2>6. QED
    BY Zenon, <1>2, <1>5, <1>15, <2>2, <2>5
<1>19. At' = a + b
  <2>1. At' = Len(hist) - (w - r) - Len(fbuf')
    BY Zenon, <1>16 DEF At
  <2>2. Len(fbuf') = 0
    BY <1>15, EmptySeq
  <2>3. QED
    BY <1>5, <1>6, <2>1, <2>2
<1>20. PICK s \in Nat, t \in Nat : s = base /\ t = tot /\ s + t = a /\ a - s = t
  <2>1. base \in Nat /\ tot \in Nat /\ base + tot = At
    BY <1>1, <1>3 DEF Collected
  <2>2. QED
    BY <1>5, <2>1
<1>21. Flow'
  BY <1>1, <1>2, <1>15, <1>16 DEF Flow, size
<1>22. Ends'
  <2>1. ret # "EOF"
    BY <1>1, <1>5, <1>12, EmptySeq DEF Ends
  <2>2. QED
    BY <1>1, <1>16, <1>17, <2>1 DEF Ends
<1>23. Collected'
  <2>1. base' + tot' = At' /\ tot' \in Nat
    BY <1>15, <1>16, <1>19, <1>20
  <2>2. (\A j \in 1 .. Len(fbuf') : FALSE) /\ fbuf' \in Seq(Nat)
    BY <1>15, EmptySeq
  <2>3. QED
    BY Zenon, <1>1, <1>15, <1>16, <1>17, <2>1, <2>2 DEF Collected
<1>24. Queue'
  <2>1. PICK cc \in Nat : cc = c + k
    BY <1>11
  <2>2. QueueAs(fl', marks, a + b, err, h)
    <3>1. QueueFor(fl', marks, cc, a + b) /\ cc + Len(fl') = c + Len(fl)
      BY Zenon, <1>18, <2>1
    <3>2. err = "ErrTooManyFilters" => cc + Len(fl') + 1 = Len(marks)
      BY Zenon, <1>7, <3>1
    <3>3. QED
      BY ONLY Zenon, <1>7, <3>1, <3>2, cc \in Nat DEF QueueAs
  <2>3. QED
    BY Zenon, <1>5, <1>16, <1>19, <2>2 DEF Queue
<1>25. PICK by : by = [j \in 1 .. k |-> [id |-> fl[j].id, at |-> tot]]
  OBVIOUS
<1>26. /\ by \in Seq([id : Nat, at : Int]) /\ Len(by) = k
       /\ \A j \in 1 .. k : by[j].id = c + j /\ by[j].at = a - s
  <2>1. ASSUME NEW j \in 1 .. k
        PROVE  /\ by[j] \in [id : Nat, at : Int]
               /\ by[j].id = c + j /\ by[j].at = a - s
    <3>1. by[j] = [id |-> fl[j].id, at |-> tot]
      BY <1>25
    <3>2. fl[j].id = c + j /\ tot = a - s
      BY <1>14, <1>20
    <3>3. c + j \in Nat /\ tot \in Int
      BY <1>11, <1>20
    <3>4. QED
      BY ONLY <3>1, <3>2, <3>3
  <2>2. by \in [1 .. k -> [id : Nat, at : Int]]
    BY <1>25, <2>1
  <2>3. by \in Seq([id : Nat, at : Int]) /\ Len(by) = k
    BY ONLY <1>11, <1>25, <2>2
  <2>4. QED
    BY <2>1, <2>3
<1>27. /\ outbuf' \in Seq(Byte) /\ Len(outbuf') = b
       /\ \A j \in 1 .. b : outbuf'[j].byte = hist[a + j] /\ outbuf'[j].by = by
  <2>1. outbuf' = [p \in 1 .. b |-> [byte |-> fbuf[p], by |-> by]]
    BY Zenon, <1>15, <1>25
  <2>2. \A j \in 1 .. b : fbuf[j] \in Nat
    BY <1>4, <1>5
  <2>3. \A j \in 1 .. b : fbuf[j] = hist[a + j]
    BY Zenon, <1>1, <1>3, <1>5 DEF Collected
  <2>4. \A j \in 1 .. b : [byte |-> fbuf[j], by |-> by] \in Byte
    BY <1>26, <2>2 DEF Byte
  <2>5. outbuf' \in [1 .. b -> Byte]
    BY <2>1, <2>4
  <2>6. outbuf' \in Seq(Byte) /\ Len(outbuf') = b
    BY ONLY <2>1, <2>5, b \in Nat
  <2>7. ASSUME NEW j \in 1 .. b
        PROVE  outbuf'[j].byte = hist[a + j] /\ outbuf'[j].by = by
    <3>1. outbuf'[j] = [byte |-> fbuf[j], by |-> by]
      BY <2>1
    <3>2. QED
      BY <2>3, <3>1
  <2>8. QED
    BY <2>6, <2>7
<1>28. Output'
  <2>1. ASSUME NEW j \in 1 .. b
        PROVE  ExactIn(hist, marks, s, outbuf'[j], a + j)
    <3>1. PICK q \in a + 1 .. a + b : q = a + j
      OBVIOUS
    <3>2. PICK x : x = outbuf'[j]
      OBVIOUS
    <3>3. x.byte = hist[q] /\ x.by = by
      BY <1>27, <3>1, <3>2
    <3>4. Through(x, k, c, a - s)
      BY Zenon, <1>26, <3>3 DEF Through
    <3>5. OneBlock(marks, c, k, a, b)
      BY Zenon, <1>14 DEF OneBlock
    <3>6. ExactIn(hist, marks, s, x, q)
      BY ONLY <1>8, <1>11, <1>18, <3>3, <3>4, <3>5, c \in Nat, a \in Nat, b \in Nat,
              q \in a + 1 .. a + b, FilteredExact
    <3>7. QED
      BY Zenon, <3>1, <3>2, <3>6
  <2>2. Delivered' = t
    BY <1>15, <1>20, <1>27 DEF Delivered
  <2>3. \A j \in 1 .. b : base' + Delivered' + j = a + j
    BY <1>16, <1>20, <2>2
  <2>4. \A j \in 1 .. Len(outbuf') :
          ExactIn(hist', marks', base', outbuf'[j], base' + Delivered' + j)
    BY Zenon, <1>16, <1>20, <1>27, <2>1, <2>3
  <2>5. \A j \in 1 .. Len(got'.data) : FALSE
    BY <1>15, EmptySeq DEF Nothing
  <2>6. ~Running' /\ Len(outbuf') <= tot'
    BY <1>15, <1>20, <1>27 DEF Running
  <2>7. QED
    BY Zenon, <1>27, <2>4, <2>5, <2>6 DEF Output
<1>29. QED
  BY Zenon, <1>21, <1>22, <1>23, <1>24, <1>28 DEF Whole

(* The caller gets the first k bytes of outbuf. *)
LEMMA DeliverStep ==
  ASSUME Whole, Good, pc \in {"idle", "serve"}, NEW k \in 0 .. Len(outbuf), Deliver(k),
         pc' \in {"idle", "decode"}, pc' = "decode" => k = Len(outbuf), fbuf' = fbuf
  PROVE  Whole'
<1>1. Flow /\ Ends /\ Collected /\ Queue /\ Output
  BY DEF Whole
<1>2. /\ win' = win /\ w' = w /\ r' = r /\ fl' = fl /\ tot' = tot
      /\ err' = err /\ hist' = hist /\ base' = base /\ marks' = marks /\ (ended' <=> ended)
      /\ kept' = kept /\ back' = back /\ fbuf' = fbuf /\ ret' = ret
      /\ got' = [at |-> Delivered, data |-> SubSeq(outbuf, 1, k)]
      /\ outbuf' = SubSeq(outbuf, k + 1, Len(outbuf))
  BY DEF Deliver, stream
<1>3. Good' /\ ~Collecting /\ ~Collecting' /\ At' = At
  BY <1>2 DEF Good, Collecting, At
<1>4. PICK e \in Nat, s \in Nat, t \in Nat :
        e = Len(outbuf) /\ s = base /\ t = tot /\ e <= t /\ k \in Nat /\ k <= e
  BY <1>1 DEF Output, Collected
<1>5. outbuf \in Seq(Byte)
  BY <1>1 DEF Output
<1>6. PICK x : x = got'.data
  OBVIOUS
<1>7. x = Part(outbuf, 1, k) /\ outbuf' = Part(outbuf, k + 1, e)
  BY <1>2, <1>4, <1>6 DEF Part
<1>8. Len(x) = k /\ \A j \in 1 .. k : x[j] = outbuf[j]
  <2>1. 1 \in 1 .. Len(outbuf) + 1 /\ k \in 0 .. Len(outbuf) /\ 1 <= k + 1
    BY <1>4
  <2>2. Len(x) = k - 1 + 1 /\ \A j \in 1 .. k - 1 + 1 : x[j] = outbuf[1 + j - 1]
    BY ONLY <1>5, <1>7, <2>1, PartType
  <2>3. \A j \in 1 .. k : x[j] = outbuf[1 + j - 1] /\ 1 + j - 1 = j
    BY <1>4, <2>2
  <2>4. QED
    BY <1>4, <2>2, <2>3
<1>9. /\ outbuf' \in Seq(Byte) /\ Len(outbuf') = e - k
      /\ \A j \in 1 .. e - k : outbuf'[j] = outbuf[k + j]
  <2>1. k + 1 \in 1 .. Len(outbuf) + 1 /\ e \in 0 .. Len(outbuf) /\ k + 1 <= e + 1
    BY <1>4
  <2>2. PICK g, i : g = Part(outbuf, i, e) /\ i = k + 1
    OBVIOUS
  <2>3. /\ g \in Seq(Byte) /\ Len(g) = e - i + 1
        /\ \A j \in 1 .. e - i + 1 : g[j] = outbuf[i + j - 1]
    BY ONLY <1>5, <2>1, <2>2, PartType
  <2>4. e - i + 1 = e - k /\ \A j \in 1 .. e - k : i + j - 1 = k + j
    BY <1>4, <2>2
  <2>5. outbuf' = g
    BY Zenon, <1>7, <2>2
  <2>6. QED
    BY Zenon, <2>3, <2>4, <2>5
<1>10. Flow'
  BY <1>1, <1>2 DEF Flow, size
<1>11. Ends'
  <2>1. outbuf = <<>> => outbuf' = <<>>
    BY <1>4, <1>9, EmptySeq
  <2>2. QED
    BY <1>1, <1>2, <1>3, <2>1 DEF Ends
<1>12. Collected'
  BY Zenon, <1>1, <1>2, <1>3 DEF Collected
<1>13. Queue'
  BY Zenon, <1>1, <1>2, <1>3 DEF Queue
<1>14. Output'
  <2>1. PICK v \in Nat : v = Delivered /\ v = t - e
    BY <1>4 DEF Delivered
  <2>2. Delivered' = v + k
    <3>1. Delivered' = tot' - Len(outbuf')
      BY DEF Delivered
    <3>2. t - (e - k) = v + k
      BY ONLY <1>4, <2>1, e \in Nat, t \in Nat, v \in Nat
    <3>3. QED
      BY Zenon, <1>2, <1>4, <1>9, <3>1, <3>2
  <2>3. \A j \in 1 .. e : ExactIn(hist, marks, s, outbuf[j], s + v + j)
    BY Zenon, <1>1, <1>4, <2>1 DEF Output
  <2>4. ASSUME NEW j \in 1 .. Len(outbuf')
        PROVE  ExactIn(hist', marks', base', outbuf'[j], base' + Delivered' + j)
    <3>1. j \in 1 .. e - k
      BY Zenon, <1>9
    <3>2. PICK i \in 1 .. e : i = k + j
      BY <1>4, <3>1
    <3>3. outbuf'[j] = outbuf[i] /\ ExactIn(hist, marks, s, outbuf[i], s + v + i)
      BY Zenon, <1>9, <2>3, <3>1, <3>2
    <3>4. base' + Delivered' + j = s + v + i
      <4>1. s + (v + k) + j = s + v + (k + j)
        BY ONLY <1>4, <3>1, s \in Nat, v \in Nat, e \in Nat
      <4>2. QED
        BY Zenon, <1>2, <1>4, <2>2, <3>2, <4>1
    <3>5. QED
      BY Zenon, <1>2, <1>4, <3>3, <3>4
  <2>5. ASSUME NEW j \in 1 .. Len(got'.data)
        PROVE  ExactIn(hist', marks', base', got'.data[j], base' + got'.at + j)
    <3>1. j \in 1 .. k
      BY Zenon, <1>6, <1>8
    <3>2. j \in 1 .. e
      BY <1>4, <3>1
    <3>3. got'.at = v
      BY <1>2, <2>1
    <3>4. got'.data[j] = outbuf[j]
      BY Zenon, <1>6, <1>8, <3>1
    <3>5. QED
      BY Zenon, <1>2, <1>4, <2>3, <3>2, <3>3, <3>4
  <2>6. Running' => outbuf' = <<>>
    BY <1>4, <1>9, EmptySeq DEF Running
  <2>7. Len(outbuf') <= tot'
    BY <1>2, <1>4, <1>9
  <2>8. QED
    BY Zenon, <1>9, <2>4, <2>5, <2>6, <2>7 DEF Output
<1>15. QED
  BY Zenon, <1>10, <1>11, <1>12, <1>13, <1>14 DEF Whole

LEMMA DemandIs ==
  ASSUME NEW n \in Int, NEW b \in BOOLEAN
  PROVE  [n |-> n, on |-> b] \in Demand
BY Zenon DEF Demand

(* The bytes that a call is to deliver are a number. *)
LEMMA WantIs ==
  ASSUME want \in Demand, Output, [Next]_vars
  PROVE  want' \in Demand
<1>1. \A e : Return(e) => want' \in Demand
  BY DEF Return, NoDemand, Demand
<1>2. \A to : fill(to) => want' \in Demand
  BY <1>1 DEF fill
<1>3. \A e, x : FillReturns(e, x) => want' \in Demand
  BY <1>1 DEF FillReturns
<1>4. CASE Decoder
  BY <1>3, <1>4
     DEF Decoder, writeByte, Match, queueFilter, Full, EndOfFile, DecoderFails, call
<1>5. CASE Call
  <2>1. CASE serve
    <3> DEFINE k == IF want.n < 0 THEN Len(outbuf) ELSE Smaller(want.n, Len(outbuf))
    <3>1. k \in Int /\ want.n \in Int /\ want.on \in BOOLEAN
      BY DEF Demand, Output, Smaller
    <3>2. want' = NoDemand \/ want' = [want EXCEPT !.n = IF @ < 0 THEN @ ELSE @ - k]
      BY <2>1 DEF serve
    <3> HIDE DEF k
    <3>3. CASE want' = [want EXCEPT !.n = IF @ < 0 THEN @ ELSE @ - k]
      <4> DEFINE m == IF want.n < 0 THEN want.n ELSE want.n - k
      <4>1. want' = [want EXCEPT !.n = m] /\ m \in Int
        BY <3>1, <3>3
      <4>2. want = [n |-> want.n, on |-> want.on]
        BY DEF Demand
      <4> HIDE DEF m
      <4>3. want' = [n |-> m, on |-> want.on]
        BY <4>1, <4>2
      <4>4. [n |-> m, on |-> want.on] \in Demand
        BY ONLY <3>1, <4>1, DemandIs
      <4>5. QED
        BY ONLY Zenon, <4>3, <4>4
    <3>4. NoDemand \in Demand
      <4>1. 0 \in Int /\ FALSE \in BOOLEAN
        OBVIOUS
      <4>2. QED
        BY Zenon, <4>1, DemandIs DEF NoDemand
    <3>5. QED
      BY ONLY Zenon, <3>2, <3>3, <3>4
  <2>2. CASE decode \/ decode2 \/ bufMore
    BY <1>1, <1>2, <2>2 DEF decode, decode2, bufMore
  <2>3. CASE bufBytes \/ processFilters
    BY <1>1, <2>3 DEF bufBytes, processFilters
  <2>4. QED
    BY <1>5, <2>1, <2>2, <2>3 DEF Call
<1>6. ASSUME NEW p \in Nat, Read(p)
      PROVE  want' \in Demand
  <2>1. want' = want \/ want' = [n |-> p, on |-> FALSE]
    BY <1>6 DEF Read
  <2>2. p \in Int /\ FALSE \in BOOLEAN
    OBVIOUS
  <2>3. QED
    BY Zenon, <2>1, <2>2, DemandIs
<1>7. ASSUME NEW p \in Int, writeToN(p)
      PROVE  want' \in Demand
  BY <1>7 DEF writeToN, Demand
<1>8. ASSUME NEW v, NEW sz, NEW reset, init(v, sz, reset)
      PROVE  want' \in Demand
  BY <1>8 DEF init
<1>9. CASE UNCHANGED vars
  BY <1>9 DEF vars, call
<1>10. ReadSizes \subseteq Nat
  BY SizeAssumption
<1>11. QED
  BY <1>4, <1>5, <1>6, <1>7, <1>8, <1>9, <1>10 DEF Next, ReadByte, WriteTo

(* Read, ReadByte, writeToN, and what they do when decode has returned. *)
LEMMA CallerSteps ==
  ASSUME Whole, want \in Demand,
         (\E p \in Nat \ {0} : Read(p)) \/ (\E p \in Int : writeToN(p)) \/ serve
  PROVE  Whole'
<1>1. Flow /\ Ends /\ Collected /\ Queue /\ Output
  BY DEF Whole
<1>2. Len(outbuf) \in Nat
  BY <1>1 DEF Output
<1>3. ASSUME NEW p \in Nat \ {0}, Read(p)
      PROVE  Whole'
  <2>1. pc = "idle" /\ Good /\ pc \in {"idle", "serve"} /\ pc # "new" /\ ~Collecting
    BY <1>3 DEF Read, Ready, Good, Collecting
  <2>2. CASE Deliver(Smaller(p, Len(outbuf))) /\ UNCHANGED <<pc, want, fbuf>>
    <3>1. PICK k \in 0 .. Len(outbuf) : k = Smaller(p, Len(outbuf))
      BY <1>2 DEF Smaller
    <3>2. Deliver(k)
      BY Zenon, <2>2, <3>1
    <3>3. pc' \in {"idle", "decode"} /\ (pc' = "decode" => k = Len(outbuf)) /\ fbuf' = fbuf
      BY <2>1, <2>2
    <3>4. QED
      BY ONLY Whole, <2>1, <3>2, <3>3, k \in 0 .. Len(outbuf), DeliverStep
  <2>3. CASE /\ outbuf = <<>> /\ pc' = "decode" /\ got' = Nothing
             /\ UNCHANGED <<d, stream, back, fbuf, ret>>
    <3>1. pc' \in {"decode", "decode2", "serve"} /\ (pc' # "serve" => outbuf = <<>>)
      BY <2>3
    <3>2. QED
      BY ONLY Whole, <2>1, <2>3, <3>1, MoveStep
  <2>4. QED
    BY <1>3, <2>2, <2>3 DEF Read
<1>4. ASSUME NEW p \in Int, writeToN(p)
      PROVE  Whole'
  <2>1. pc = "idle" /\ Good /\ pc # "new" /\ ~Collecting
    BY <1>4 DEF writeToN, Ready, Good, Collecting
  <2>2. pc' \in {"decode", "decode2", "serve"} /\ (pc' # "serve" => outbuf = <<>>)
    BY <1>4 DEF writeToN
  <2>3. got' = Nothing /\ UNCHANGED <<d, stream, back, fbuf, ret>>
    BY <1>4 DEF writeToN
  <2>4. QED
    BY ONLY Whole, <2>1, <2>2, <2>3, MoveStep
<1>5. CASE serve
  <2>1. pc = "serve" /\ Good /\ pc \in {"idle", "serve"} /\ fbuf' = fbuf
    BY <1>1, <1>5 DEF serve, Ends
  <2>2. PICK k : k = IF want.n < 0 THEN Len(outbuf) ELSE Smaller(want.n, Len(outbuf))
    OBVIOUS
  <2>3. /\ Deliver(k)
        /\ (pc' = "decode" /\ want.n # k) \/ pc' = "idle"
    BY Zenon, <1>5, <2>2 DEF serve
  <2>4. k \in 0 .. Len(outbuf) /\ (want.n # k => k = Len(outbuf))
    BY <1>2, <2>2 DEF Demand, Smaller
  <2>5. pc' \in {"idle", "decode"} /\ (pc' = "decode" => k = Len(outbuf))
    BY <2>3, <2>4
  <2>6. QED
    BY ONLY Whole, <2>1, <2>3, <2>4, <2>5, DeliverStep
<1>6. QED
  BY <1>3, <1>4, <1>5

(* A file that goes on with the window of the one before starts when that  *)
(* has been read to its end: no byte of it is left, and no filter either.  *)
LEMMA NothingLeft ==
  ASSUME WindowInv, Whole, ended, Delivered = Len(hist) - base
  PROVE  w = r /\ fl = <<>> /\ base \in Nat
<1>1. Flow /\ Ends /\ Collected /\ Queue /\ Output
  BY DEF Whole
<1>2. Good /\ err \in {"nil", "EOF"} /\ Passed(marks, Len(marks), Len(hist))
  BY <1>1 DEF Ends
<1>3. PICK a \in Nat, b \in Nat, x \in Nat, y \in Nat, h \in Nat, s \in Nat, t \in Nat, e \in Nat :
        /\ a = At /\ b = Len(fbuf) /\ x = w /\ y = r /\ h = Len(hist) /\ s = base /\ t = tot
        /\ e = Len(outbuf) /\ y <= x
  <2>1. w \in Nat /\ r \in Nat /\ Len(hist) \in Nat /\ Len(fbuf) \in Nat /\ r <= w
    BY ONLY <1>1, WindowInv, Numbers
  <2>2. At \in Nat
    BY ONLY <1>1, <1>2, WindowInv, Place
  <2>3. Len(outbuf) \in Nat /\ base \in Nat /\ tot \in Nat
    BY <1>1 DEF Output, Collected
  <2>4. QED
    BY <2>1, <2>2, <2>3
<1>4. a + b + (x - y) = h /\ s + t = a /\ t - e = h - s
  <2>1. At + Len(fbuf) + (w - r) = Len(hist)
    BY ONLY <1>1, <1>2, WindowInv, Place
  <2>2. base + tot = At
    BY <1>1, <1>2 DEF Collected
  <2>3. tot - Len(outbuf) = Len(hist) - base
    BY DEF Delivered
  <2>4. QED
    BY ONLY Zenon, <1>3, <2>1, <2>2, <2>3
<1>5. x = y /\ a = h
  BY ONLY <1>3, <1>4, a \in Nat, b \in Nat, x \in Nat, y \in Nat, h \in Nat,
          s \in Nat, t \in Nat, e \in Nat
<1>6. fl = <<>>
  <2>1. SUFFICES ASSUME fl # <<>>
                 PROVE  FALSE
    OBVIOUS
  <2>2. PICK c \in Nat : QueueFor(fl, marks, c, a)
    <3>1. QueueAs(fl, marks, a, err, Len(hist))
      BY Zenon, <1>1, <1>2, <1>3 DEF Queue
    <3>2. QED
      BY ONLY Zenon, <3>1 DEF QueueAs
  <2>3. PICK m \in 1 .. Len(marks) : m = c + 1
    BY ONLY <2>1, <2>2, a \in Nat, FirstOffset
  <2>4. marks \in Seq(Mark) /\ Ahead(marks, c, a)
    BY <2>2 DEF QueueFor
  <2>5. marks[m] \in Mark
    BY <2>4
  <2>6. marks[m].start \in Nat /\ marks[m].length \in Nat \ {0}
    BY <2>5 DEF Mark
  <2>7. marks[m].start + marks[m].length <= h
    BY <1>2, <1>3 DEF Passed
  <2>8. marks[m].start >= a
    <3>1. m \in c + 1 .. Len(marks)
      BY <2>3, <2>4
    <3>2. QED
      BY <2>4, <3>1 DEF Ahead
  <2>9. QED
    BY ONLY <1>5, <2>6, <2>7, <2>8, h \in Nat
<1>7. QED
  BY <1>3, <1>5, <1>6

(* A file is started. *)
LEMMA FileStep ==
  ASSUME WindowInv, Whole, arch \in Archives,
         NEW v, NEW sz \in arch.sizes, NEW reset \in BOOLEAN, init(v, sz, reset)
  PROVE  Whole'
<1>1. Flow /\ Ends /\ Collected /\ Queue /\ Output
  BY DEF Whole
<1>2. /\ pc \in {"new", "idle"}
      /\ pc = "idle" /\ arch.solid => ended /\ Delivered = Len(hist) - base
      /\ ~reset => arch.solid /\ pc = "idle"
      /\ outbuf' = <<>> /\ tot' = 0 /\ err' = "nil"
      /\ w' = InitWindow(sz, reset).w /\ r' = InitWindow(sz, reset).w
      /\ fl' = IF reset THEN <<>> ELSE fl
      /\ pc' = "idle" /\ got' = Nothing
      /\ hist' = IF reset THEN <<>> ELSE hist
      /\ base' = IF reset THEN 0 ELSE Len(hist)
      /\ marks' = <<>> /\ ended' = FALSE
      /\ back' = back /\ fbuf' = fbuf
  BY Zenon DEF init
<1>3. ret' \in {"nil", "ErrMultipleDecoders"}
  BY DEF init
<1>4. WindowInv' /\ size' > 0
  BY ONLY WindowInv, arch \in Archives, sz \in arch.sizes, reset \in BOOLEAN,
          init(v, sz, reset), InitStep
<1>5. fbuf = <<>>
  BY <1>1, <1>2 DEF Collected, Collecting
<1>6. PICK h \in Nat, x \in Nat, k \in Nat :
        h = Len(hist') /\ x = w' /\ x = r' /\ k = kept'
  <2>1. size' \in Nat /\ Len(hist') \in Nat /\ w' \in 0 .. size' /\ kept' \in 0 .. size'
    BY <1>4 DEF WindowInv, size
  <2>2. w' = r'
    BY Zenon, <1>2
  <2>3. QED
    BY <2>1, <2>2
<1>7. fl' = <<>> /\ base' = h
  <2>1. CASE reset
    BY <1>2, <1>6, <2>1, EmptySeq
  <2>2. CASE ~reset
    <3>1. ended /\ Delivered = Len(hist) - base
      BY Zenon, <1>2, <2>2
    <3>2. fl = <<>>
      BY ONLY <3>1, WindowInv, Whole, NothingLeft
    <3>3. QED
      BY Zenon, <1>2, <1>6, <2>2, <3>2
  <2>3. QED
    BY <2>1, <2>2
<1>8. At' = h
  <2>1. At' = Len(hist') - (w' - r') - Len(fbuf')
    BY DEF At
  <2>2. Len(fbuf') = 0
    BY <1>2, <1>5, EmptySeq
  <2>3. h - (x - x) - 0 = h
    OBVIOUS
  <2>4. QED
    BY Zenon, <1>6, <2>1, <2>2, <2>3
<1>9. Flow'
  <2>1. x \in 0 .. x /\ x - x <= k
    OBVIOUS
  <2>2. r' \in 0 .. w' /\ w' - r' <= kept'
    BY ONLY Zenon, <1>6, <2>1
  <2>3. QED
    BY <1>1, <1>2, <1>4, <2>2 DEF Flow
<1>10. Ends'
  BY <1>2, <1>3 DEF Ends
<1>11. Collected'
  <2>1. tot' = 0 /\ base' + tot' = At' /\ base' \in Nat /\ tot' \in Nat
    BY <1>2, <1>6, <1>7, <1>8
  <2>2. fbuf' = <<>> /\ fbuf' \in Seq(Nat) /\ \A j \in 1 .. Len(fbuf') : FALSE
    BY <1>2, <1>5, EmptySeq
  <2>3. ~Collecting'
    BY <1>2 DEF Collecting
  <2>4. QED
    BY Zenon, <2>1, <2>2, <2>3 DEF Collected
<1>12. Queue'
  <2>1. PICK e \in Nat : e = 0
    OBVIOUS
  <2>2. /\ <<>> \in Seq(Filter) /\ <<>> \in Seq(Mark)
        /\ e + Len(<<>>) <= Len(<<>>) /\ e + Len(<<>>) = Len(<<>>)
    BY <2>1, EmptySeq
  <2>3. Apart(<<>>) /\ Linked(<<>>, <<>>, e, h)
    BY EmptySeq DEF Apart, Linked
  <2>4. Passed(<<>>, e, h)
    BY <2>1 DEF Passed
  <2>5. Ahead(<<>>, e, h)
    <3>1. Len(<<>>) = 0
      BY EmptySeq
    <3>2. \A m \in e + 1 .. Len(<<>>) : FALSE
      BY <2>1, <3>1
    <3>3. QED
      BY Zenon, <3>2 DEF Ahead
  <2>6. QueueFor(<<>>, <<>>, e, h)
    BY ONLY Zenon, <2>2, <2>3, <2>4, <2>5, e \in Nat DEF QueueFor
  <2>7. err' # "ErrTooManyFilters"
    BY <1>2
  <2>8. QueueAs(<<>>, <<>>, h, err', Len(hist'))
    BY Zenon, <2>2, <2>6, <2>7 DEF QueueAs
  <2>9. QED
    BY Zenon, <1>2, <1>7, <1>8, <2>8 DEF Queue
<1>13. Output'
  <2>1. outbuf' = <<>> /\ outbuf' \in Seq(Byte) /\ Len(outbuf') = 0 /\ Len(got'.data) = 0
    BY <1>2, EmptySeq DEF Nothing
  <2>2. 0 <= tot'
    BY <1>2
  <2>3. QED
    BY <2>1, <2>2 DEF Output
<1>14. QED
  BY Zenon, <1>9, <1>10, <1>11, <1>12, <1>13 DEF Whole
-----------------------------------------------------------------------------
LEMMA OutputStarts == Init => OInv
<1> SUFFICES ASSUME Init
             PROVE  want \in Demand /\ Whole
  BY DEF OInv
<1>1. /\ win = <<>> /\ w = 0 /\ r = 0 /\ fl = <<>>
      /\ outbuf = <<>> /\ tot = 0 /\ err = "nil"
      /\ pc = "new" /\ back = "decode2" /\ want = NoDemand /\ fbuf = <<>>
      /\ hist = <<>> /\ base = 0 /\ marks = <<>> /\ ended = FALSE /\ kept = 0
      /\ got = Nothing /\ ret = "nil"
  BY DEF Init
<1>2. Len(<<>>) = 0 /\ <<>> \in Seq(Nat) /\ <<>> \in Seq(Byte)
  BY EmptySeq
<1>3. Flow
  BY <1>1 DEF Flow
<1>4. Ends
  BY <1>1 DEF Ends, Good
<1>5. At = 0
  <2>1. At = Len(<<>>) - (0 - 0) - Len(<<>>)
    BY Zenon, <1>1 DEF At
  <2>2. QED
    BY <1>2, <2>1
<1>6. Collected
  <2>1. ~Collecting /\ base + tot = At
    BY <1>1, <1>5 DEF Collecting
  <2>2. \A j \in 1 .. Len(fbuf) : FALSE
    BY <1>1, <1>2
  <2>3. QED
    BY <1>1, <1>2, <2>1, <2>2 DEF Collected
<1>7. Queue
  <2>1. <<>> \in Seq(Filter) /\ <<>> \in Seq(Mark) /\ 0 + Len(<<>>) <= Len(<<>>)
        /\ 0 + Len(<<>>) = Len(<<>>)
    BY EmptySeq
  <2>2. Apart(<<>>) /\ Linked(<<>>, <<>>, 0, 0)
    BY EmptySeq DEF Apart, Linked
  <2>3. Passed(<<>>, 0, 0)
    BY DEF Passed
  <2>4. Ahead(<<>>, 0, 0)
    <3>1. \A m \in 0 + 1 .. Len(<<>>) : FALSE
      BY EmptySeq
    <3>2. QED
      BY Zenon, <3>1 DEF Ahead
  <2>5. 0 \in Nat
    OBVIOUS
  <2>6. QueueFor(<<>>, <<>>, 0, 0)
    BY ONLY Zenon, <2>1, <2>2, <2>3, <2>4, <2>5 DEF QueueFor
  <2>7. err # "ErrTooManyFilters"
    BY <1>1
  <2>8. QueueAs(<<>>, <<>>, 0, err, Len(hist))
    BY ONLY Zenon, <2>1, <2>5, <2>6, <2>7 DEF QueueAs
  <2>9. QED
    BY Zenon, <1>1, <1>5, <2>8 DEF Queue
<1>8. Output
  <2>1. Len(got.data) = 0 /\ Len(outbuf) = 0 /\ outbuf \in Seq(Byte)
    BY <1>1, <1>2 DEF Nothing
  <2>2. QED
    BY <1>1, <2>1 DEF Output
<1>9. QED
  BY <1>1, <1>3, <1>4, <1>6, <1>7, <1>8 DEF Whole, Demand, NoDemand

(* A step keeps the invariant: it is of the decoder, of the running call,  *)
(* of a caller, or starts a file.                                          *)
LEMMA OutputStep ==
  IInv /\ IInv' /\ OInv /\ [Next]_vars => OInv'
<1> SUFFICES ASSUME IInv, IInv', OInv, [Next]_vars
             PROVE  OInv'
  OBVIOUS
<1>1. Ordinary /\ want \in Demand /\ Whole => want' \in Demand
  BY WantIs DEF Whole
<1>2. SUFFICES ASSUME Ordinary'
               PROVE  want' \in Demand /\ Whole'
  BY Zenon DEF OInv
<1>3. arch' = arch
  <2>1. Kept \/ Turned => arch' = arch
    BY DEF Kept, Turned
  <2>2. CASE Decoder
    BY <2>1, <2>2, DecoderKeeps DEF Decoder, writeByte, Match
  <2>3. CASE \/ Call \/ (\E p \in ReadSizes : Read(p)) \/ ReadByte
             \/ (\E p \in ReadSizes : writeToN(p)) \/ WriteTo
    BY ONLY <2>1, <2>3, CallsKeep
  <2>4. ASSUME NEW v, NEW sz, NEW reset, init(v, sz, reset)
        PROVE  arch' = arch
    BY <2>4 DEF init
  <2>5. CASE UNCHANGED vars
    BY <2>5 DEF vars, stream
  <2>6. QED
    BY <2>2, <2>3, <2>4, <2>5 DEF Next
<1>4. /\ Ordinary /\ WindowInv /\ WindowInv' /\ Whole /\ arch \in Archives
      /\ want \in Demand /\ want' \in Demand
  <2>1. Ordinary
    BY <1>2, <1>3 DEF Ordinary
  <2>2. "crossing" \notin arch.features
    BY <2>1 DEF Ordinary
  <2>3. QED
    BY Zenon, <1>1, <1>3, <2>1, <2>2 DEF IInv, OInv
<1>5. CASE writeByte
  <2>1. pc = "fill" /\ ~ended /\ got' = Nothing
        /\ UNCHANGED <<r, fl, outbuf, tot, err, base, marks, ended, call, ret>>
    BY <1>5 DEF writeByte, Decoding
  <2>2. Grown(1)
    BY ONLY <1>4, <1>5, ByteStep
  <2>3. 1 \in Nat
    OBVIOUS
  <2>4. QED
    BY ONLY <1>4, <2>1, <2>2, <2>3, GrowStep
<1>6. ASSUME NEW l \in 1 .. size, NEW o \in 1 .. size, Match(l, o)
      PROVE  Whole'
  <2>1. pc = "fill" /\ ~ended /\ got' = Nothing
        /\ UNCHANGED <<r, fl, outbuf, tot, err, base, marks, ended, call, ret>>
    BY <1>6 DEF Match, Decoding
  <2>2. "crossing" \notin arch.features
    BY <1>4 DEF Ordinary
  <2>3. Grown(l)
    BY ONLY <1>4, <1>6, <2>2, l \in 1 .. size, o \in 1 .. size, MatchStep
  <2>4. l \in Nat
    BY <1>4 DEF WindowInv, size
  <2>5. QED
    BY ONLY <1>4, <2>1, <2>3, <2>4, GrowStep
<1>7. ASSUME NEW o \in 0 .. size, NEW l \in 1 .. size - 1, queueFilter(o, l)
      PROVE  Whole'
  BY ONLY <1>4, <1>7, o \in 0 .. size, l \in 1 .. size - 1, QueueFilterStep
<1>8. CASE Full \/ EndOfFile \/ DecoderFails
  BY ONLY <1>4, <1>8, ReturningSteps
<1>9. CASE Call
  <2>1. CASE decode
    BY ONLY <1>4, <2>1, DecodeStep
  <2>2. CASE decode2
    BY ONLY <1>4, <2>2, Decode2Step
  <2>3. CASE bufBytes
    BY ONLY <1>4, <2>3, CollectStep
  <2>4. CASE bufMore
    BY ONLY <1>4, <2>4, MoreStep
  <2>5. CASE processFilters
    BY ONLY <1>4, <2>5, BlockStep
  <2>6. CASE serve
    BY ONLY <1>4, <2>6, CallerSteps
  <2>7. QED
    BY ONLY Zenon, <1>9, <2>1, <2>2, <2>3, <2>4, <2>5, <2>6 DEF Call
<1>10. CASE \/ (\E p \in ReadSizes : Read(p)) \/ ReadByte
            \/ (\E p \in ReadSizes : writeToN(p)) \/ WriteTo
  <2>1. (\E p \in Nat \ {0} : Read(p)) \/ (\E p \in Int : writeToN(p))
    <3>1. ReadSizes \subseteq Nat \ {0} /\ 1 \in Nat \ {0} /\ -1 \in Int
      BY SizeAssumption
    <3>2. ReadSizes \subseteq Int
      BY <3>1
    <3>3. QED
      BY ONLY Zenon, <1>10, <3>1, <3>2 DEF ReadByte, WriteTo
  <2>2. QED
    BY ONLY <1>4, <2>1, CallerSteps
<1>11. ASSUME NEW v, NEW sz \in arch.sizes, NEW reset \in BOOLEAN, init(v, sz, reset)
       PROVE  Whole'
  BY ONLY <1>4, <1>11, sz \in arch.sizes, reset \in BOOLEAN, FileStep
<1>12. CASE UNCHANGED vars
  <2>1. /\ win' = win /\ w' = w /\ r' = r /\ fl' = fl /\ outbuf' = outbuf /\ tot' = tot
        /\ err' = err /\ hist' = hist /\ base' = base /\ marks' = marks /\ (ended' <=> ended)
        /\ kept' = kept /\ pc' = pc /\ back' = back /\ fbuf' = fbuf /\ ret' = ret /\ got' = got
    BY <1>12 DEF vars, d, stream, call
  <2>2. /\ (Good' <=> Good) /\ (Collecting' <=> Collecting) /\ (Running' <=> Running)
        /\ At' = At /\ Delivered' = Delivered
    BY <2>1 DEF Good, Collecting, Running, At, Delivered
  <2>3. Flow /\ Ends /\ Collected /\ Queue /\ Output
    BY <1>4 DEF Whole
  <2>4. Flow' /\ Ends'
    BY <2>1, <2>2, <2>3 DEF Flow, Ends, size
  <2>5. Collected' /\ Queue' /\ Output'
    BY Zenon, <2>1, <2>2, <2>3 DEF Collected, Queue, Output
  <2>6. QED
    BY Zenon, <1>4, <2>4, <2>5 DEF Whole
<1>13. QED
  BY ONLY Zenon, <1>4, <1>5, <1>6, <1>7, <1>8, <1>9, <1>10, <1>11, <1>12, [Next]_vars
     DEF Next, Decoder

(* What decodeReader keeps of a file between its calls is in its place.    *)
THEOREM OutputInvariance == Spec => []OInv
BY OutputStarts, OutputStep, Invariance, PTL DEF Spec

(* What Read, ReadByte and WriteTo give to their callers are the bytes of  *)
(* the file, in order, each gone over by the filters of its block and by   *)
(* no others, for windows, blocks and reads of any size                    *)
(* (decode_reader.go:127 to :363).                                         *)
THEOREM OutputKept == Spec => []OutputExact
<1>1. OInv => OutputExact
  <2> SUFFICES ASSUME Ordinary, Whole
               PROVE  /\ ret # "ErrInvalidFilter"
                      /\ \A j \in 1 .. Len(got.data) : Exact(got.data[j], base + got.at + j)
    BY Zenon DEF OInv, OutputExact
  <2>1. ret # "ErrInvalidFilter"
    BY DEF Whole, Ends, Errors
  <2>2. \A m, q : Holding(marks, m, q) <=> Over(m, q)
    BY DEF Holding, Over
  <2>3. \A x, q : ExactIn(hist, marks, base, x, q) => Exact(x, q)
    BY Zenon, <2>2 DEF ExactIn, Exact
  <2>4. QED
    BY Zenon, <2>1, <2>3 DEF Whole, Output
<1>2. QED
  BY <1>1, OutputInvariance, PTL

(* EOF is not returned before the file has been delivered to its end, with *)
(* the block of its last filter (decode_reader.go:215, :293).              *)
THEOREM EndsComplete == Spec => []EOFComplete
<1>1. IInv /\ OInv => EOFComplete
  <2> SUFFICES ASSUME IInv, Ordinary, Whole, ret = "EOF"
               PROVE  ended /\ Delivered = Len(hist) - base
    BY Zenon DEF OInv, EOFComplete
  <2>1. WindowInv
    BY DEF IInv, Ordinary
  <2>2. Flow /\ Ends /\ Collected /\ Good
    BY DEF Whole, Good
  <2>3. ended /\ w = r /\ outbuf = <<>> /\ fbuf = <<>>
    BY <2>2 DEF Ends
  <2>4. At \in Nat /\ At + Len(fbuf) + (w - r) = Len(hist) /\ w - r \in Nat
    BY ONLY <2>1, <2>2, Place
  <2>5. PICK s \in Nat, t \in Nat, a \in Nat, h \in Nat :
          s = base /\ t = tot /\ a = At /\ h = Len(hist) /\ s + t = a
    <3>1. base \in Nat /\ tot \in Nat /\ base + tot = At
      BY <2>2 DEF Collected
    <3>2. Len(hist) \in Nat
      BY <2>1 DEF WindowInv
    <3>3. QED
      BY <2>4, <3>1, <3>2
  <2>6. Len(fbuf) = 0 /\ Len(outbuf) = 0
    BY <2>3, EmptySeq
  <2>7. w - r = 0
    BY <2>1, <2>3 DEF WindowInv, size
  <2>8. a + 0 + 0 = h
    BY Zenon, <2>4, <2>5, <2>6, <2>7
  <2>9. Delivered = t - 0
    BY Zenon, <2>5, <2>6 DEF Delivered
  <2>10. t - 0 = h - s
    BY ONLY <2>5, <2>8, s \in Nat, t \in Nat, a \in Nat, h \in Nat
  <2>11. QED
    BY Zenon, <2>3, <2>5, <2>9, <2>10
<1>2. QED
  BY <1>1, Invariance, OutputInvariance, PTL
=============================================================================
