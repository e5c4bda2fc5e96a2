------------------------ MODULE BufVolumeReaderProofs ------------------------
(***************************************************************************)
(* What holds of bufVolumeReader for every volume file, buffer size and    *)
(* signature, and whatever the caller asks for.                            *)
(*                                                                         *)
(* Neither TypeOK nor Coherent is inductive alone: that an index stays in  *)
(* the buffer follows from Coherent, and Coherent speaks of values TypeOK  *)
(* provides.  For the refinement, a fill can only be trusted to report EOF *)
(* at the end if no error of an earlier read is pending.                   *)
(***************************************************************************)
EXTENDS BufVolumeReader, TLAPS

(* Nothing is pending if the source returns no error along with bytes. *)
NothingPending == ~DataWithErr => br.err = "nil"

EOFTrusted == ~DataWithErr => (ret = "EOF" => br.off >= Len(file))

IInv == TypeOK /\ Coherent /\ NothingPending /\ EOFTrusted

(* A struct that is right for the current file, read up to p. *)
Good(b, p) == StructOK(b) /\ Agrees(b, file, p)
-----------------------------------------------------------------------------
(* The operators the calls are built from.                                 *)

(* The sizes are numbers. *)
LEMMA BufSizeNat == BufSize \in Nat /\ Len(SigPrefix) \in Nat
BY BufSizeAssumption

(* Least is one of its arguments and above neither. *)
LEMMA LeastBound ==
  ASSUME NEW a \in Int, NEW c \in Int
  PROVE  /\ Least(a, c) \in Int
         /\ Least(a, c) <= a /\ Least(a, c) <= c
         /\ Least(a, c) = a \/ Least(a, c) = c
BY DEF Least

(* Two sequences of bytes, one behind the other, are one. *)
LEMMA Concat ==
  ASSUME NEW x \in Seq(Nat), NEW y \in Seq(Nat)
  PROVE  x \o y \in Seq(Nat) /\ Len(x \o y) = Len(x) + Len(y)
OBVIOUS

(* Where an element of the two comes from. *)
LEMMA ConcatElement ==
  ASSUME NEW x \in Seq(Nat), NEW y \in Seq(Nat), NEW j \in Nat
  PROVE  /\ 1 <= j /\ j <= Len(x) => (x \o y)[j] = x[j]
         /\ Len(x) < j /\ j <= Len(x) + Len(y) => (x \o y)[j] = y[j - Len(x)]
OBVIOUS

(* An element of a sequence of bytes is a byte. *)
LEMMA Element ==
  ASSUME NEW x \in Seq(Nat), NEW j \in 1 .. Len(x)
  PROVE  x[j] \in Nat
OBVIOUS

(* The place of element j, one of the k that follow the first m. *)
LEMMA Behind ==
  ASSUME NEW o \in Nat, NEW m \in Nat, NEW k \in Nat, NEW j \in Nat,
         m < j, j <= m + k
  PROVE  /\ j - m \in 1 .. k /\ k > 0
         /\ (o + m) + (j - m) = o + j /\ o + j <= (o + m) + k
OBVIOUS

(* An upper bound carries over. *)
LEMMA Transitive ==
  ASSUME NEW a \in Int, NEW c \in Int, NEW e \in Int, a <= c, c <= e
  PROVE  a <= e
OBVIOUS

(* k elements of a sequence behind its first i ones. *)
LEMMA Piece ==
  ASSUME NEW x \in Seq(Nat), NEW i \in Nat, NEW k \in Nat, k > 0 => i + k <= Len(x)
  PROVE  /\ SubSeq(x, i + 1, i + k) \in Seq(Nat)
         /\ Len(SubSeq(x, i + 1, i + k)) = k
         /\ \A j \in 1 .. k : SubSeq(x, i + 1, i + k)[j] = x[i + j]
<1>1. CASE k = 0
  BY <1>1
<1>2. CASE k > 0
  BY <1>2
<1> QED BY <1>1, <1>2

(* What is left of a sequence behind its first i elements. *)
LEMMA Rest ==
  ASSUME NEW x \in Seq(Nat), NEW i \in Nat, i <= Len(x)
  PROVE  /\ SubSeq(x, i + 1, Len(x)) \in Seq(Nat)
         /\ Len(SubSeq(x, i + 1, Len(x))) = Len(x) - i
         /\ \A j \in 1 .. Len(x) - i : SubSeq(x, i + 1, Len(x))[j] = x[i + j]
<1>1. CASE i = Len(x)
  BY <1>1
<1>2. CASE i < Len(x)
  BY <1>2
<1> QED BY <1>1, <1>2

(* What a struct's fields are. *)
LEMMA Fields ==
  ASSUME NEW b, StructOK(b)
  PROVE  /\ b.buf \in Seq(Nat) /\ n(b) = Len(b.buf) /\ n(b) \in Nat
         /\ b.i \in Nat /\ b.off \in Nat /\ b.err \in SourceErrors
         /\ b.ver \in Nat /\ Unread(b) = n(b) - b.i /\ Unread(b) \in Nat
         /\ b.i <= n(b) /\ n(b) <= BufSize
BY BufSizeNat DEF StructOK, n, Unread

(* Moving inside the buffer, forwards or back, keeps the struct right: the *)
(* in-buffer seek and every read do only this.                             *)
LEMMA AdvanceGood ==
  ASSUME NEW b, NEW p, NEW k \in Int,
         Good(b, p), b.i + k \in 0 .. n(b)
  PROVE  /\ Good(Advance(b, k), p)
         /\ n(Advance(b, k)) = n(b) /\ Advance(b, k).off = b.off + k
         /\ Advance(b, k).i = b.i + k /\ Advance(b, k).buf = b.buf
         /\ Advance(b, k).err = b.err
<1>1. /\ Advance(b, k).i = b.i + k /\ Advance(b, k).off = b.off + k
      /\ Advance(b, k).buf = b.buf /\ n(Advance(b, k)) = n(b)
      /\ Advance(b, k).err = b.err
  BY DEF Advance, Good, StructOK, n
<1>2. /\ b.i \in Nat /\ n(b) \in Nat /\ b.off \in Nat /\ b.i <= b.off
      /\ n(b) <= BufSize /\ p = b.off + (n(b) - b.i)
  BY Fields DEF Good, Agrees, Unread
<1>3. b.i + k \in Nat /\ b.off + k \in Nat /\ b.i + k <= n(b)
      /\ b.i + k <= b.off + k /\ (b.off + k) - (b.i + k) = b.off - b.i
      /\ p = (b.off + k) + (n(b) - (b.i + k))
  BY <1>2
<1>4. StructOK(Advance(b, k))
  BY <1>1, <1>2, <1>3 DEF Good, StructOK, Advance
<1>5. Agrees(Advance(b, k), file, p)
  BY <1>1, <1>3 DEF Good, Agrees, Unread
<1> QED
  BY <1>1, <1>4, <1>5 DEF Good

(* Dropping the buffer leaves an empty one at the counted offset. *)
LEMMA DropGood ==
  ASSUME NEW b, NEW d \in Nat, StructOK(b)
  PROVE  /\ Good(Drop(b, d), b.off + d)
         /\ Drop(b, d).off = b.off + d /\ b.off + d \in Nat
         /\ Drop(b, d).i = 0 /\ n(Drop(b, d)) = 0 /\ Drop(b, d).err = b.err
<1>1. /\ Drop(b, d).i = 0 /\ Drop(b, d).buf = <<>> /\ n(Drop(b, d)) = 0
      /\ Drop(b, d).off = b.off + d /\ b.off \in Nat /\ Drop(b, d).err = b.err
  BY DEF Drop, StructOK, n
<1>2. StructOK(Drop(b, d))
  <2>1. <<>> \in Seq(Nat) /\ b.off + d \in Nat
    BY <1>1
  <2>2. Drop(b, d) \in [buf : Seq(Nat), i : Nat, off : Nat,
                        err : SourceErrors, ver : Nat]
    BY <2>1 DEF StructOK, Drop
  <2> QED BY <1>1, <2>2, BufSizeNat DEF StructOK
<1> QED
  BY <1>1, <1>2 DEF Good, Agrees, Unread

(* The bytes a call hands out are bytes. *)
LEMMA ChunkType ==
  ASSUME NEW b, StructOK(b), NEW k \in Nat, b.i + k <= n(b)
  PROVE  Chunk(b, k) \in [at : Nat, data : Seq(Nat)]
<1>1. b.i \in Nat /\ b.off \in Nat /\ b.buf \in Seq(Nat) /\ b.i + k <= Len(b.buf)
  BY Fields
<1>2. SubSeq(b.buf, b.i + 1, b.i + k) \in Seq(Nat)
  BY <1>1, Piece, Zenon
<1> QED
  BY <1>1, <1>2 DEF Chunk

(* The source has as many bytes left as the file behind its position. *)
LEMMA RemainingBound ==
  ASSUME TypeOK
  PROVE  /\ Remaining \in Nat /\ fpos \in Nat /\ Len(file) \in Nat
         /\ file \in Seq(Nat)
         /\ \A k \in Nat : k <= Remaining /\ k > 0 => fpos + k <= Len(file)
BY FilesAssumption DEF TypeOK, Remaining

(* Loading k bytes behind the ones that are there keeps the struct right:  *)
(* for fill, which starts with an empty buffer, and for findSig, which     *)
(* appends to a candidate it has moved to the front.                       *)
LEMMA LoadGood ==
  ASSUME TypeOK, NEW b, Good(b, fpos), b.i = 0,
         NEW k \in Nat, k <= Remaining, n(b) + k <= BufSize
  PROVE  /\ Good(Load(b, k), fpos + k)
         /\ Load(b, k).i = 0 /\ Load(b, k).off = b.off /\ n(Load(b, k)) = n(b) + k
         /\ Load(b, k).err = b.err
<1> DEFINE s == SubSeq(file, fpos + 1, fpos + k)
<1>1. /\ n(b) \in Nat /\ b.off \in Nat /\ b.buf \in Seq(Nat)
      /\ fpos = b.off + n(b) /\ n(b) = Len(b.buf)
  BY Fields DEF Good, Agrees, Unread
<1>2. /\ file \in Seq(Nat) /\ fpos \in Nat /\ Len(file) \in Nat
      /\ k > 0 => fpos + k <= Len(file)
  BY RemainingBound
<1>3. /\ s \in Seq(Nat) /\ Len(s) = k
      /\ \A j \in 1 .. k : s[j] = file[fpos + j]
  BY <1>2, Piece, Zenon
<1>4. /\ Load(b, k).buf = b.buf \o s /\ Load(b, k).i = 0
      /\ Load(b, k).off = b.off /\ Load(b, k).err = b.err
  BY DEF Load, Good, StructOK
<1> HIDE DEF s
<1>5. b.buf \o s \in Seq(Nat) /\ Len(b.buf \o s) = n(b) + k
  BY <1>1, <1>3, Concat
<1>6. StructOK(Load(b, k)) /\ n(Load(b, k)) = n(b) + k
  <2>1. n(Load(b, k)) = n(b) + k
    BY <1>4, <1>5 DEF n
  <2>2. Load(b, k) = [b EXCEPT !.buf = b.buf \o s]
    BY DEF Load, s
  <2>3. Load(b, k) \in [buf : Seq(Nat), i : Nat, off : Nat,
                        err : SourceErrors, ver : Nat]
    BY <2>2, <1>5 DEF Good, StructOK
  <2>4. Load(b, k).i <= n(Load(b, k))
    BY <2>1, <1>1, <1>4
  <2> QED BY <2>1, <2>3, <2>4 DEF StructOK
<1>7. ASSUME NEW j \in 1 .. n(b) + k
      PROVE  b.off + j <= Len(file) /\ (b.buf \o s)[j] = file[b.off + j]
  <2>0. j \in Nat /\ 1 <= j /\ j <= n(b) + k
    BY <1>1
  <2>1. CASE j <= n(b)
    <3>1. b.off + j <= Len(file) /\ b.buf[j] = file[b.off + j]
      BY <2>1, <1>1 DEF Good, Agrees
    <3>2. (b.buf \o s)[j] = b.buf[j]
      BY <2>0, <2>1, <1>1, <1>3, ConcatElement, Zenon
    <3> QED BY <3>1, <3>2
  <2>2. CASE ~(j <= n(b))
    <3>0. n(b) < j
      BY <2>0, <2>2, <1>1
    <3>1. /\ j - n(b) \in 1 .. k /\ fpos + (j - n(b)) = b.off + j /\ k > 0
          /\ b.off + j <= fpos + k
      <4>1. /\ j - n(b) \in 1 .. k /\ k > 0
            /\ (b.off + n(b)) + (j - n(b)) = b.off + j
            /\ b.off + j <= (b.off + n(b)) + k
        BY <2>0, <3>0, <1>1, Behind, Zenon
      <4> QED BY <4>1, <1>1, Zenon
    <3>2. (b.buf \o s)[j] = s[j - n(b)]
      <4>1. Len(b.buf) < j /\ j <= Len(b.buf) + Len(s) /\ s \in Seq(Nat)
        BY <2>0, <3>0, <1>1, <1>3
      <4>2. (b.buf \o s)[j] = s[j - Len(b.buf)]
        BY <4>1, <2>0, <1>1, ConcatElement, Zenon
      <4> QED BY <4>2, <1>1
    <3>3. s[j - n(b)] = file[b.off + j]
      BY <3>1, <1>3
    <3>4. b.off + j <= Len(file)
      <4>1. b.off + j \in Int /\ fpos + k \in Int /\ Len(file) \in Int
        BY <2>0, <1>1, <1>2
      <4> QED BY <4>1, <3>1, <1>2, Transitive, Zenon
    <3> QED BY <3>2, <3>3, <3>4
  <2> QED BY <2>1, <2>2
<1>8. Agrees(Load(b, k), file, fpos + k)
  <2>1. Load(b, k).off - Load(b, k).i = b.off /\ Unread(Load(b, k)) = n(b) + k
    BY <1>1, <1>4, <1>6 DEF Unread
  <2>2. fpos + k = b.off + (n(b) + k) /\ 0 <= b.off
    BY <1>1
  <2>3. \A j \in 1 .. n(Load(b, k)) :
           /\ Load(b, k).off - Load(b, k).i + j <= Len(file)
           /\ Load(b, k).buf[j] = file[Load(b, k).off - Load(b, k).i + j]
    BY <1>4, <1>6, <1>7, <2>1, Zenon
  <2> QED BY <2>1, <2>2, <2>3, <1>4, Zenon DEF Agrees
<1> QED BY <1>4, <1>6, <1>8 DEF Good

(* Moving the unread bytes to the front of the buffer keeps it right. *)
LEMMA CompactGood ==
  ASSUME TypeOK, NEW b, NEW p, Good(b, p)
  PROVE  /\ Good(Compact(b), p)
         /\ Compact(b).i = 0 /\ Compact(b).off = b.off /\ n(Compact(b)) = Unread(b)
         /\ Compact(b).err = b.err
<1> DEFINE s == SubSeq(b.buf, b.i + 1, n(b))
<1>1. /\ n(b) \in Nat /\ b.off \in Nat /\ b.buf \in Seq(Nat) /\ b.i \in Nat
      /\ p = b.off + Unread(b) /\ n(b) = Len(b.buf) /\ b.i <= n(b)
      /\ Unread(b) = n(b) - b.i /\ Unread(b) \in Nat /\ n(b) <= BufSize
  BY Fields DEF Good, Agrees
<1>2. /\ s \in Seq(Nat) /\ Len(s) = Unread(b)
      /\ \A j \in 1 .. Unread(b) : s[j] = b.buf[b.i + j]
  <2>1. b.buf \in Seq(Nat) /\ b.i \in Nat /\ b.i <= Len(b.buf)
    BY <1>1
  <2>2. n(b) = Len(b.buf) /\ Unread(b) = Len(b.buf) - b.i
    BY <1>1
  <2>3. /\ SubSeq(b.buf, b.i + 1, Len(b.buf)) \in Seq(Nat)
        /\ Len(SubSeq(b.buf, b.i + 1, Len(b.buf))) = Len(b.buf) - b.i
        /\ \A j \in 1 .. Len(b.buf) - b.i :
             SubSeq(b.buf, b.i + 1, Len(b.buf))[j] = b.buf[b.i + j]
    BY <2>1, Rest, Zenon
  <2>4. s = SubSeq(b.buf, b.i + 1, Len(b.buf))
    BY <2>2
  <2> HIDE DEF s
  <2> QED BY <2>2, <2>3, <2>4
<1>3. /\ Compact(b).buf = s /\ Compact(b).i = 0
      /\ Compact(b).off = b.off /\ Compact(b).err = b.err
  BY DEF Compact, Good, StructOK
<1>4. Compact(b) = [b EXCEPT !.buf = s, !.i = 0]
  BY DEF Compact
<1> HIDE DEF s
<1>5. n(Compact(b)) = Unread(b) /\ Unread(Compact(b)) = Unread(b)
  BY <1>1, <1>2, <1>3 DEF n, Unread
<1>6. StructOK(Compact(b))
  <2>1. Compact(b) \in [buf : Seq(Nat), i : Nat, off : Nat,
                        err : SourceErrors, ver : Nat]
    <3>1. 0 \in Nat /\ s \in Seq(Nat)
      BY <1>2
    <3> QED BY <3>1, <1>4 DEF Good, StructOK
  <2> QED BY <2>1, <1>1, <1>3, <1>5, BufSizeNat DEF StructOK
<1>7. ASSUME NEW j \in 1 .. Unread(b)
      PROVE  b.off + j <= Len(file) /\ s[j] = file[b.off + j]
  <2>1. b.i + j \in 1 .. n(b) /\ b.off - b.i + (b.i + j) = b.off + j
    <3>1. /\ j \in Nat /\ j >= 1 /\ j <= n(b) - b.i
          /\ b.i \in Nat /\ b.off \in Nat /\ n(b) \in Nat
      BY <1>1
    <3> QED BY <3>1
  <2>2. /\ b.off - b.i + (b.i + j) <= Len(file)
        /\ b.buf[b.i + j] = file[b.off - b.i + (b.i + j)]
    BY <2>1 DEF Good, Agrees
  <2> QED BY <2>1, <2>2, <1>2
<1>8. Agrees(Compact(b), file, p)
  <2>1. Compact(b).off - Compact(b).i = b.off /\ 0 <= b.off
    BY <1>1, <1>3
  <2>2. \A j \in 1 .. n(Compact(b)) :
           /\ Compact(b).off - Compact(b).i + j <= Len(file)
           /\ Compact(b).buf[j] = file[Compact(b).off - Compact(b).i + j]
    BY <1>3, <1>5, <1>7, <2>1, Zenon
  <2> QED BY <2>1, <2>2, <1>1, <1>3, <1>5, Zenon DEF Agrees
<1> QED BY <1>3, <1>5, <1>6, <1>8 DEF Good

(* The pending error is no part of what the struct says of the file. *)
LEMMA ErrGood ==
  ASSUME NEW b, NEW p, Good(b, p), NEW e \in SourceErrors
  PROVE  /\ Good([b EXCEPT !.err = e], p)
         /\ [b EXCEPT !.err = e].off = b.off /\ [b EXCEPT !.err = e].i = b.i
         /\ [b EXCEPT !.err = e].buf = b.buf /\ [b EXCEPT !.err = e].err = e
<1> DEFINE d == [b EXCEPT !.err = e]
<1>1. /\ d.off = b.off /\ d.i = b.i /\ d.buf = b.buf /\ d.err = e
      /\ n(d) = n(b) /\ Unread(d) = Unread(b)
  BY DEF Good, StructOK, n, Unread
<1>2. d \in [buf : Seq(Nat), i : Nat, off : Nat, err : SourceErrors, ver : Nat]
  BY DEF Good, StructOK
<1> HIDE DEF d
<1>3. StructOK(d)
  BY <1>1, <1>2 DEF Good, StructOK
<1>4. Agrees(d, file, p)
  BY <1>1 DEF Good, Agrees
<1> QED BY <1>1, <1>3, <1>4 DEF Good, d

(* What fill leaves behind, whichever way it ends.                         *)
LEMMA FillGood ==
  ASSUME IInv, Unread(br) = 0, NEW o \in FillOutcomes
  PROVE  /\ Good(o.br, o.pos) /\ o.pos \in Nat
         /\ o.ret \in SourceErrors
         /\ o.br.off = br.off
         /\ o.ret = "nil" => Unread(o.br) > 0
         /\ o.ret = "EOF" /\ br.err = "nil" => br.off >= Len(file)
         /\ ~DataWithErr /\ br.err = "nil" => o.br.err = "nil"
<1>1. Good(br, fpos) /\ fpos \in Nat /\ br.err \in SourceErrors
  BY DEF IInv, TypeOK, Coherent, Good, StructOK
<1>2. CASE br.err # "nil"
  <2>1. "nil" \in SourceErrors
    BY DEF SourceErrors
  <2>2. o = [br |-> [br EXCEPT !.err = "nil"], pos |-> fpos, ret |-> br.err]
    BY <1>2 DEF FillOutcomes
  <2>3. o.br = [br EXCEPT !.err = "nil"] /\ o.pos = fpos /\ o.ret = br.err
    BY <2>2
  <2> QED BY <1>1, <1>2, <2>1, <2>3, ErrGood
<1>3. CASE br.err = "nil"
  <2>1. PICK c \in SourceReads(BufSize) :
          o = [br  |-> [Load(Drop(br, 0), c.k) EXCEPT
                          !.err = IF c.k > 0 THEN c.err ELSE "nil"],
               pos |-> fpos + c.k,
               ret |-> IF c.k > 0 THEN "nil" ELSE c.err]
    BY <1>3 DEF FillOutcomes
  <2> DEFINE e == IF c.k > 0 THEN c.err ELSE "nil"
             l == Load(Drop(br, 0), c.k)
  <2>2. /\ o.br = [l EXCEPT !.err = e] /\ o.pos = fpos + c.k
        /\ o.ret = IF c.k > 0 THEN "nil" ELSE c.err
    BY <2>1
  <2>3. /\ c.k \in 0 .. Least(BufSize, Remaining) /\ c.err \in SourceErrors
        /\ c.err = "nil" => c.k > 0
        /\ c.err = "EOF" => fpos + c.k >= Len(file)
        /\ c.err # "nil" /\ c.k > 0 => DataWithErr
    BY DEF SourceReads
  <2>4. c.k \in Nat /\ c.k <= BufSize /\ c.k <= Remaining
    <3>1. Remaining \in Int /\ BufSize \in Int
      BY BufSizeNat, RemainingBound DEF IInv
    <3>2. /\ Least(BufSize, Remaining) <= BufSize
          /\ Least(BufSize, Remaining) <= Remaining
          /\ Least(BufSize, Remaining) \in Int
      BY <3>1, LeastBound
    <3> QED BY <2>3, <3>1, <3>2
  <2>5. e \in SourceErrors
    BY <2>3 DEF SourceErrors
  <2>6. fpos = br.off + 0 /\ br.off \in Nat
    BY <1>1, Fields DEF Good, Agrees
  <2>7. /\ Good(Drop(br, 0), fpos) /\ Drop(br, 0).off = br.off
        /\ Drop(br, 0).i = 0 /\ n(Drop(br, 0)) = 0 /\ 0 + c.k <= BufSize
    BY <1>1, <2>4, <2>6, DropGood DEF Good
  <2>8. /\ Good(l, fpos + c.k) /\ l.off = br.off /\ l.i = 0 /\ n(l) = c.k
    BY <2>4, <2>7, LoadGood DEF IInv
  <2> HIDE DEF e, l
  <2>9. /\ Good(o.br, fpos + c.k) /\ o.br.off = br.off /\ o.br.i = 0
        /\ o.br.buf = l.buf /\ o.br.err = e
    BY <2>2, <2>5, <2>8, ErrGood
  <2>10. Unread(o.br) = c.k
    BY <2>8, <2>9, <2>4 DEF Unread, n
  <2>11. o.ret \in SourceErrors /\ (o.ret = "nil" => c.k > 0)
    BY <2>2, <2>3 DEF SourceErrors
  <2>12. o.ret = "EOF" => br.off >= Len(file)
    BY <2>2, <2>3, <2>4, <2>6
  <2>13. ~DataWithErr => e = "nil"
    BY <2>3 DEF e
  <2> QED BY <1>1, <2>2, <2>4, <2>9, <2>10, <2>11, <2>12, <2>13
<1> QED BY <1>2, <1>3

(* What a read finds in the buffer. *)
LEMMA EnsureGood ==
  ASSUME IInv, NEW o \in EnsureBuffered
  PROVE  /\ Good(o.br, o.pos) /\ o.pos \in Nat
         /\ o.ret \in SourceErrors
         /\ o.br.off = br.off
         /\ o.ret = "nil" => Unread(o.br) > 0
         /\ ~DataWithErr => /\ o.ret = "EOF" => br.off >= Len(file)
                            /\ o.br.err = "nil"
<1>1. CASE Unread(br) = 0
  BY <1>1, FillGood DEF EnsureBuffered, IInv, NothingPending
<1>2. CASE Unread(br) # 0
  <2>1. o = [br |-> br, pos |-> fpos, ret |-> "nil"]
    BY <1>2 DEF EnsureBuffered
  <2>2. o.br = br /\ o.pos = fpos /\ o.ret = "nil"
    BY <2>1
  <2>3. Unread(br) \in Nat
    BY Fields DEF IInv, TypeOK
  <2> QED
    BY <1>2, <2>2, <2>3
    DEF IInv, TypeOK, Coherent, NothingPending, Good, SourceErrors
<1> QED BY <1>1, <1>2

(* The version found leaves the rest of the struct alone. *)
LEMMA VerGood ==
  ASSUME NEW b, NEW p, Good(b, p), NEW v \in Nat
  PROVE  /\ Good([b EXCEPT !.ver = v], p)
         /\ [b EXCEPT !.ver = v].err = b.err
<1> DEFINE d == [b EXCEPT !.ver = v]
<1>1. /\ d.off = b.off /\ d.i = b.i /\ d.buf = b.buf /\ d.err = b.err
      /\ n(d) = n(b) /\ Unread(d) = Unread(b)
  BY DEF Good, StructOK, n, Unread
<1>2. d \in [buf : Seq(Nat), i : Nat, off : Nat, err : SourceErrors, ver : Nat]
  BY DEF Good, StructOK
<1> HIDE DEF d
<1>3. StructOK(d)
  BY <1>1, <1>2 DEF Good, StructOK
<1>4. Agrees(d, file, p)
  BY <1>1 DEF Good, Agrees
<1> QED BY <1>1, <1>3, <1>4 DEF Good, d

(* Both lengths of a signature end inside the bytes that were looked at. *)
LEMMA Within ==
  ASSUME NEW a \in Nat, NEW l \in Nat, NEW m \in Nat, NEW k,
         k = l + 1 \/ k = l + 2, a + l + 2 <= m
  PROVE  k \in Int /\ a + k \in 0 .. m
OBVIOUS

(* The test of a candidate moves within the bytes that are there. *)
LEMMA CheckSigGood ==
  ASSUME NEW b, NEW p, Good(b, p), Unread(b) >= Len(SigPrefix) + 2, CheckSig(b)
  PROVE  Good(br', p) /\ br'.err = b.err /\ pc' \in {"idle", "scan"}
<1> DEFINE L == Len(SigPrefix)
           v == b.buf[b.i + L + 1]
           z == b.buf[b.i + L + 2]
<1>1. /\ b.i \in Nat /\ n(b) \in Nat /\ Unread(b) = n(b) - b.i
      /\ b.buf \in Seq(Nat) /\ Len(b.buf) = n(b)
  BY Fields DEF Good
<1>2. L \in Nat /\ L > 0
  BY BufSizeAssumption
<1>3. v \in Nat
  <2>1. b.i + L + 1 \in 1 .. Len(b.buf)
    BY <1>1, <1>2
  <2> QED BY <1>1, <2>1, Element, Zenon
<1>4. CASE PrefixAt(b) /\ (v = 0 \/ z = 0)
  <2> DEFINE k == L + (IF v = 0 THEN 1 ELSE 2)
  <2>1. br' = [Advance(b, k) EXCEPT !.ver = v] /\ pc' = "idle"
    BY <1>4 DEF CheckSig
  <2>2. k \in Int /\ b.i + k \in 0 .. n(b)
    <3>1. L \in Nat /\ b.i + L + 2 <= n(b)
      BY <1>1, <1>2
    <3>2. k = L + 1 \/ k = L + 2
      OBVIOUS
    <3> HIDE DEF k, L
    <3> QED BY <1>1, <3>1, <3>2, Within, Zenon
  <2> HIDE DEF k, v
  <2>3. Good(Advance(b, k), p) /\ Advance(b, k).err = b.err
    BY <2>2, AdvanceGood
  <2> QED BY <1>3, <2>1, <2>3, VerGood
<1>5. CASE ~(PrefixAt(b) /\ (v = 0 \/ z = 0))
  <2>1. br' = Advance(b, Skip(b)) /\ pc' = "scan"
    BY <1>5 DEF CheckSig
  <2>2. Skip(b) \in Int /\ b.i + Skip(b) \in 0 .. n(b)
    BY <1>1, <1>2 DEF Skip
  <2>3. Good(Advance(b, Skip(b)), p) /\ Advance(b, Skip(b)).err = b.err
    BY <2>2, AdvanceGood
  <2> QED BY <2>1, <2>3
<1> QED BY <1>4, <1>5
-----------------------------------------------------------------------------
(* The invariant and the steps.                                            *)

(* What a step that stays in the file owes the invariant. *)
LEMMA Preserved ==
  ASSUME IInv, file' = file, fpos' \in Nat, Good(br', fpos'),
         pc' \in {"scan", "idle", "write", "failed"}, todo' \in {-1} \cup Nat,
         got' \in [at : Nat, data : Seq(Nat)], ret' \in Errors,
         ~DataWithErr => /\ br'.err = "nil"
                         /\ ret' = "EOF" => br'.off >= Len(file)
  PROVE  IInv'
<1>1. StructOK(br')
  BY DEF Good
<1>2. TypeOK'
  BY <1>1 DEF IInv, TypeOK, StructOK, n
<1>3. Coherent'
  BY DEF Good, Coherent, Agrees, Unread, n
<1>4. NothingPending' /\ EOFTrusted'
  BY DEF NothingPending, EOFTrusted
<1> QED BY <1>2, <1>3, <1>4 DEF IInv

(* No bytes at all are a value of got. *)
LEMMA NothingType == Nothing \in [at : Nat, data : Seq(Nat)]
BY DEF Nothing

(* What the source returns, and nil, io and EOF, are errors of calls. *)
LEMMA ErrorsType == SourceErrors \subseteq Errors /\ "nil" \in Errors
                    /\ "io" \in Errors /\ "EOF" \in Errors
                    /\ "ErrInvalid" \in Errors /\ "ErrNoSig" \in Errors
BY DEF Errors, SourceErrors

(* Read and ReadByte keep the invariant. *)
LEMMA ReadStep ==
  ASSUME IInv, NEW p \in Nat, Read(p)
  PROVE  IInv'
<1>1. PICK o \in EnsureBuffered :
        /\ fpos' = o.pos
        /\ ret' = o.ret
        /\ \/ o.ret # "nil" /\ br' = o.br /\ got' = Nothing
           \/ /\ o.ret = "nil"
              /\ br' = Advance(o.br, Least(p, Unread(o.br)))
              /\ got' = Chunk(o.br, Least(p, Unread(o.br)))
  BY DEF Read
<1> DEFINE k == Least(p, Unread(o.br))
<1>2. /\ Good(o.br, o.pos) /\ o.pos \in Nat /\ o.ret \in SourceErrors
      /\ o.br.off = br.off
      /\ ~DataWithErr => (o.ret = "EOF" => br.off >= Len(file)) /\ o.br.err = "nil"
  BY EnsureGood
<1>3. /\ file' = file /\ pc' \in {"scan", "idle", "write", "failed"}
      /\ todo' \in {-1} \cup Nat /\ ret' \in Errors /\ fpos' \in Nat
  BY <1>1, <1>2, ErrorsType DEF Read, IInv, TypeOK
<1>4. CASE o.ret # "nil"
  BY <1>1, <1>2, <1>3, <1>4, Preserved, NothingType
<1>5. CASE o.ret = "nil"
  <2>1. /\ Unread(o.br) \in Nat /\ Unread(o.br) = n(o.br) - o.br.i
        /\ o.br.i \in Nat /\ n(o.br) \in Nat
    BY <1>2, Fields DEF Good
  <2>2. k \in Nat /\ k \in Int /\ k <= Unread(o.br)
    BY <2>1 DEF Least
  <2>3. o.br.i + k \in 0 .. n(o.br)
    BY <2>1, <2>2
  <2> HIDE DEF k
  <2>4. Good(Advance(o.br, k), o.pos) /\ Advance(o.br, k).err = o.br.err
    BY <1>2, <2>2, <2>3, AdvanceGood, Zenon
  <2>5. Chunk(o.br, k) \in [at : Nat, data : Seq(Nat)]
    BY <1>2, <2>2, <2>3, ChunkType DEF Good
  <2>6. br' = Advance(o.br, k) /\ got' = Chunk(o.br, k) /\ ret' = "nil"
    BY <1>1, <1>5 DEF k
  <2> QED BY <1>1, <1>2, <1>3, <2>4, <2>5, <2>6, Preserved
<1> QED BY <1>4, <1>5

(* Discard keeps it, whether it skips in the buffer, seeks or copies. *)
LEMMA DiscardStep ==
  ASSUME IInv, NEW m \in Nat, Discard(m)
  PROVE  IInv'
<1> DEFINE u == Unread(br)
<1>1. /\ Good(br, fpos) /\ fpos \in Nat /\ StructOK(br) /\ fpos = br.off + u
      /\ ~DataWithErr => br.err = "nil"
  BY DEF IInv, TypeOK, Coherent, Good, Agrees, NothingPending
<1>2. /\ u \in Nat /\ br.i \in Nat /\ br.off \in Nat /\ n(br) \in Nat
      /\ u = n(br) - br.i
  BY <1>1, Fields
<1>3. /\ file' = file /\ pc' \in {"scan", "idle", "write", "failed"}
      /\ todo' \in {-1} \cup Nat /\ got' \in [at : Nat, data : Seq(Nat)]
  BY NothingType DEF Discard, IInv, TypeOK
<1> HIDE DEF u
<1>4. CASE DiscardBuffered(m)
  <2>1. /\ br' = Advance(br, m) /\ ret' = "nil" /\ fpos' = fpos
        /\ m \in Int /\ br.i + m \in 0 .. n(br)
    BY <1>2, <1>4 DEF DiscardBuffered, u
  <2>2. Good(Advance(br, m), fpos) /\ Advance(br, m).err = br.err
    BY <1>1, <2>1, AdvanceGood, Zenon
  <2> QED BY <1>1, <1>3, <2>1, <2>2, Preserved, ErrorsType
<1>5. CASE DiscardSeek(m)
  <2>1. CASE fpos' = fpos + (m - u) /\ br' = Drop(br, m) /\ ret' = "nil"
    <3>1. fpos' = br.off + m
      BY <1>1, <1>2, <2>1
    <3>2. Good(Drop(br, m), br.off + m) /\ br.off + m \in Nat
          /\ Drop(br, m).err = br.err
      BY <1>1, DropGood
    <3> QED BY <1>1, <1>3, <2>1, <3>1, <3>2, Preserved, ErrorsType
  <2>2. CASE fpos' = fpos /\ br' = Drop(br, u) /\ ret' = "io"
    <3>1. Good(Drop(br, u), br.off + u) /\ Drop(br, u).err = br.err
      BY <1>1, <1>2, DropGood
    <3> QED BY <1>1, <1>3, <2>2, <3>1, Preserved, ErrorsType
  <2> QED BY <1>5, <2>1, <2>2 DEF DiscardSeek, u
<1>6. CASE DiscardCopy(m)
  <2>1. PICK k \in 0 .. Least(m - u, Remaining) :
          /\ fpos' = fpos + k
          /\ br' = Drop(br, u + k)
          /\ \/ k = m - u /\ ret' = "nil"
             \/ k < m - u /\ fpos + k >= Len(file) /\ ret' = "EOF"
             \/ k < m - u /\ ret' = "io"
    BY <1>6 DEF DiscardCopy, u
  <2>2. u < m /\ Remaining \in Int /\ m - u \in Int
    BY <1>2, <1>6, RemainingBound DEF DiscardCopy, u, IInv
  <2>3. k \in Nat
    BY <2>1, <2>2, LeastBound
  <2>4. /\ u + k \in Nat /\ br.off + (u + k) = fpos + k
    BY <1>1, <1>2, <2>3
  <2>5. /\ Good(Drop(br, u + k), fpos + k) /\ fpos + k \in Nat
        /\ Drop(br, u + k).err = br.err /\ Drop(br, u + k).off = fpos + k
    BY <1>1, <2>4, DropGood
  <2>6. ret' \in Errors /\ (ret' = "EOF" => fpos + k >= Len(file))
    BY <2>1, ErrorsType
  <2> QED BY <1>1, <1>3, <2>1, <2>5, <2>6, Preserved
<1> QED BY <1>4, <1>5, <1>6 DEF Discard

(* seek keeps it, in the buffer and with the source, if that fails too. *)
LEMMA SeekStep ==
  ASSUME IInv, NEW offset \in Nat, seek(offset)
  PROVE  IInv'
<1>1. /\ Good(br, fpos) /\ fpos \in Nat /\ StructOK(br) /\ br.i <= br.off
      /\ ~DataWithErr => br.err = "nil"
  BY DEF IInv, TypeOK, Coherent, Good, Agrees, NothingPending
<1>2. br.i \in Nat /\ br.off \in Nat /\ n(br) \in Nat
  BY <1>1, Fields
<1>3. /\ file' = file /\ pc' \in {"scan", "idle", "write", "failed"}
      /\ todo' \in {-1} \cup Nat /\ got' \in [at : Nat, data : Seq(Nat)]
  BY NothingType DEF seek, IInv, TypeOK
<1>4. CASE br' = br /\ fpos' = fpos /\ ret' \in {"ErrInvalid", "io"}
  BY <1>1, <1>3, <1>4, Preserved, ErrorsType
<1>5. CASE /\ offset \in Buffered(br) /\ br' = Advance(br, offset - br.off)
           /\ ret' = "nil" /\ fpos' = fpos
  <2>1. offset - br.off \in Int /\ br.i + (offset - br.off) \in 0 .. n(br)
    BY <1>2, <1>5 DEF Buffered
  <2>2. /\ Good(Advance(br, offset - br.off), fpos)
        /\ Advance(br, offset - br.off).err = br.err
    BY <1>1, <2>1, AdvanceGood, Zenon
  <2> QED BY <1>1, <1>3, <1>5, <2>2, Preserved, ErrorsType
<1>6. CASE /\ fpos' = offset /\ br' = [Drop(br, 0) EXCEPT !.off = offset]
           /\ ret' = "nil"
  <2>1. /\ br'.off = offset /\ br'.i = 0 /\ n(br') = 0 /\ br'.err = br.err
        /\ Unread(br') = 0 /\ br'.buf = <<>>
    BY <1>1, <1>6 DEF Drop, StructOK, n, Unread
  <2>2. br' \in [buf : Seq(Nat), i : Nat, off : Nat, err : SourceErrors, ver : Nat]
    <3>1. 0 \in Nat /\ <<>> \in Seq(Nat)
      OBVIOUS
    <3> QED BY <3>1, <1>1, <1>6 DEF Drop, StructOK
  <2>3. Good(br', fpos')
    BY <1>6, <2>1, <2>2, BufSizeNat DEF Good, StructOK, Agrees
  <2> QED BY <1>1, <1>3, <1>6, <2>1, <2>3, Preserved, ErrorsType
<1> QED BY <1>4, <1>5, <1>6 DEF seek

(* writeToN keeps it in every iteration, also when the writer fails. *)
LEMMA WriteSteps ==
  ASSUME IInv, (\E m \in {-1} \cup Nat : writeToN(m)) \/ WriteStep
  PROVE  IInv'
<1>1. /\ Good(br, fpos) /\ fpos \in Nat /\ StructOK(br)
      /\ ~DataWithErr => br.err = "nil"
  BY DEF IInv, TypeOK, Coherent, Good, Agrees, NothingPending
<1>2. ASSUME NEW m \in {-1} \cup Nat, writeToN(m) PROVE IInv'
  BY <1>1, <1>2, Preserved, NothingType, ErrorsType DEF writeToN, IInv, TypeOK
<1>3. CASE WriteStep
  <2>1. PICK o \in EnsureBuffered :
          /\ fpos' = o.pos
          /\ \/ /\ o.ret # "nil" /\ br' = o.br /\ pc' = "idle"
                /\ todo' = 0 /\ got' = Nothing
             \/ LET len == IF todo > 0 THEN Least(todo, Unread(o.br))
                                       ELSE Unread(o.br) IN
                /\ o.ret = "nil"
                /\ \E l \in 0 .. len :
                     /\ br' = Advance(o.br, l)
                     /\ got' = Chunk(o.br, l)
                     /\ \/ l = todo /\ pc' = "idle" /\ todo' = 0
                        \/ l < len /\ pc' = "idle" /\ todo' = 0
                        \/ /\ l = len /\ l # todo /\ pc' = "write"
                           /\ todo' = IF todo > 0 THEN todo - l ELSE todo
    BY <1>3 DEF WriteStep
  <2>2. /\ Good(o.br, o.pos) /\ o.pos \in Nat
        /\ ~DataWithErr => o.br.err = "nil"
    BY EnsureGood
  <2>3. file' = file /\ ret' = "nil" /\ fpos' \in Nat /\ todo \in {-1} \cup Nat
    BY <1>3, <2>1, <2>2 DEF WriteStep, IInv, TypeOK
  <2>4. CASE o.ret # "nil"
    BY <2>1, <2>2, <2>3, <2>4, Preserved, NothingType, ErrorsType
  <2>5. CASE o.ret = "nil"
    <3> DEFINE len == IF todo > 0 THEN Least(todo, Unread(o.br))
                                  ELSE Unread(o.br)
    <3>1. PICK l \in 0 .. len :
            /\ br' = Advance(o.br, l)
            /\ got' = Chunk(o.br, l)
            /\ \/ l = todo /\ pc' = "idle" /\ todo' = 0
               \/ l < len /\ pc' = "idle" /\ todo' = 0
               \/ /\ l = len /\ l # todo /\ pc' = "write"
                  /\ todo' = IF todo > 0 THEN todo - l ELSE todo
      BY <2>1, <2>5
    <3>2. /\ Unread(o.br) \in Nat /\ Unread(o.br) = n(o.br) - o.br.i
          /\ o.br.i \in Nat /\ n(o.br) \in Nat
      BY <2>2, Fields DEF Good
    <3>3. len \in Nat /\ len <= Unread(o.br) /\ (todo > 0 => len <= todo)
      BY <2>3, <3>2 DEF Least
    <3> HIDE DEF len
    <3>4. /\ l \in Nat /\ l \in Int /\ o.br.i + l \in 0 .. n(o.br)
          /\ o.br.i + l <= n(o.br)
      BY <3>2, <3>3
    <3>5. pc' \in {"scan", "idle", "write", "failed"} /\ todo' \in {-1} \cup Nat
      BY <2>3, <3>1, <3>3, <3>4
    <3>6. Good(Advance(o.br, l), o.pos) /\ Advance(o.br, l).err = o.br.err
      BY <2>2, <3>4, AdvanceGood, Zenon
    <3>7. Chunk(o.br, l) \in [at : Nat, data : Seq(Nat)]
      BY <2>2, <3>4, ChunkType DEF Good
    <3> QED BY <2>1, <2>2, <2>3, <3>1, <3>5, <3>6, <3>7, Preserved, ErrorsType
  <2> QED BY <2>4, <2>5
<1> QED BY <1>2, <1>3

(* Reset keeps it: nothing of the volume before is left but br.err. *)
LEMMA ResetStep ==
  ASSUME IInv, NEW f \in Files, Reset(f)
  PROVE  IInv'
<1>1. /\ br'.off = 0 /\ br'.i = 0 /\ n(br') = 0 /\ br'.err = br.err
      /\ Unread(br') = 0 /\ br'.buf = <<>> /\ fpos' = 0 /\ file' = f
      /\ ret' = "nil"
  BY DEF Reset, IInv, TypeOK, StructOK, n, Unread
<1>2. br' \in [buf : Seq(Nat), i : Nat, off : Nat, err : SourceErrors, ver : Nat]
  <2>1. 0 \in Nat /\ <<>> \in Seq(Nat)
    OBVIOUS
  <2> QED BY <2>1 DEF Reset, IInv, TypeOK, StructOK
<1>3. TypeOK'
  BY <1>1, <1>2, BufSizeNat, NothingType, ErrorsType
  DEF Reset, IInv, TypeOK, StructOK, n
<1>4. Coherent'
  BY <1>1 DEF Coherent, Agrees, n, Unread
<1>5. NothingPending' /\ EOFTrusted'
  BY <1>1 DEF IInv, NothingPending, EOFTrusted
<1> QED BY <1>3, <1>4, <1>5 DEF IInv

(* A candidate too close to the end of the buffer. *)
LEMMA TopUpStep ==
  ASSUME IInv, NEW b, Good(b, fpos), b.err = br.err,
         Unread(b) < Len(SigPrefix) + 2, TopUp(b)
  PROVE  /\ fpos' \in Nat /\ Good(br', fpos') /\ br'.err = br.err
         /\ pc' \in {"scan", "idle", "failed"} /\ ret' \in Errors /\ ret' # "EOF"
<1> DEFINE c == Compact(b)
           need == Len(SigPrefix) + 2 - n(c)
<1>1. /\ Good(c, fpos) /\ c.i = 0 /\ n(c) = Unread(b) /\ c.err = br.err
      /\ n(c) \in Nat /\ Len(SigPrefix) \in Nat /\ BufSize \in Nat
      /\ BufSize - n(c) \in Int /\ Remaining \in Int /\ fpos \in Nat
  <2>1. Good(c, fpos) /\ c.i = 0 /\ n(c) = Unread(b) /\ c.err = br.err
    BY CompactGood DEF IInv
  <2>2. n(c) \in Nat
    BY <2>1, Fields DEF Good
  <2>3. Remaining \in Int /\ fpos \in Nat
    BY RemainingBound DEF IInv
  <2> QED BY <2>1, <2>2, <2>3, BufSizeNat
<1>2. PICK l \in 0 .. Least(BufSize - n(c), Remaining) :
        /\ fpos' = fpos + l
        /\ \/ l >= need /\ CheckSig(Load(c, l)) /\ ret' = "nil"
           \/ /\ l < need
              /\ br' = Load(c, l)
              /\ \/ fpos + l >= Len(file) /\ ScanFails("ErrNoSig")
                 \/ ScanFails("io")
  BY DEF TopUp
<1> HIDE DEF c
<1>3. /\ Least(BufSize - n(c), Remaining) \in Int
      /\ Least(BufSize - n(c), Remaining) <= BufSize - n(c)
      /\ Least(BufSize - n(c), Remaining) <= Remaining
  BY <1>1, LeastBound
<1>4. l \in Nat /\ l <= Remaining /\ n(c) + l <= BufSize /\ fpos + l \in Nat
  BY <1>1, <1>2, <1>3
<1>5. /\ Good(Load(c, l), fpos + l) /\ Load(c, l).i = 0
      /\ n(Load(c, l)) = n(c) + l /\ Load(c, l).err = br.err
  BY <1>1, <1>4, LoadGood DEF IInv
<1>6. CASE l >= need /\ CheckSig(Load(c, l)) /\ ret' = "nil"
  <2>1. Unread(Load(c, l)) >= Len(SigPrefix) + 2
    BY <1>1, <1>4, <1>5, <1>6 DEF Unread
  <2>2. Good(br', fpos + l) /\ br'.err = br.err /\ pc' \in {"idle", "scan"}
    BY <1>5, <1>6, <2>1, CheckSigGood
  <2> QED BY <1>2, <1>4, <1>6, <2>2, ErrorsType
<1>7. CASE br' = Load(c, l) /\ (ScanFails("ErrNoSig") \/ ScanFails("io"))
  BY <1>2, <1>4, <1>5, <1>7, ErrorsType DEF ScanFails
<1> QED BY <1>2, <1>6, <1>7

(* An iteration of findSig keeps it. *)
LEMMA FindSigStep ==
  ASSUME IInv, FindSig
  PROVE  IInv'
<1>1. /\ Good(br, fpos) /\ fpos \in Nat /\ StructOK(br)
      /\ ~DataWithErr => br.err = "nil"
  BY DEF IInv, TypeOK, Coherent, Good, Agrees, NothingPending
<1>2. /\ br.i \in Nat /\ br.off \in Nat /\ n(br) \in Nat /\ br.i <= n(br)
      /\ Unread(br) = n(br) - br.i
  BY <1>1, Fields
<1>3. /\ file' = file /\ todo' \in {-1} \cup Nat
      /\ got' \in [at : Nat, data : Seq(Nat)]
  BY NothingType DEF FindSig, IInv, TypeOK
<1>4. CASE ScanGivesUp
  BY <1>1, <1>3, <1>4, Preserved, ErrorsType DEF ScanGivesUp, ScanFails
<1>5. CASE ScanFill
  <2>1. Unread(br) = 0
    BY <1>5 DEF ScanFill
  <2>2. PICK o \in FillOutcomes :
          /\ br' = o.br
          /\ fpos' = o.pos
          /\ \/ o.ret # "nil" /\ ScanFails(o.ret)
             \/ o.ret = "nil" /\ pc' = "scan" /\ ret' = "nil"
    BY <1>5 DEF ScanFill
  <2>3. /\ Good(o.br, o.pos) /\ o.pos \in Nat /\ o.ret \in SourceErrors
        /\ ~DataWithErr /\ br.err = "nil" => o.br.err = "nil"
    BY <2>1, FillGood
  <2>4. /\ pc' \in {"scan", "idle", "write", "failed"} /\ ret' \in Errors
        /\ ret' # "EOF"
    BY <2>2, <2>3, ErrorsType DEF ScanFails
  <2> QED BY <1>1, <1>3, <2>2, <2>3, <2>4, Preserved
<1>6. CASE ScanBuffer
  <2>1. CASE /\ br' = Advance(br, Unread(br)) /\ pc' = "scan" /\ ret' = "nil"
             /\ fpos' = fpos
    <3>1. Unread(br) \in Int /\ br.i + Unread(br) \in 0 .. n(br)
      BY <1>2
    <3>2. /\ Good(Advance(br, Unread(br)), fpos)
          /\ Advance(br, Unread(br)).err = br.err
      BY <1>1, <3>1, AdvanceGood, Zenon
    <3> QED BY <1>1, <1>3, <2>1, <3>2, Preserved, ErrorsType
  <2>2. ASSUME NEW h \in SigStarts(br), NEW b, b = Advance(br, h - br.i),
               \/ /\ Unread(b) >= Len(SigPrefix) + 2
                  /\ CheckSig(b)
                  /\ ret' = "nil"
                  /\ UNCHANGED fpos
               \/ Unread(b) < Len(SigPrefix) + 2 /\ TopUp(b)
        PROVE  IInv'
    <3>1. h - br.i \in Int /\ br.i + (h - br.i) \in 0 .. n(br)
      BY <1>2, <2>2 DEF SigStarts
    <3>2. Good(b, fpos) /\ b.err = br.err
      BY <1>1, <2>2, <3>1, AdvanceGood, Zenon
    <3>3. CASE /\ Unread(b) >= Len(SigPrefix) + 2 /\ CheckSig(b)
               /\ ret' = "nil" /\ fpos' = fpos
      <4>1. Good(br', fpos) /\ br'.err = br.err /\ pc' \in {"idle", "scan"}
        BY <3>2, <3>3, CheckSigGood
      <4> QED BY <1>1, <1>3, <3>3, <4>1, Preserved, ErrorsType
    <3>4. CASE Unread(b) < Len(SigPrefix) + 2 /\ TopUp(b)
      <4>1. /\ fpos' \in Nat /\ Good(br', fpos') /\ br'.err = br.err
            /\ pc' \in {"scan", "idle", "failed"}
            /\ ret' \in Errors /\ ret' # "EOF"
        BY <3>2, <3>4, TopUpStep
      <4> QED BY <1>1, <1>3, <4>1, Preserved
    <3> QED BY <2>2, <3>3, <3>4
  <2> QED BY <1>6, <2>1, <2>2 DEF ScanBuffer
<1> QED BY <1>4, <1>5, <1>6 DEF FindSig

(* newBufVolumeReader starts with an empty buffer at the file's start. *)
LEMMA InitGood == Init => IInv
<1> SUFFICES ASSUME Init PROVE IInv
  OBVIOUS
<1>1. /\ br.buf = <<>> /\ br.i = 0 /\ br.off = 0 /\ br.err = "nil" /\ br.ver = 0
      /\ n(br) = 0 /\ Unread(br) = 0 /\ fpos = 0
  BY DEF Init, n, Unread
<1>2. br \in [buf : Seq(Nat), i : Nat, off : Nat, err : SourceErrors, ver : Nat]
  BY DEF Init, SourceErrors
<1>3. TypeOK
  BY <1>1, <1>2, BufSizeNat, NothingType, ErrorsType DEF Init, TypeOK, StructOK
<1>4. Coherent /\ NothingPending /\ EOFTrusted
  BY <1>1 DEF Init, Coherent, Agrees, NothingPending, EOFTrusted
<1> QED BY <1>3, <1>4 DEF IInv

(* Every step keeps the invariant. *)
LEMMA Inductive == IInv /\ [Next]_vars => IInv'
<1> SUFFICES ASSUME IInv, [Next]_vars PROVE IInv'
  OBVIOUS
<1>1. CASE UNCHANGED vars
  BY <1>1 DEF vars, IInv, TypeOK, Coherent, NothingPending, EOFTrusted, StructOK, Agrees, n, Unread
<1>2. CASE FindSig
  BY <1>2, FindSigStep
<1>3. ASSUME NEW p \in 1 .. MaxRequest, Read(p) PROVE IInv'
  BY <1>3, ReadStep
<1>4. CASE ReadByte
  BY <1>4, ReadStep DEF ReadByte
<1>5. ASSUME NEW m \in 0 .. MaxRequest, Discard(m) PROVE IInv'
  BY <1>5, DiscardStep
<1>6. ASSUME NEW o \in 0 .. MaxOffset, seek(o) PROVE IInv'
  BY <1>6, SeekStep
<1>7. ASSUME NEW m \in {-1} \cup 1 .. MaxRequest, writeToN(m) PROVE IInv'
  BY <1>7, WriteSteps
<1>8. CASE WriteStep
  BY <1>8, WriteSteps
<1>9. ASSUME NEW f \in Files, Reset(f) PROVE IInv'
  BY <1>9, ResetStep
<1> QED
  BY <1>1, <1>2, <1>3, <1>4, <1>5, <1>6, <1>7, <1>8, <1>9 DEF Next

(* The conjunction of the invariants holds of every behaviour. *)
THEOREM Invariance == Spec => []IInv
BY InitGood, Inductive, PTL DEF Spec

(* Every value stays in its type, whatever the file, the buffer size and   *)
(* the calls: no index leaves the buffer, no offset becomes negative.      *)
THEOREM TypeCorrect == Spec => []TypeOK
<1>1. IInv => TypeOK
  BY DEF IInv
<1> QED BY <1>1, Invariance, PTL

(* The buffer is always the part of the volume that ends where the source  *)
(* stands, and off the offset of the next byte handed out: through short   *)
(* reads, failed and successful seeks, both ways of discarding, and the    *)
(* search for the signature.                                               *)
THEOREM BufferCoherent == Spec => []Coherent
<1>1. IInv => Coherent
  BY DEF IInv
<1> QED BY <1>1, Invariance, PTL

-----------------------------------------------------------------------------
(* The buffered reader implements a cursor over the volume.                *)

(* Sequences of the same length and elements are the same. *)
LEMMA SameSeq ==
  ASSUME NEW x \in Seq(Nat), NEW y \in Seq(Nat), NEW k \in Nat,
         Len(x) = k, Len(y) = k, \A j \in 1 .. k : x[j] = y[j]
  PROVE  x = y
OBVIOUS

(* What is handed out is the file's content at the cursor. *)
LEMMA ChunkIsFile ==
  ASSUME TypeOK, NEW b, NEW p, Good(b, p), NEW k \in Nat, k <= Unread(b),
         Unread(b) > 0
  PROVE  /\ b.off + k <= Len(file) /\ b.off \in Nat
         /\ Chunk(b, k) = [at |-> b.off,
                           data |-> SubSeq(file, b.off + 1, b.off + k)]
<1>1. /\ b.buf \in Seq(Nat) /\ b.i \in Nat /\ b.off \in Nat
      /\ n(b) = Len(b.buf) /\ Unread(b) = n(b) - b.i /\ n(b) \in Nat
  BY Fields DEF Good
<1>2. file \in Seq(Nat) /\ Len(file) \in Nat
  BY RemainingBound
<1>3. \A j \in 1 .. n(b) : /\ b.off - b.i + j <= Len(file)
                           /\ b.buf[j] = file[b.off - b.i + j]
  BY DEF Good, Agrees
<1>4. ASSUME NEW j \in 1 .. Unread(b)
      PROVE  b.off + j <= Len(file) /\ b.buf[b.i + j] = file[b.off + j]
  <2>1. b.i + j \in 1 .. n(b) /\ b.off - b.i + (b.i + j) = b.off + j
    <3>1. /\ j \in Nat /\ j >= 1 /\ j <= n(b) - b.i
          /\ b.i \in Nat /\ b.off \in Nat /\ n(b) \in Nat
      BY <1>1
    <3> QED BY <3>1
  <2>2. /\ b.off - b.i + (b.i + j) <= Len(file)
        /\ b.buf[b.i + j] = file[b.off - b.i + (b.i + j)]
    BY <1>3, <2>1
  <2> QED BY <2>1, <2>2
<1>5. /\ Unread(b) \in 1 .. Unread(b) /\ b.i + k <= Len(b.buf)
      /\ \A j \in 1 .. k : j \in 1 .. Unread(b)
  BY <1>1
<1>6. b.off + k <= Len(file)
  BY <1>1, <1>2, <1>4, <1>5
<1>7. \A j \in 1 .. k : b.buf[b.i + j] = file[b.off + j]
  BY <1>4, <1>5
<1>8. SubSeq(b.buf, b.i + 1, b.i + k) = SubSeq(file, b.off + 1, b.off + k)
  <2> DEFINE u == SubSeq(b.buf, b.i + 1, b.i + k)
             v == SubSeq(file, b.off + 1, b.off + k)
  <2>1. u \in Seq(Nat) /\ Len(u) = k /\ \A j \in 1 .. k : u[j] = b.buf[b.i + j]
    <3>1. b.i \in Nat /\ b.buf \in Seq(Nat) /\ b.i + k <= Len(b.buf)
      BY <1>1, <1>5
    <3> QED BY <3>1, Piece, Zenon
  <2>2. v \in Seq(Nat) /\ Len(v) = k /\ \A j \in 1 .. k : v[j] = file[b.off + j]
    <3>1. b.off \in Nat /\ file \in Seq(Nat)
      BY <1>1, <1>2
    <3> QED BY <3>1, <1>6, Piece, Zenon
  <2> HIDE DEF u, v
  <2>3. \A j \in 1 .. k : u[j] = v[j]
    BY <2>1, <2>2, <1>7, Zenon
  <2>4. u = v
    BY <2>1, <2>2, <2>3, SameSeq
  <2> QED BY <2>4 DEF u, v
<1> QED BY <1>1, <1>6, <1>8 DEF Chunk

(* A step that hands out bytes. *)
LEMMA DeliverStep ==
  ASSUME IInv, NEW o \in EnsureBuffered, o.ret = "nil",
         NEW k \in Nat, k <= Unread(o.br),
         br' = Advance(o.br, k), got' = Chunk(o.br, k), ret' = "nil", file' = file
  PROVE  VS!Deliver
<1>1. /\ Good(o.br, o.pos) /\ o.br.off = br.off /\ Unread(o.br) > 0
  BY EnsureGood
<1>2. /\ br.off + k <= Len(file) /\ br.off \in Nat
      /\ got' = [at |-> br.off, data |-> SubSeq(file, br.off + 1, br.off + k)]
  BY <1>1, ChunkIsFile DEF IInv
<1>3. br'.off = br.off + k
  BY <1>1 DEF Advance, Good, StructOK
<1>4. Len(file) \in Nat
  BY RemainingBound DEF IInv
<1>5. br'.off \in br.off .. Len(file)
  BY <1>2, <1>3, <1>4
<1> QED BY <1>2, <1>3, <1>5 DEF VS!Deliver

(* A step that hands out nothing. *)
LEMMA MoveStep ==
  ASSUME ~DataWithErr, IInv', got' = Nothing, file' = file
  PROVE  VS!Move
<1>1. br'.off \in Nat /\ ret' \in Errors
  BY DEF IInv, TypeOK, StructOK
<1>2. ret' = "EOF" => br'.off >= Len(file)
  BY DEF IInv, EOFTrusted
<1> QED BY <1>1, <1>2 DEF VS!Move, VS!Nothing, Nothing

(* Every step is one of VolumeStream, or changes nothing it sees. *)
LEMMA StepSimulation ==
  ASSUME ~DataWithErr, IInv, IInv', [Next]_vars
  PROVE  [VS!Next]_VS!vars
<1>1. CASE UNCHANGED vars
  BY <1>1 DEF vars, VS!vars
<1>2. CASE FindSig
  BY <1>2, MoveStep DEF FindSig, VS!Next
<1>3. ASSUME NEW p \in Nat, Read(p) PROVE VS!Next
  <2>1. PICK o \in EnsureBuffered :
          /\ ret' = o.ret
          /\ \/ o.ret # "nil" /\ br' = o.br /\ got' = Nothing
             \/ /\ o.ret = "nil"
                /\ br' = Advance(o.br, Least(p, Unread(o.br)))
                /\ got' = Chunk(o.br, Least(p, Unread(o.br)))
    BY <1>3 DEF Read
  <2>2. file' = file
    BY <1>3 DEF Read
  <2>3. Unread(o.br) \in Nat
    BY EnsureGood, Fields DEF Good
  <2>4. Least(p, Unread(o.br)) \in Nat /\ Least(p, Unread(o.br)) <= Unread(o.br)
    BY <2>3 DEF Least
  <2>5. CASE o.ret # "nil"
    BY <2>1, <2>2, <2>5, MoveStep DEF VS!Next
  <2>6. CASE o.ret = "nil"
    BY <2>1, <2>2, <2>4, <2>6, DeliverStep DEF VS!Next
  <2> QED BY <2>5, <2>6
<1>4. ASSUME NEW m, Discard(m) \/ seek(m) \/ writeToN(m) PROVE VS!Next
  BY <1>4, MoveStep DEF Discard, seek, writeToN, VS!Next
<1>5. CASE WriteStep
  <2>1. PICK o \in EnsureBuffered :
          \/ o.ret # "nil" /\ got' = Nothing
          \/ /\ o.ret = "nil"
             /\ \E l \in 0 .. (IF todo > 0 THEN Least(todo, Unread(o.br))
                                            ELSE Unread(o.br)) :
                  br' = Advance(o.br, l) /\ got' = Chunk(o.br, l)
    BY <1>5 DEF WriteStep
  <2>2. file' = file /\ ret' = "nil" /\ todo \in {-1} \cup Nat
    BY <1>5 DEF WriteStep, IInv, TypeOK
  <2>3. Unread(o.br) \in Nat
    BY EnsureGood, Fields DEF Good
  <2>4. CASE o.ret # "nil"
    BY <2>1, <2>2, <2>4, MoveStep DEF VS!Next
  <2>5. CASE o.ret = "nil"
    <3>1. PICK l \in 0 .. (IF todo > 0 THEN Least(todo, Unread(o.br))
                                        ELSE Unread(o.br)) :
            br' = Advance(o.br, l) /\ got' = Chunk(o.br, l)
      BY <2>1, <2>5
    <3>2. l \in Nat /\ l <= Unread(o.br)
      BY <2>2, <2>3 DEF Least
    <3> QED BY <2>2, <2>5, <3>1, <3>2, DeliverStep DEF VS!Next
  <2> QED BY <2>4, <2>5
<1>6. ASSUME NEW f \in Files, Reset(f) PROVE VS!Next
  <2>1. br'.off = 0
    BY <1>6 DEF Reset, IInv, TypeOK, StructOK
  <2> QED BY <1>6, <2>1 DEF Reset, VS!Next, VS!Open, VS!Nothing, Nothing
<1> QED
  <2>1. ASSUME NEW p \in 1 .. MaxRequest, Read(p) PROVE VS!Next
    BY <2>1, <1>3
  <2>2. CASE ReadByte
    BY <2>2, <1>3 DEF ReadByte
  <2>3. CASE \E m \in 0 .. MaxRequest : br.off + m <= MaxOffset /\ Discard(m)
    BY <2>3, <1>4
  <2>4. CASE \E o \in 0 .. MaxOffset : seek(o)
    BY <2>4, <1>4
  <2>5. CASE \E m \in {-1} \cup 1 .. MaxRequest : writeToN(m)
    BY <2>5, <1>4
  <2> QED BY <1>1, <1>2, <1>5, <1>6, <2>1, <2>2, <2>3, <2>4, <2>5 DEF Next

(* Over a source that returns no error along with bytes, bufVolumeReader   *)
(* is a cursor: every read hands out the volume's own bytes at its offset  *)
(* and moves behind them, whatever was buffered, sought or discarded       *)
(* before.                                                                 *)
THEOREM ImplementsVolumeStream ==
  ASSUME ~DataWithErr
  PROVE  Spec => IsVolumeStream
<1>1. Init => VS!Init
  BY DEF Init, VS!Init, Nothing, VS!Nothing
<1>2. IInv /\ IInv' /\ [Next]_vars => [VS!Next]_VS!vars
  BY StepSimulation
<1> QED BY <1>1, <1>2, Invariance, PTL DEF Spec, VS!Spec, IsVolumeStream
=============================================================================
