------------------------ MODULE PackedFileReaderProofs ------------------------
(***************************************************************************)
(* What holds of PackedFileReader for every archive, however its blocks    *)
(* are spread over volumes.                                                *)
(***************************************************************************)
EXTENDS PackedFileReader, DataFacts

Headers == [num : Nat, blk : Nat, packedOff : Nat, blocknum : Nat]

\* the block at a place of archive a
BlockAt(a, x) == a[x.num + 1].blocks[x.blk]

\* the header behind header x in its file
NextHeader(a, x) ==
  IF GoesOn(a, x)
  THEN [num |-> After(a, x).num, blk |-> After(a, x).blk, blocknum |-> x.blocknum + 1,
        packedOff |-> x.packedOff + BlockAt(a, x).size]
  ELSE x

\* the byte that is the i-th of the packed file, in block x
ByteOf(a, x, byte, i) ==
  /\ byte[1] = x.num /\ byte[2] = x.blk
  /\ byte[3] \in 1 .. BlockAt(a, x).have /\ x.packedOff + byte[3] = i

(* A block that is there, in numbers. *)
LEMMA BlockType ==
  ASSUME NEW a, IsArchive(a), NEW x, Exists(a, x)
  PROVE  /\ x.num \in Nat /\ x.num + 1 \in 1 .. Len(a) /\ Len(a) \in Nat
         /\ x.blk \in Nat /\ x.blk \in 1 .. Len(a[x.num + 1].blocks)
         /\ Len(a[x.num + 1].blocks) \in Nat
         /\ BlockAt(a, x).size \in Nat /\ BlockAt(a, x).have \in 0 .. BlockAt(a, x).size
         /\ BlockAt(a, x).first \in BOOLEAN /\ BlockAt(a, x).last \in BOOLEAN
<1>1. Len(a) \in Nat
  BY DEF IsArchive
<1>2. x.num \in Nat /\ x.num + 1 \in 1 .. Len(a)
  BY <1>1 DEF Exists
<1>3. Len(a[x.num + 1].blocks) \in Nat
  BY <1>2 DEF IsArchive
<1>4. x.blk \in Nat /\ x.blk \in 1 .. Len(a[x.num + 1].blocks)
  BY <1>3 DEF Exists
<1>5. PICK k \in 1 .. Len(a), i \in Nat : k = x.num + 1 /\ i = x.blk
  BY <1>2, <1>4
<1>6. i \in 1 .. Len(a[k].blocks)
  BY <1>4, <1>5
<1>7. LET b == a[k].blocks[i] IN
      b.size \in Nat /\ b.have \in 0 .. b.size /\ b.first \in BOOLEAN /\ b.last \in BOOLEAN
  BY <1>6 DEF IsArchive
<1>8. QED
  BY <1>1, <1>2, <1>3, <1>4, <1>5, <1>7 DEF BlockAt

(* Where there is a next block, a header has numbers for it. *)
LEMMA NextType ==
  ASSUME NEW a, IsArchive(a), NEW x \in Headers, Exists(a, x)
  PROVE  /\ NextHeader(a, x) \in Headers /\ Exists(a, NextHeader(a, x))
         /\ GoesOn(a, x) => /\ NextHeader(a, x).num = After(a, x).num
                            /\ NextHeader(a, x).blk = After(a, x).blk
<1>1. CASE ~GoesOn(a, x)
  BY <1>1 DEF NextHeader
<1>2. CASE GoesOn(a, x)
  <2>1. Exists(a, After(a, x))
    BY <1>2 DEF GoesOn
  <2>2. After(a, x).num \in Nat /\ After(a, x).blk \in Nat
    BY <2>1, BlockType
  <2>3. BlockAt(a, x).size \in Nat
    BY BlockType
  <2>4. /\ NextHeader(a, x) \in Headers
        /\ NextHeader(a, x).num = After(a, x).num /\ NextHeader(a, x).blk = After(a, x).blk
    BY <1>2, <2>2, <2>3 DEF NextHeader, Headers
  <2>5. QED
    BY <2>1, <2>4 DEF Exists
<1>3. QED
  BY <1>1, <1>2

(* The headers of a file follow each other. *)
LEMMA FileHeaderIs ==
  ASSUME NEW a, IsArchive(a), NEW s \in [num : Nat, blk : Nat], Exists(a, s)
  PROVE  /\ FileHeader(a, s)[0] = FirstHeader(s)
         /\ \A k \in Nat : /\ FileHeader(a, s)[k] \in Headers
                           /\ Exists(a, FileHeader(a, s)[k])
                           /\ FileHeader(a, s)[k + 1] = NextHeader(a, FileHeader(a, s)[k])
<1> DEFINE step == [x \in Headers |-> NextHeader(a, x)]
           Def(g) == g = [k \in Nat |-> IF k = 0 THEN FirstHeader(s)
                                        ELSE NextHeader(a, g[k - 1])]
<1>1. ASSUME NEW g, g[0] = FirstHeader(s),
             \A k \in Nat : g[k + 1] = step[g[k]] \/ g[k + 1] = NextHeader(a, g[k])
      PROVE  \A k \in Nat : g[k] \in Headers /\ Exists(a, g[k])
  <2> DEFINE S == {k \in Nat : g[k] \in Headers /\ Exists(a, g[k])}
  <2>1. 0 \in S
    BY <1>1 DEF FirstHeader, Headers, Exists
  <2>2. ASSUME NEW k \in Nat, k \in S PROVE k + 1 \in S
    <3>1. g[k] \in Headers /\ Exists(a, g[k])
      BY <2>2
    <3>2. step[g[k]] = NextHeader(a, g[k])
      BY <3>1
    <3>3. g[k + 1] = NextHeader(a, g[k])
      BY <1>1, <3>2
    <3>4. NextHeader(a, g[k]) \in Headers /\ Exists(a, NextHeader(a, g[k]))
      BY <3>1, NextType
    <3>5. QED
      BY <3>3, <3>4
  <2> HIDE DEF S
  <2>3. \A k \in Nat : k \in S
    BY ONLY <2>1, <2>2, Inductive
  <2>4. QED
    BY <2>3 DEF S
<1>2. \E g : Def(g)
  <2>1. PICK c, t : c = FirstHeader(s) /\ t = step
    OBVIOUS
  <2>2. PICK h0 : h0 = Recursive(c, t)
    OBVIOUS
  <2>3. Recurs(h0, c, t)
    BY ONLY <2>2, Recursion
  <2>4. h0[0] = c /\ \A k \in Nat : h0[k + 1] = t[h0[k]]
    BY ONLY <2>3 DEF Recurs
  <2>5. \A k \in Nat : h0[k] \in Headers
    BY <1>1, <2>1, <2>4
  <2>6. \A k \in Nat : h0[k + 1] = NextHeader(a, h0[k])
    BY <2>1, <2>4, <2>5
  <2> DEFINE g == [k \in Nat |-> h0[k]]
  <2>7. ASSUME NEW k \in Nat
        PROVE  g[k] = IF k = 0 THEN FirstHeader(s) ELSE NextHeader(a, g[k - 1])
    <3>1. CASE k # 0
      <4>1. k - 1 \in Nat /\ (k - 1) + 1 = k
        BY <3>1
      <4>2. QED
        BY <2>6, <3>1, <4>1
    <3>2. QED
      BY <2>1, <2>4, <3>1
  <2>8. Def(g)
    BY <2>7
  <2>9. QED
    BY <2>8
<1>3. FileHeader(a, s) = CHOOSE g : Def(g)
  BY DEF FileHeader, NextHeader, BlockAt
<1>4. PICK H : H = FileHeader(a, s)
  OBVIOUS
<1>5. Def(H)
  BY ONLY Zenon, <1>2, <1>3, <1>4
<1> HIDE DEF step
<1>6. H[0] = FirstHeader(s) /\ \A k \in Nat : H[k + 1] = NextHeader(a, H[k])
  <2>1. H[0] = FirstHeader(s)
    BY <1>5
  <2>2. ASSUME NEW k \in Nat PROVE H[k + 1] = NextHeader(a, H[k])
    <3>1. k + 1 \in Nat /\ k + 1 # 0 /\ (k + 1) - 1 = k
      OBVIOUS
    <3>2. QED
      BY <1>5, <3>1
  <2>3. QED
    BY <2>1, <2>2
<1>7. \A k \in Nat : H[k] \in Headers /\ Exists(a, H[k])
  BY <1>1, <1>6
<1>8. QED
  BY <1>4, <1>6, <1>7

(* No block is between one and the next. *)
LEMMA Adjacent ==
  ASSUME NEW a, IsArchive(a), NEW x, x.num \in Nat, x.blk \in Nat, x.num < Len(a),
         NEW y, Exists(a, y), Before(x, y)
  PROVE  \/ y.num = After(a, x).num /\ y.blk = After(a, x).blk
         \/ Before(After(a, x), y)
<1>1. /\ y.num \in Nat /\ y.blk \in Nat /\ y.blk \in 1 .. Len(a[y.num + 1].blocks)
      /\ Len(a[y.num + 1].blocks) \in Nat
  BY BlockType
<1>2. x.num < y.num \/ (x.num = y.num /\ x.blk < y.blk)
  BY DEF Before
<1>3. CASE x.blk < Len(a[x.num + 1].blocks)
  <2>1. After(a, x).num = x.num /\ After(a, x).blk = x.blk + 1
    BY ONLY <1>3 DEF After
  <2>2. QED
    BY ONLY <1>1, <1>2, <2>1, x.num \in Nat, x.blk \in Nat DEF Before
<1>4. CASE ~(x.blk < Len(a[x.num + 1].blocks))
  <2>1. After(a, x).num = x.num + 1 /\ After(a, x).blk = 1
    BY ONLY <1>4 DEF After
  <2>2. x.num < y.num
    <3>1. SUFFICES ASSUME x.num = y.num, x.blk < y.blk PROVE FALSE
      BY <1>2
    <3>2. QED
      BY ONLY <1>1, <1>4, <3>1, x.blk \in Nat
  <2>3. QED
    BY ONLY <1>1, <2>1, <2>2, x.num \in Nat DEF Before
<1>5. QED
  BY <1>3, <1>4

(* No other file starts between the blocks of a file. *)
LEMMA NoOtherFile ==
  ASSUME NEW a, IsArchive(a), NEW s \in [num : Nat, blk : Nat], Exists(a, s)
  PROVE  \A k \in Nat : \A y :
           Exists(a, y) /\ Before(s, y) /\ ~Before(FileHeader(a, s)[k], y)
             => ~BlockAt(a, y).first
<1>1. PICK H : H = FileHeader(a, s)
  OBVIOUS
<1>2. /\ H[0] = FirstHeader(s)
      /\ \A k \in Nat : /\ H[k] \in Headers /\ Exists(a, H[k])
                        /\ H[k + 1] = NextHeader(a, H[k])
  BY <1>1, FileHeaderIs
<1> DEFINE Behind(x) == \A y : Exists(a, y) /\ Before(s, y) /\ ~Before(x, y)
                                => ~BlockAt(a, y).first
           S == {k \in Nat : Behind(H[k])}
<1>3. 0 \in S
  BY <1>2 DEF FirstHeader, Before
<1>4. ASSUME NEW k \in Nat, k \in S PROVE k + 1 \in S
  <2>1. PICK x \in Headers : x = H[k] /\ Exists(a, x) /\ H[k + 1] = NextHeader(a, x)
    BY <1>2
  <2>2. Behind(x)
    BY <1>4, <2>1
  <2>3. ASSUME NEW y, Exists(a, y), Before(s, y), ~Before(NextHeader(a, x), y)
        PROVE  ~BlockAt(a, y).first
    <3>1. CASE ~GoesOn(a, x) \/ ~Before(x, y)
      BY <2>2, <2>3, <3>1 DEF NextHeader
    <3>2. CASE GoesOn(a, x) /\ Before(x, y)
      <4>1. PICK z : z = After(a, x)
        OBVIOUS
      <4>2. ~Before(z, y)
        BY <2>1, <2>3, <3>2, <4>1, NextType DEF Before
      <4>3. y.num = z.num /\ y.blk = z.blk
        <5>1. x.num \in Nat /\ x.blk \in Nat /\ x.num < Len(a)
          BY ONLY <2>1, IsArchive(a), BlockType
        <5>2. \/ y.num = After(a, x).num /\ y.blk = After(a, x).blk
              \/ Before(After(a, x), y)
          BY ONLY <2>3, <3>2, <5>1, IsArchive(a), Adjacent
        <5>3. QED
          BY ONLY <4>1, <4>2, <5>2
      <4>4. ~a[z.num + 1].blocks[z.blk].first
        BY <3>2, <4>1 DEF GoesOn
      <4>5. QED
        BY <4>3, <4>4 DEF BlockAt
    <3>3. QED
      BY <3>1, <3>2
  <2>4. QED
    BY <2>1, <2>3
<1> HIDE DEF S
<1>5. \A k \in Nat : k \in S
  BY ONLY <1>3, <1>4, Inductive
<1>6. QED
  BY <1>1, <1>5 DEF S
-----------------------------------------------------------------------------
(* Seek from the current position takes the offset in the volume for it:   *)
(* it is left out.                                                         *)
NotFromCurrent == "current" \notin Whences

(* writeToN leaves out what a volume has lost, or a writer does not take,  *)
(* and goes on: it is looked at where nothing is lost and writers do not   *)
(* fail.                                                                   *)
WholeToWrite ==
  \A m \in Modes : "write" \in m.ops =>
    /\ "failing" \notin m.ops
    /\ \A a \in m.archives : \A x \in Places(a) : BlockAt(a, x).have = BlockAt(a, x).size

(* A stream ends where a block in it ends too early, and reading over it   *)
(* says so by EOF: nothing is behind it.                                   *)
CutAtEnd ==
  \A m \in Modes : ~m.seekable =>
    \A a \in m.archives : \A x \in Places(a), y \in Places(a) :
      BlockAt(a, x).have < BlockAt(a, x).size => ~Before(x, y)

Running == Ready \/ pc # "idle"

TypeInv ==
  /\ mode \in Modes /\ arc \in mode.archives
  /\ num \in 0 .. Len(arc) - 1 /\ blk \in Nat /\ j \in Nat /\ n \in Nat
  /\ pc \in {"idle", "read", "write", "write2", "skip", "next"}
  /\ want \in Int /\ pos \in Nat /\ stopped \in BOOLEAN

(* The header and the list of blocks are those of the file. *)
FileInv ==
  \/ /\ h = NoHeader /\ ~mode.opened /\ blocks = <<>>
     /\ start = [num |-> 0, blk |-> 0]
  \/ /\ h # NoHeader
     /\ start \in [num : Nat, blk : Nat] /\ Exists(arc, start)
     /\ h.blocknum \in Nat /\ h = FileHeader(arc, start)[h.blocknum]
     /\ Len(blocks) \in Nat
     /\ \A i \in 1 .. Len(blocks) :
          /\ blocks[i] = FileHeader(arc, start)[i - 1]
          /\ FileHeader(arc, start)[i - 1].blocknum = i - 1

(* As long as calls can be made the volume is at the block of the header,  *)
(* and no byte of it is missing.                                           *)
PlaceInv ==
  Running =>
    \/ /\ h = NoHeader /\ num = 0 /\ blk = 0 /\ j = 0 /\ n = 0
       /\ pc \in {"idle", "skip", "next"}
    \/ /\ h # NoHeader /\ num = h.num /\ blk = h.blk
       /\ j + n = Block(h).size
       /\ pc \notin {"skip", "next"} => pos = h.packedOff + j

CallInv ==
  /\ pc # "idle" => ~stopped /\ ret = "nil"
  /\ pc = "read" => want > 0
  /\ pc \in {"write", "write2"} => want # 0 /\ "write" \in mode.ops
  /\ pc = "write2" => n = 0
  /\ h = NoHeader => ret # "EOF" \/ stopped

IInv ==
  /\ TypeInv /\ FileInv /\ PlaceInv /\ CallInv
  /\ DataInOrder /\ (CutAtEnd => EndIsTheEnd)
-----------------------------------------------------------------------------
(* The archive that is read. *)
LEMMA ArcIs ==
  ASSUME TypeInv
  PROVE  /\ IsArchive(arc) /\ (mode.files \/ Len(arc) = 1) /\ Len(arc) \in Nat \ {0}
         /\ num \in Nat /\ num < Len(arc)
<1>1. IsArchive(arc) /\ (mode.files \/ Len(arc) = 1)
  BY ArchiveAssumption DEF TypeInv
<1>2. Len(arc) \in Nat \ {0}
  BY <1>1 DEF IsArchive
<1>3. QED
  BY <1>1, <1>2 DEF TypeInv

(* The current block. *)
LEMMA HeaderIs ==
  ASSUME TypeInv, FileInv, h # NoHeader
  PROVE  /\ h \in Headers /\ Exists(arc, h) /\ Block(h) = BlockAt(arc, h)
         /\ Block(h).size \in Nat /\ Block(h).have \in 0 .. Block(h).size
         /\ start \in [num : Nat, blk : Nat] /\ Exists(arc, start)
         /\ h.blocknum \in Nat /\ h = FileHeader(arc, start)[h.blocknum]
<1>1. /\ start \in [num : Nat, blk : Nat] /\ Exists(arc, start)
      /\ h.blocknum \in Nat /\ h = FileHeader(arc, start)[h.blocknum]
  BY DEF FileInv
<1>2. h \in Headers /\ Exists(arc, h)
  <2>1. IsArchive(arc)
    BY ArcIs
  <2>2. PICK k \in Nat : h = FileHeader(arc, start)[k]
    BY ONLY <1>1
  <2>3. FileHeader(arc, start)[k] \in Headers /\ Exists(arc, FileHeader(arc, start)[k])
    BY ONLY <1>1, <2>1, FileHeaderIs
  <2>4. QED
    BY ONLY <2>2, <2>3
<1>3. Block(h) = BlockAt(arc, h)
  BY DEF Block, BlocksOf, BlockAt
<1>4. BlockAt(arc, h).size \in Nat /\ BlockAt(arc, h).have \in 0 .. BlockAt(arc, h).size
  BY <1>2, ArcIs, BlockType
<1>5. QED
  BY <1>1, <1>2, <1>3, <1>4

(* The volume goes on with the next block, and an end of the archive that  *)
(* it reports is one, or a block that has lost bytes.                      *)
LEMMA MoveOn ==
  ASSUME TypeInv, n > 0 => Exists(arc, Here), NEW x, x = VolumeNext
  PROVE  /\ x.num \in 0 .. Len(arc) - 1 /\ {x.blk, x.j, x.n} \subseteq Nat
         /\ x.err \in {"nil", "EOF", "ErrUnexpectedEOF", "ErrMultiVolume",
                       "errVolumeOrArchiveEnd", "ErrNotExist"}
         /\ x.err = "nil" =>
              /\ Exists(arc, x) /\ x.num = After(arc, Here).num /\ x.blk = After(arc, Here).blk
              /\ x.j = 0 /\ x.n = Block(x).size
         /\ x.err \in {"EOF", "errVolumeOrArchiveEnd"} =>
              \/ n > 0 /\ j + n > Block(Here).have /\ ~mode.seekable
              \/ \A y : Exists(arc, y) => ~Before(Here, y)
<1>1. /\ num \in Nat /\ num < Len(arc) /\ Len(arc) \in Nat /\ blk \in Nat
      /\ j \in Nat /\ n \in Nat /\ IsArchive(arc) /\ (mode.files \/ Len(arc) = 1)
  BY ArcIs DEF TypeInv
<1>2. Here.num = num /\ Here.blk = blk
  BY DEF Here
<1>3. PICK l \in Nat : l = Len(BlocksOf(num))
  BY <1>1 DEF IsArchive, BlocksOf
<1>4. CASE n > 0 /\ j + n > Block(Here).have /\ ~mode.seekable
  <2>1. x = At("EOF", num, blk, Block(Here).have, n)
    BY ONLY <1>4, x = VolumeNext DEF VolumeNext
  <2>2. Block(Here).have \in Nat
    <3>1. BlockAt(arc, Here).have \in 0 .. BlockAt(arc, Here).size /\ BlockAt(arc, Here).size \in Nat
      BY <1>1, <1>4, BlockType
    <3>2. QED
      BY <3>1 DEF Block, BlocksOf, BlockAt
  <2>3. QED
    BY ONLY <1>1, <1>4, <2>1, <2>2 DEF At
<1>5. CASE ~(n > 0 /\ j + n > Block(Here).have /\ ~mode.seekable) /\ blk < l
  <2>1. x = At("nil", num, blk + 1, 0, BlocksOf(num)[blk + 1].size)
    BY ONLY <1>3, <1>5, x = VolumeNext DEF VolumeNext
  <2>2. /\ x.err = "nil" /\ x.num = num /\ x.blk = blk + 1 /\ x.j = 0
        /\ x.n = BlocksOf(num)[blk + 1].size
    BY ONLY <2>1 DEF At
  <2>3. Exists(arc, x)
    BY ONLY <1>1, <1>3, <1>5, <2>2 DEF Exists, BlocksOf
  <2>4. x.n = Block(x).size
    BY ONLY <2>2 DEF Block
  <2>5. Block(x).size \in Nat
    BY <1>1, <2>3, BlockType DEF Block, BlocksOf, BlockAt
  <2>6. After(arc, Here).num = num /\ After(arc, Here).blk = blk + 1
    BY ONLY <1>2, <1>3, <1>5 DEF After, BlocksOf
  <2>7. QED
    BY ONLY <1>1, <2>2, <2>3, <2>4, <2>5, <2>6
<1>6. CASE ~(n > 0 /\ j + n > Block(Here).have /\ ~mode.seekable) /\ ~(blk < l)
  <2>1. x = EndOf(num)
    BY ONLY <1>3, <1>6, x = VolumeNext DEF VolumeNext
  <2> DEFINE E(e) == At(e, num, l, 0, 0)
             goes == /\ num + 1 < Len(arc)
                     /\ x = At("nil", num + 1, 1, 0, BlocksOf(num + 1)[1].size)
             ends == /\ num + 1 = Len(arc)
                     /\ x \in {E("EOF"), E("errVolumeOrArchiveEnd")}
  <2>2. arc[num + 1].end \in {"more", "last", "none", "broken"}
        /\ (arc[num + 1].end = "last" => num + 1 = Len(arc))
    BY <1>1 DEF IsArchive
  <2>3. \/ goes \/ ends
        \/ x \in {E("ErrUnexpectedEOF"), E("ErrMultiVolume"), E("ErrNotExist")}
    <3>1. PICK e : e = arc[num + 1].end
      OBVIOUS
    <3>3. CASE e = "last"
      BY ONLY <1>3, <2>1, <2>2, <3>1, <3>3 DEF EndOf
    <3>4. CASE e = "broken"
      BY ONLY <1>3, <2>1, <3>1, <3>4 DEF EndOf
    <3>5. CASE e \in {"more", "none"} /\ ~mode.files
      <4>1. num + 1 = Len(arc)
        <5>1. Len(arc) = 1
          BY ONLY Zenon, <1>1, <3>5
        <5>2. QED
          BY ONLY <1>1, <5>1
      <4>2. CASE e = "more"
        <5>1. x = E("ErrMultiVolume")
          BY ONLY <1>3, <2>1, <3>1, <3>5, <4>2 DEF EndOf
        <5>2. QED
          BY ONLY <5>1
      <4>3. CASE e = "none"
        <5>1. x = E("errVolumeOrArchiveEnd")
          BY ONLY <1>3, <2>1, <3>1, <3>5, <4>3 DEF EndOf
        <5>2. QED
          BY ONLY <4>1, <5>1
      <4>4. QED
        BY <3>5, <4>2, <4>3
    <3>6. CASE e \in {"more", "none"} /\ mode.files
      BY ONLY <1>1, <1>3, <2>1, <3>1, <3>6 DEF EndOf
    <3>7. QED
      BY <2>2, <3>1, <3>3, <3>4, <3>5, <3>6
  <2>4. CASE goes
    <3>1. /\ x.err = "nil" /\ x.num = num + 1 /\ x.blk = 1 /\ x.j = 0
          /\ x.n = BlocksOf(num + 1)[1].size
      BY ONLY <2>4 DEF At
    <3>2. Len(BlocksOf(num + 1)) \in Nat /\ Len(BlocksOf(num + 1)) > 0
      <4>1. PICK k \in 1 .. Len(arc) : k = num + 2 /\ k > 1 /\ k = (num + 1) + 1
        BY <1>1, <2>4
      <4>2. Len(arc[k].blocks) \in Nat /\ Len(arc[k].blocks) > 0
        BY <1>1, <4>1 DEF IsArchive
      <4>3. QED
        BY <4>1, <4>2 DEF BlocksOf
    <3>3. Exists(arc, x)
      BY ONLY <1>1, <2>4, <3>1, <3>2 DEF Exists, BlocksOf
    <3>4. x.n = Block(x).size
      BY ONLY <3>1 DEF Block
    <3>5. Block(x).size \in Nat
      BY <1>1, <3>3, BlockType DEF Block, BlocksOf, BlockAt
    <3>6. After(arc, Here).num = num + 1 /\ After(arc, Here).blk = 1
      BY ONLY <1>2, <1>3, <1>6 DEF After, BlocksOf
    <3>7. QED
      BY ONLY <1>1, <2>4, <3>1, <3>3, <3>4, <3>5, <3>6
  <2>5. CASE ends
    <3>1. ASSUME NEW y, Exists(arc, y), Before(Here, y) PROVE FALSE
      <4>1. /\ y.num \in Nat /\ y.num + 1 \in 1 .. Len(arc)
            /\ y.blk \in Nat /\ y.blk <= Len(arc[y.num + 1].blocks)
        BY <1>1, <3>1, BlockType
      <4>2. num = y.num /\ blk < y.blk
        BY ONLY <1>1, <1>2, <2>5, <3>1, <4>1 DEF Before
      <4>3. QED
        BY ONLY <1>1, <1>3, <1>6, <4>1, <4>2 DEF BlocksOf
    <3>2. x.num = num /\ x.blk = l /\ x.j = 0 /\ x.n = 0 /\ x.err \in {"EOF", "errVolumeOrArchiveEnd"}
      BY ONLY <2>5 DEF At
    <3>3. QED
      BY ONLY <1>1, <1>3, <3>1, <3>2
  <2>6. CASE x \in {E("ErrUnexpectedEOF"), E("ErrMultiVolume"), E("ErrNotExist")}
    <3>1. /\ x.num = num /\ x.blk = l /\ x.j = 0 /\ x.n = 0
          /\ x.err \in {"ErrUnexpectedEOF", "ErrMultiVolume", "ErrNotExist"}
      BY ONLY <2>6 DEF At
    <3>2. QED
      BY ONLY <1>1, <1>3, <3>1
  <2>7. QED
    BY ONLY Zenon, <2>3, <2>4, <2>5, <2>6
<1>7. QED
  BY <1>3, <1>4, <1>5, <1>6
-----------------------------------------------------------------------------
(* A step that gives the caller nothing. *)
LEMMA Quiet == got' = Nothing => DataInOrder'
<1> SUFFICES ASSUME got' = Nothing PROVE DataInOrder'
  OBVIOUS
<1>1. Len(got'.data) = 0
  BY DEF Nothing
<1>2. QED
  BY <1>1 DEF DataInOrder

(* A step that stays in the block. *)
LEMMA FileKept ==
  ASSUME FileInv, UNCHANGED <<h, blocks, start, arc, mode>>
  PROVE  FileInv'
BY DEF FileInv

(* A call that fails. *)
LEMMA Fails ==
  ASSUME FileInv, UNCHANGED <<h, blocks, start, arc, mode>>, TypeInv',
         pc' = "idle", ret' \notin {"nil", "EOF", "ErrInvalid"}, got' = Nothing
  PROVE  IInv'
<1>1. FileInv'
  BY FileKept
<1>2. ~Running'
  BY DEF Running, Ready
<1>3. PlaceInv' /\ CallInv' /\ EndIsTheEnd'
  BY <1>2 DEF PlaceInv, CallInv, EndIsTheEnd
<1>4. QED
  BY <1>1, <1>3, Quiet DEF IInv

(* The next block of the file: what its header is. *)
LEMMA NextOfFile ==
  ASSUME TypeInv, FileInv, h # NoHeader, GoesOn(arc, h), NEW b,
         b = [num |-> After(arc, h).num, blk |-> After(arc, h).blk,
              packedOff |-> h.packedOff + Block(h).size, blocknum |-> h.blocknum + 1],
         h' = b, blocks' = addBlock(b), UNCHANGED <<mode, arc, start>>
  PROVE  FileInv' /\ h' # NoHeader
<1>1. /\ h \in Headers /\ Block(h) = BlockAt(arc, h) /\ IsArchive(arc)
      /\ start \in [num : Nat, blk : Nat] /\ Exists(arc, start)
      /\ h.blocknum \in Nat /\ h = FileHeader(arc, start)[h.blocknum]
  BY ArcIs, HeaderIs
<1> DEFINE H == FileHeader(arc, start)
<1>2. PICK k \in Nat : k = h.blocknum
  BY <1>1
<1>3. H[k + 1] = NextHeader(arc, h)
  <2>1. FileHeader(arc, start)[k + 1] = NextHeader(arc, FileHeader(arc, start)[k])
    BY ONLY <1>1, <1>2, FileHeaderIs
  <2>2. QED
    BY ONLY <1>1, <1>2, <2>1
<1>4. NextHeader(arc, h) = b
  BY ONLY <1>1, GoesOn(arc, h),
     b = [num |-> After(arc, h).num, blk |-> After(arc, h).blk,
          packedOff |-> h.packedOff + Block(h).size, blocknum |-> h.blocknum + 1]
  DEF NextHeader
<1>5. b.blocknum = k + 1 /\ b = H[k + 1]
  BY ONLY <1>2, <1>3, <1>4,
     b = [num |-> After(arc, h).num, blk |-> After(arc, h).blk,
          packedOff |-> h.packedOff + Block(h).size, blocknum |-> h.blocknum + 1]
<1>6. b # NoHeader
  BY <1>2, <1>5 DEF NoHeader
<1>7. PICK m \in Nat : m = Len(blocks)
  BY DEF FileInv
<1>8. \A i \in 1 .. m : blocks[i] = H[i - 1] /\ H[i - 1].blocknum = i - 1
  BY <1>2, <1>7 DEF FileInv
<1>9. /\ Len(blocks') \in Nat
      /\ \A i \in 1 .. Len(blocks') : blocks'[i] = H[i - 1] /\ H[i - 1].blocknum = i - 1
  <2>1. CASE m = b.blocknum
    <3>1. blocks' = Append(blocks, b)
      BY <1>7, <2>1 DEF addBlock
    <3>2. Len(blocks') = m + 1 /\ blocks'[m + 1] = b /\ \A i \in 1 .. m : blocks'[i] = blocks[i]
      BY <1>7, <3>1
    <3>3. QED
      BY ONLY <1>5, <1>8, <2>1, <3>2, m \in Nat, k \in Nat
  <2>2. CASE m # b.blocknum
    BY <1>7, <1>8, <2>2 DEF addBlock
  <2>3. QED
    BY <2>1, <2>2
<1>10. QED
  <2>1. H = FileHeader(arc, start)' /\ h' = b
    OBVIOUS
  <2>2. start' \in [num : Nat, blk : Nat] /\ Exists(arc, start)'
    BY <1>1 DEF Exists
  <2>3. QED
    BY <1>2, <1>5, <1>6, <1>9, <2>1, <2>2 DEF FileInv

(* A call goes on with the next block, or ends. *)
LEMMA NextBlockStep ==
  ASSUME TypeInv, FileInv, PlaceInv, CallInv,
         pc \in {"read", "write2", "skip"}, pc = "skip" \/ n = 0,
         NEW go, go = (IF pc = "write2" THEN "write" ELSE pc),
         nextBlock(go), got' = Nothing, UNCHANGED <<mode, arc, start, pos>>
  PROVE  IInv'
<1>1. /\ ~stopped /\ ret = "nil" /\ Running
      /\ pc # "skip" => h # NoHeader
  BY DEF CallInv, Running, PlaceInv
<1>2. CASE AtLastBlock
  <2>1. Ends("EOF") /\ UNCHANGED <<v, f>>
    BY ONLY Zenon, <1>2, nextBlock(go) DEF nextBlock
  <2>2. UNCHANGED <<num, blk, j, n, h, blocks>>
    BY <2>1 DEF v, f
  <2>3. FileInv'
    BY <2>2, FileKept
  <2>4. CASE pc # "skip"
    <3>1. /\ pc' = "idle" /\ want' = 0 /\ ret' \in {"nil", "EOF"} /\ UNCHANGED stopped
      BY <2>1, <2>4 DEF Ends, Returns
    <3>2. TypeInv'
      BY <2>2, <3>1 DEF TypeInv
    <3>3. /\ num = h.num /\ blk = h.blk /\ j + n = Block(h).size /\ pos = h.packedOff + j
          /\ h # NoHeader
      BY <1>1, <2>4 DEF PlaceInv
    <3>4. PlaceInv'
      BY <2>2, <3>3 DEF PlaceInv, Block, BlocksOf
    <3>5. CallInv'
      BY <2>2, <3>1, <3>3 DEF CallInv
    <3>6. EndIsTheEnd'
      <4>1. /\ h \in Headers /\ h = FileHeader(arc, start)[h.blocknum]
        BY <3>3, HeaderIs
      <4>2. Block(h).last
        BY <1>2, <3>3 DEF AtLastBlock
      <4>3. pos = h.packedOff + Block(h).size
        BY <2>4, <3>3 DEF TypeInv
      <4>4. QED
        BY <1>1, <2>2, <3>1, <4>1, <4>2, <4>3 DEF EndIsTheEnd, Block, BlocksOf
    <3>7. QED
      BY <2>3, <3>2, <3>4, <3>5, <3>6, Quiet DEF IInv
  <2>5. CASE pc = "skip"
    <3>1. pc' = "next" /\ ret' = "nil" /\ stopped' = FALSE /\ UNCHANGED want
      BY <2>1, <2>5 DEF Ends
    <3>2. TypeInv'
      BY <2>2, <3>1 DEF TypeInv
    <3>3. PlaceInv'
      BY <1>1, <2>2, <3>1 DEF PlaceInv, Block, BlocksOf
    <3>4. CallInv' /\ EndIsTheEnd'
      BY <3>1 DEF CallInv, EndIsTheEnd
    <3>5. QED
      BY <2>3, <3>2, <3>3, <3>4, Quiet DEF IInv
  <2>6. QED
    BY <2>4, <2>5
<1>3. CASE ~AtLastBlock
  <2>1. h # NoHeader /\ ~Block(h).last
    BY <1>3 DEF AtLastBlock
  <2>2. num = h.num /\ blk = h.blk /\ j + n = Block(h).size
        /\ (pc # "skip" => pos = h.packedOff + j)
    BY <1>1, <2>1 DEF PlaceInv
  <2>3. /\ h \in Headers /\ Exists(arc, h) /\ Block(h) = BlockAt(arc, h)
        /\ Block(h).size \in Nat /\ h.blocknum \in Nat
    BY <2>1, HeaderIs
  <2>4. PICK x : x = VolumeNext
    OBVIOUS
  <2> DEFINE e == NextBlockError(x.err, x)
             b == [num |-> x.num, blk |-> x.blk,
                   packedOff |-> h.packedOff + Block(h).size, blocknum |-> h.blocknum + 1]
  <2>5. /\ MoveTo(x)
        /\ \/ /\ e = "nil" /\ h' = b /\ blocks' = addBlock(b) /\ pc' = go
              /\ UNCHANGED <<want, ret, stopped>>
           \/ e # "nil" /\ Ends(e) /\ UNCHANGED f
    BY ONLY <1>3, <2>4, nextBlock(go) DEF nextBlock
  <2>6. Exists(arc, Here) /\ After(arc, Here) = After(arc, h)
    BY ONLY <2>2, <2>3 DEF Exists, Here, After
  <2>7. /\ x.num \in 0 .. Len(arc) - 1 /\ {x.blk, x.j, x.n} \subseteq Nat
        /\ x.err \in {"nil", "EOF", "ErrUnexpectedEOF", "ErrMultiVolume",
                      "errVolumeOrArchiveEnd", "ErrNotExist"}
        /\ x.err = "nil" =>
             /\ Exists(arc, x) /\ x.num = After(arc, h).num /\ x.blk = After(arc, h).blk
             /\ x.j = 0 /\ x.n = Block(x).size
    BY ONLY <2>4, <2>6, TypeInv, MoveOn
  <2>8. num' = x.num /\ blk' = x.blk /\ j' = x.j /\ n' = x.n
    BY <2>5 DEF MoveTo
  <2>9. CASE e = "nil"
    <3>1. x.err = "nil" /\ ~Block(x).first /\ Block(x).name = Block(h).name
      BY <2>7, <2>9 DEF NextBlockError
    <3>2. /\ h' = b /\ blocks' = addBlock(b) /\ pc' = go /\ UNCHANGED <<want, ret, stopped>>
      BY <2>5, <2>9
    <3>3. /\ Exists(arc, x) /\ x.num = After(arc, h).num /\ x.blk = After(arc, h).blk
          /\ x.j = 0 /\ x.n = Block(x).size
      BY <2>7, <3>1
    <3>4. GoesOn(arc, h)
      BY ONLY <2>1, <3>1, <3>3 DEF GoesOn, Block, BlocksOf, Exists
    <3>5. b = [num |-> After(arc, h).num, blk |-> After(arc, h).blk,
               packedOff |-> h.packedOff + Block(h).size, blocknum |-> h.blocknum + 1]
      BY <3>3
    <3> HIDE DEF b
    <3>6. FileInv' /\ h' # NoHeader
      BY ONLY TypeInv, FileInv, <2>1, <3>2, <3>4, <3>5, UNCHANGED <<mode, arc, start, pos>>,
         NextOfFile
    <3>7. /\ h'.num = x.num /\ h'.blk = x.blk
          /\ h'.packedOff = h.packedOff + Block(h).size
      BY <3>2 DEF b
    <3>8. TypeInv'
      BY <1>1, <2>7, <2>8, <3>2 DEF TypeInv
    <3>9. PlaceInv'
      <4>1. Block(h)' = Block(x)
        BY ONLY <3>7, UNCHANGED <<mode, arc, start, pos>> DEF Block, BlocksOf
      <4>2. j' = 0 /\ n' = (Block(h)').size /\ (Block(h)').size \in Nat
        BY ONLY <2>7, <2>8, <3>3, <4>1
      <4>3. pc # "skip" => pos' = h'.packedOff + j'
        BY ONLY <2>2, <2>3, <3>7, <4>2, pc = "skip" \/ n = 0, TypeInv,
           UNCHANGED <<mode, arc, start, pos>> DEF TypeInv, Headers
      <4>4. pc' \notin {"skip", "next"} => pc # "skip"
        BY ONLY <3>2, go = (IF pc = "write2" THEN "write" ELSE pc)
      <4>5. num' = h'.num /\ blk' = h'.blk /\ j' + n' = (Block(h)').size
        BY ONLY <2>8, <3>7, <4>2
      <4>6. QED
        BY ONLY <3>6, <4>3, <4>4, <4>5 DEF PlaceInv
    <3>10. CallInv' /\ EndIsTheEnd'
      BY <1>1, <3>2, <3>6 DEF CallInv, EndIsTheEnd
    <3>11. QED
      BY <3>6, <3>8, <3>9, <3>10, Quiet DEF IInv
  <2>10. CASE e # "nil"
    <3>1. e \notin {"nil", "EOF", "ErrInvalid"}
      BY <2>7, <2>10 DEF NextBlockError
    <3>2. Ends(e) /\ UNCHANGED <<h, blocks>>
      BY <2>5, <2>10 DEF f
    <3> HIDE DEF e
    <3>3. /\ pc' = "idle" /\ want' \in Int /\ stopped' \in BOOLEAN /\ ret' = e
      <4>1. e # "EOF"
        BY ONLY <3>1
      <4>2. /\ pc' = "idle" /\ ret' = e /\ (want' = 0 \/ want' = want)
            /\ stopped' = stopped \/ stopped' = (e # "EOF")
        BY ONLY Zenon, <3>2, <4>1 DEF Ends, Returns
      <4>3. stopped' \in BOOLEAN
        BY ONLY Zenon, <4>2, TypeInv DEF TypeInv
      <4>4. QED
        BY ONLY <4>2, <4>3, TypeInv DEF TypeInv
    <3>4. TypeInv'
      BY <2>7, <2>8, <3>3 DEF TypeInv
    <3>5. QED
      BY <3>1, <3>2, <3>3, <3>4, Fails
  <2>11. QED
    BY <2>9, <2>10
<1>4. QED
  BY <1>2, <1>3

(* The places of an archive are those where a block is. *)
LEMMA PlacesAre ==
  ASSUME NEW a
  PROVE  /\ \A y \in Places(a) : Exists(a, y) /\ y = [num |-> y.num, blk |-> y.blk]
         /\ \A x : Exists(a, x) => [num |-> x.num, blk |-> x.blk] \in Places(a)
<1>1. ASSUME NEW y \in Places(a)
      PROVE  Exists(a, y) /\ y = [num |-> y.num, blk |-> y.blk]
  <2>1. PICK k \in 0 .. Len(a) - 1 : \E i \in 1 .. Len(a[k + 1].blocks) :
          y = [num |-> k, blk |-> i]
    BY DEF Places
  <2>2. QED
    BY <2>1 DEF Exists
<1>2. ASSUME NEW x, Exists(a, x) PROVE [num |-> x.num, blk |-> x.blk] \in Places(a)
  <2>1. x.num \in 0 .. Len(a) - 1 /\ x.blk \in 1 .. Len(a[x.num + 1].blocks)
    BY <1>2 DEF Exists
  <2>2. PICK k, i : k = x.num /\ i = x.blk
    OBVIOUS
  <2>3. [num |-> k, blk |-> i] \in {[num |-> k, blk |-> c] : c \in 1 .. Len(a[k + 1].blocks)}
    BY <2>1, <2>2
  <2>4. QED
    BY <2>1, <2>2, <2>3 DEF Places
<1>3. QED
  BY <1>1, <1>2

(* Bytes of the block go to the caller. *)
LEMMA DeliverStep ==
  ASSUME TypeInv, FileInv, PlaceInv, pc \notin {"idle", "skip", "next"},
         NEW k \in Nat, k <= n, k = 0 \/ j + k <= Block(Here).have,
         Deliver(k), UNCHANGED <<h, blocks>>
  PROVE  /\ FileInv' /\ DataInOrder'
         /\ num' \in 0 .. Len(arc) - 1 /\ blk' \in Nat /\ j' \in Nat /\ n' \in Nat /\ pos' \in Nat
         /\ h' # NoHeader /\ num' = h'.num /\ blk' = h'.blk
         /\ j' + n' = (Block(h)').size /\ pos' = h'.packedOff + j'
         /\ n' = n - k /\ UNCHANGED <<mode, arc, start>>
<1>1. /\ got' = [at |-> pos, data |-> [i \in 1 .. k |-> <<num, blk, j + i>>]]
      /\ j' = j + k /\ n' = n - k /\ pos' = pos + k
      /\ UNCHANGED <<num, blk, mode, arc, start, h, blocks>>
  BY DEF Deliver
<1>2. /\ h # NoHeader /\ num = h.num /\ blk = h.blk /\ j + n = Block(h).size
      /\ pos = h.packedOff + j
  BY DEF PlaceInv, Running
<1>3. /\ h \in Headers /\ h.blocknum \in Nat /\ h = FileHeader(arc, start)[h.blocknum]
      /\ Block(h).size \in Nat
  BY <1>2, HeaderIs
<1>4. FileInv'
  BY <1>1, FileKept
<1>5. (Block(h))' = Block(h) /\ Block(Here) = Block(h)
  BY ONLY <1>1, <1>2 DEF Block, BlocksOf, Here
<1>6. DataInOrder'
  <2>1. PICK d : d = [i \in 1 .. k |-> <<num, blk, j + i>>]
    OBVIOUS
  <2>2. d \in Seq(Int \X Nat \X Nat) /\ Len(d) = k
    <3>1. num \in Int /\ blk \in Nat /\ j \in Nat
      BY ArcIs DEF TypeInv
    <3>2. \A i \in 1 .. k : <<num, blk, j + i>> \in Int \X Nat \X Nat
      BY ONLY <3>1, k \in Nat
    <3>3. QED
      BY ONLY <2>1, <3>2, k \in Nat
  <2>3. got'.data = d /\ got'.at = pos
    BY <1>1, <2>1
  <2>4. ASSUME NEW i \in 1 .. k
        PROVE  /\ d[i][1] = h.num /\ d[i][2] = h.blk
               /\ d[i][3] \in 1 .. Block(h).have
               /\ h.packedOff + d[i][3] = pos + i
    <3>1. d[i] = <<num, blk, j + i>>
      BY <2>1
    <3>2. j + i \in 1 .. Block(h).have
      <4>1. Block(h).have \in Nat
        BY <1>2, HeaderIs
      <4>2. j + k <= Block(h).have
        BY <1>5, <2>4
      <4>3. QED
        BY ONLY <2>4, <4>1, <4>2, k \in Nat, TypeInv DEF TypeInv
    <3>3. h.packedOff + (j + i) = pos + i
      BY ONLY <1>2, <1>3, <2>4, k \in Nat, TypeInv DEF TypeInv, Headers
    <3>4. QED
      BY ONLY <1>2, <3>1, <3>2, <3>3
  <2>5. PICK m : m = h.blocknum /\ m \in 0 .. m /\ FileHeader(arc, start)[m] = h
    BY <1>3
  <2>6. ASSUME NEW i \in 1 .. Len(got'.data)
        PROVE  \E q \in 0 .. h'.blocknum :
                 ByteOf(arc', FileHeader(arc', start')[q], got'.data[i], got'.at + i)
    <3>1. i \in 1 .. k /\ got'.data[i] = d[i] /\ got'.at = pos
      BY <2>2, <2>3
    <3>2. m \in 0 .. h'.blocknum /\ FileHeader(arc', start')[m] = h
      BY ONLY <1>1, <2>5
    <3>3. ByteOf(arc', h, d[i], pos + i)
      <4>1. Block(h) = BlockAt(arc', h)
        BY ONLY <1>1 DEF Block, BlocksOf, BlockAt
      <4>2. QED
        BY <2>4, <3>1, <4>1 DEF ByteOf
    <3>4. QED
      BY ONLY <3>1, <3>2, <3>3
  <2>7. QED
    BY <2>6 DEF DataInOrder, ByteOf, BlockAt, Block, BlocksOf
<1>7. QED
  <2>1. j + k \in Nat /\ n - k \in Nat /\ pos + k \in Nat /\ (j + k) + (n - k) = j + n
        /\ pos + k = h.packedOff + (j + k)
    BY ONLY <1>2, <1>3, TypeInv, k \in Nat, k <= n DEF TypeInv, Headers
  <2>2. QED
    BY <1>1, <1>2, <1>4, <1>5, <1>6, <2>1 DEF TypeInv
-----------------------------------------------------------------------------
(* A step in which nothing moves, but for the call. *)
LEMMA CallKeeps ==
  ASSUME TypeInv, FileInv, PlaceInv, Ready,
         NEW op \in {"read", "write", "skip"}, NEW p \in Int, Call(op, p),
         op # "skip" => h # NoHeader,
         op = "read" => p > 0,
         op = "write" => p # 0 /\ "write" \in mode.ops
  PROVE  IInv'
<1>1. /\ pc' = op /\ want' = p /\ ret' = "nil" /\ got' = Nothing
      /\ UNCHANGED <<mode, arc, num, blk, j, n, h, offset, blocks, start, pos, stopped>>
  BY DEF Call, v, f
<1>2. TypeInv'
  BY <1>1 DEF TypeInv
<1>3. FileInv'
  BY <1>1, FileKept
<1>4. PlaceInv'
  BY <1>1 DEF PlaceInv, Running, Ready, Block, BlocksOf
<1>5. CallInv' /\ EndIsTheEnd'
  BY <1>1 DEF CallInv, EndIsTheEnd, Ready
<1>6. QED
  BY <1>1, <1>2, <1>3, <1>4, <1>5, Quiet DEF IInv

(* A call begins. *)
LEMMA CallStep ==
  ASSUME IInv, nextFile \/ Read(2) \/ ReadByte \/ writeToN(2) \/ writeToN(-1)
  PROVE  IInv'
<1>1. TypeInv /\ FileInv /\ PlaceInv
  BY DEF IInv
<1>2. CASE nextFile
  BY <1>1, <1>2, CallKeeps DEF nextFile, Call
<1>3. CASE Read(2)
  BY <1>1, <1>3, CallKeeps DEF Read, Call
<1>4. CASE ReadByte
  BY <1>1, <1>4, CallKeeps DEF ReadByte, Call
<1>5. CASE writeToN(2)
  BY <1>1, <1>5, CallKeeps DEF writeToN, Call
<1>6. CASE writeToN(-1)
  BY <1>1, <1>6, CallKeeps DEF writeToN, Call
<1>7. QED
  BY <1>2, <1>3, <1>4, <1>5, <1>6

(* Read and ReadByte. *)
LEMMA ReadKeeps ==
  ASSUME IInv, ReadStep
  PROVE  IInv'
<1>1. TypeInv /\ FileInv /\ PlaceInv /\ CallInv /\ pc = "read" /\ want > 0
      /\ ~stopped /\ ret = "nil"
  BY DEF IInv, ReadStep, CallInv
<1>2. /\ h # NoHeader /\ num = h.num /\ blk = h.blk /\ j + n = Block(h).size
      /\ Block(Here) = Block(h)
  BY <1>1 DEF PlaceInv, Running, Block, BlocksOf, Here
<1>3. Block(h).have \in Nat
  BY <1>1, <1>2, HeaderIs
<1>4. CASE /\ n > 0 /\ j < Block(Here).have
           /\ \E k \in 1 .. Smaller(want, Smaller(n, Block(Here).have - j)) :
                Deliver(k) /\ offset' = offset + k
           /\ Returns("nil")
           /\ UNCHANGED <<h, blocks>>
  <2>1. PICK k \in 1 .. Smaller(want, Smaller(n, Block(Here).have - j)) : Deliver(k)
    BY <1>4
  <2>2. k \in Nat /\ k <= n /\ j + k <= Block(Here).have
    BY ONLY <1>1, <1>2, <1>3, <2>1 DEF Smaller, TypeInv
  <2>3. pc' = "idle" /\ want' = 0 /\ ret' = "nil" /\ UNCHANGED stopped
    BY <1>4 DEF Returns
  <2>4. /\ FileInv' /\ DataInOrder'
        /\ num' \in 0 .. Len(arc) - 1 /\ blk' \in Nat /\ j' \in Nat /\ n' \in Nat /\ pos' \in Nat
        /\ h' # NoHeader /\ num' = h'.num /\ blk' = h'.blk
        /\ j' + n' = (Block(h)').size /\ pos' = h'.packedOff + j'
        /\ n' = n - k /\ UNCHANGED <<mode, arc, start>>
    BY <1>1, <1>4, <2>1, <2>2, DeliverStep
  <2>5. TypeInv'
    BY <1>1, <2>3, <2>4 DEF TypeInv
  <2>6. PlaceInv'
    BY ONLY <2>3, <2>4 DEF PlaceInv
  <2>7. CallInv' /\ EndIsTheEnd'
    BY ONLY <2>3 DEF CallInv, EndIsTheEnd
  <2>8. QED
    BY <2>4, <2>5, <2>6, <2>7 DEF IInv
<1>5. CASE /\ n > 0 /\ j >= Block(Here).have
           /\ Returns("ErrUnexpectedEOF") /\ got' = Nothing
           /\ UNCHANGED <<mode, arc, v, f, start, pos>>
  <2>1. /\ pc' = "idle" /\ want' = 0 /\ ret' = "ErrUnexpectedEOF" /\ got' = Nothing
        /\ UNCHANGED <<mode, arc, num, blk, j, n, h, blocks, start, pos, stopped>>
    BY <1>5 DEF Returns, v, f
  <2>2. TypeInv'
    BY <1>1, <2>1 DEF TypeInv
  <2>3. QED
    BY <1>1, <2>1, <2>2, Fails
<1>6. CASE /\ n = 0
           /\ nextBlock("read") /\ got' = Nothing
           /\ UNCHANGED <<mode, arc, start, pos>>
  BY <1>1, <1>6, NextBlockStep
<1>7. QED
  BY <1>4, <1>5, <1>6 DEF ReadStep

(* writeToN. *)
LEMMA WriteKeeps ==
  ASSUME IInv, WholeToWrite, WriteStep
  PROVE  IInv'
<1>1. TypeInv /\ FileInv /\ PlaceInv /\ CallInv /\ pc = "write" /\ want # 0
      /\ ~stopped /\ ret = "nil" /\ "write" \in mode.ops
  BY DEF IInv, WriteStep, CallInv
<1>2. /\ h # NoHeader /\ num = h.num /\ blk = h.blk /\ j + n = Block(h).size
      /\ Block(Here) = Block(h)
  BY <1>1 DEF PlaceInv, Running, Block, BlocksOf, Here
<1>3. Block(h).size \in Nat /\ Block(h).have = Block(h).size
  <2>1. PICK x : x = [num |-> h.num, blk |-> h.blk] /\ x \in Places(arc)
    BY <1>1, <1>2, HeaderIs, PlacesAre
  <2>2. BlockAt(arc, x).have = BlockAt(arc, x).size
    BY <1>1, <2>1 DEF WholeToWrite, TypeInv
  <2>3. BlockAt(arc, x) = Block(h)
    BY <2>1 DEF BlockAt, Block, BlocksOf
  <2>4. QED
    BY <1>1, <1>2, <2>2, <2>3, HeaderIs
<1> DEFINE k == Smaller(IF want < 0 THEN n ELSE want, Smaller(n, Block(Here).have - j))
           todo == IF want < 0 THEN want ELSE want - k
<1>4. /\ Deliver(k) /\ want' = todo
      /\ pc' = IF todo = 0 THEN "idle" ELSE "write2"
      /\ UNCHANGED <<h, blocks, ret, stopped>>
  <2>1. UNCHANGED <<h, blocks, ret, stopped>>
    BY DEF WriteStep, f
  <2>2. k \in Int /\ "failing" \notin mode.ops
    BY <1>1, <1>2, <1>3 DEF WholeToWrite, TypeInv, Smaller
  <2>3. PICK l \in k .. k : LET left == IF want < 0 THEN want ELSE want - l
                            IN /\ Deliver(l) /\ want' = left
                               /\ pc' = IF left = 0 THEN "idle" ELSE "write2"
    BY Zenon, <2>2 DEF WriteStep
  <2>4. l = k
    BY ONLY <2>2, l \in k .. k
  <2>5. QED
    BY ONLY Zenon, <2>1, <2>3, <2>4
<1>5. /\ k \in Nat /\ k <= n /\ j + k <= Block(Here).have
      /\ todo \in Int /\ (todo # 0 => n - k = 0)
  BY ONLY <1>1, <1>2, <1>3 DEF Smaller, TypeInv
<1> HIDE DEF k, todo
<1>6. /\ FileInv' /\ DataInOrder'
      /\ num' \in 0 .. Len(arc) - 1 /\ blk' \in Nat /\ j' \in Nat /\ n' \in Nat /\ pos' \in Nat
      /\ h' # NoHeader /\ num' = h'.num /\ blk' = h'.blk
      /\ j' + n' = (Block(h)').size /\ pos' = h'.packedOff + j'
      /\ n' = n - k /\ UNCHANGED <<mode, arc, start>>
  BY <1>1, <1>4, <1>5, DeliverStep
<1>7. TypeInv'
  BY <1>1, <1>4, <1>5, <1>6 DEF TypeInv
<1>8. PlaceInv'
  BY ONLY <1>4, <1>6 DEF PlaceInv
<1>9. CallInv' /\ EndIsTheEnd'
  BY ONLY <1>1, <1>4, <1>5, <1>6 DEF CallInv, EndIsTheEnd
<1>10. QED
  BY <1>6, <1>7, <1>8, <1>9 DEF IInv

(* The steps to the next block in writeToN and nextFile. *)
LEMMA GoOnKeeps ==
  ASSUME IInv, WriteNext \/ SkipStep
  PROVE  IInv'
<1>1. TypeInv /\ FileInv /\ PlaceInv /\ CallInv
  BY DEF IInv
<1>2. CASE WriteNext
  <2>1. /\ pc = "write2" /\ nextBlock("write") /\ got' = Nothing
        /\ UNCHANGED <<mode, arc, start, pos>>
    BY <1>2 DEF WriteNext
  <2>2. n = 0
    BY <1>1, <2>1 DEF CallInv
  <2>3. QED
    BY ONLY <1>1, <2>1, <2>2, NextBlockStep
<1>3. CASE SkipStep
  BY <1>1, <1>3, NextBlockStep DEF SkipStep
<1>4. QED
  BY <1>2, <1>3

(* Behind the last block of a file no other file starts, if the volume     *)
(* reports the end.                                                        *)
LEMMA NoFileLeft ==
  ASSUME TypeInv, FileInv, PlaceInv, CutAtEnd, pc = "next",
         VolumeNext.err \in {"EOF", "errVolumeOrArchiveEnd"},
         NEW y \in Places(arc), Before(start, y)
  PROVE  ~Block(y).first
<1>1. Exists(arc, y) /\ IsArchive(arc) /\ Block(y) = BlockAt(arc, y)
  BY PlacesAre, ArcIs DEF Block, BlocksOf, BlockAt
<1>2. PICK x : x = VolumeNext
  OBVIOUS
<1>3. CASE h = NoHeader
  <2>1. num = 0 /\ blk = 0 /\ n = 0 /\ start = [num |-> 0, blk |-> 0]
    BY <1>3 DEF PlaceInv, Running, FileInv
  <2>2. Here = start /\ ~(n > 0)
    BY ONLY <2>1 DEF Here
  <2>3. ~Before(Here, y)
    BY <1>1, <1>2, <2>2, MoveOn
  <2>4. QED
    BY <2>2, <2>3
<1>4. CASE h # NoHeader
  <2>1. num = h.num /\ blk = h.blk /\ j + n = Block(h).size
    BY <1>4 DEF PlaceInv, Running
  <2>2. /\ h \in Headers /\ Exists(arc, h) /\ Block(h) = BlockAt(arc, h)
        /\ Block(h).size \in Nat /\ Block(h).have \in 0 .. Block(h).size
        /\ start \in [num : Nat, blk : Nat] /\ Exists(arc, start)
        /\ h.blocknum \in Nat /\ h = FileHeader(arc, start)[h.blocknum]
    BY <1>4, HeaderIs
  <2>3. Exists(arc, Here) /\ Block(Here) = Block(h)
    BY ONLY <2>1, <2>2 DEF Exists, Here, Block, BlocksOf
  <2>4. \/ n > 0 /\ j + n > Block(Here).have /\ ~mode.seekable
        \/ ~Before(Here, y)
    BY <1>1, <1>2, <2>3, MoveOn
  <2>5. ~Before(h, y)
    <3>1. CASE ~Before(Here, y)
      BY ONLY <2>1, <3>1 DEF Before, Here
    <3>2. CASE n > 0 /\ j + n > Block(Here).have /\ ~mode.seekable
      <4>1. PICK z : z = [num |-> h.num, blk |-> h.blk] /\ z \in Places(arc)
        BY <2>2, PlacesAre
      <4>2. BlockAt(arc, z) = Block(h)
        BY ONLY <4>1 DEF BlockAt, Block, BlocksOf
      <4>3. BlockAt(arc, z).have < BlockAt(arc, z).size
        BY ONLY <2>1, <2>2, <2>3, <3>2, <4>2
      <4>4. ~Before(z, y)
        BY ONLY <3>2, <4>1, <4>3, TypeInv, CutAtEnd, y \in Places(arc) DEF CutAtEnd, TypeInv
      <4>5. QED
        BY ONLY <4>1, <4>4 DEF Before
    <3>3. QED
      BY <2>4, <3>1, <3>2
  <2>6. PICK k \in Nat : h = FileHeader(arc, start)[k]
    BY <2>2
  <2>7. ~Before(FileHeader(arc, start)[k], y)
    BY <2>5, <2>6
  <2>8. ~BlockAt(arc, y).first
    BY ONLY <1>1, <2>2, <2>7, k \in Nat, Before(start, y), NoOtherFile
  <2>9. QED
    BY <1>1, <2>8
<1>5. QED
  BY <1>3, <1>4

(* nextFile's last step. *)
LEMMA NextKeeps ==
  ASSUME IInv, NextStep
  PROVE  IInv'
<1>1. TypeInv /\ FileInv /\ PlaceInv /\ CallInv /\ pc = "next" /\ ~stopped
  BY DEF IInv, NextStep, CallInv
<1>2. PICK x : x = VolumeNext
  OBVIOUS
<1> DEFINE e == NextFileError(x)
<1>3. /\ MoveTo(x)
      /\ pc' = "idle" /\ ret' = e /\ stopped' = (e # "nil") /\ got' = Nothing
      /\ UNCHANGED <<mode, arc, want>>
      /\ \/ /\ e = "nil" /\ h' = FirstHeader(x) /\ blocks' = <<FirstHeader(x)>>
            /\ start' = [num |-> x.num, blk |-> x.blk] /\ pos' = 0
         \/ e # "nil" /\ UNCHANGED <<h, blocks, start, pos>>
  BY <1>2 DEF NextStep, f
<1>4. num' = x.num /\ blk' = x.blk /\ j' = x.j /\ n' = x.n
  BY <1>3 DEF MoveTo
<1>5. n > 0 => Exists(arc, Here)
  <2>1. CASE h = NoHeader
    BY <1>1, <2>1 DEF PlaceInv, Running, TypeInv
  <2>2. CASE h # NoHeader
    <3>1. num = h.num /\ blk = h.blk
      BY <1>1, <2>2 DEF PlaceInv, Running
    <3>2. Exists(arc, h)
      BY <1>1, <2>2, HeaderIs
    <3>3. QED
      BY ONLY <3>1, <3>2 DEF Exists, Here
  <2>3. QED
    BY <2>1, <2>2
<1>6. /\ x.num \in 0 .. Len(arc) - 1 /\ {x.blk, x.j, x.n} \subseteq Nat
      /\ x.err \in {"nil", "EOF", "ErrUnexpectedEOF", "ErrMultiVolume",
                    "errVolumeOrArchiveEnd", "ErrNotExist"}
      /\ x.err = "nil" => Exists(arc, x) /\ x.j = 0 /\ x.n = Block(x).size
  BY ONLY <1>1, <1>2, <1>5, MoveOn
<1>7. stopped' \in BOOLEAN
  BY ONLY Zenon, <1>3
<1>8. CASE e = "nil"
  <2>1. x.err = "nil"
    BY <1>6, <1>8 DEF NextFileError
  <2>2. Exists(arc, x) /\ x.j = 0 /\ x.n = Block(x).size /\ x.num \in Nat /\ x.blk \in Nat
    BY <1>1, <1>6, <2>1, ArcIs
  <2> DEFINE s == [num |-> x.num, blk |-> x.blk]
             x0 == FirstHeader(x)
  <2>3. /\ h' = x0 /\ blocks' = <<x0>> /\ start' = s /\ pos' = 0
        /\ ret' = "nil" /\ pc' = "idle" /\ got' = Nothing /\ UNCHANGED <<mode, arc, want>>
    BY <1>3, <1>8
  <2>4. s \in [num : Nat, blk : Nat] /\ Exists(arc, s) /\ x0 = FirstHeader(s)
    BY ONLY <2>2 DEF Exists, FirstHeader
  <2>5. FileHeader(arc, s)[0] = x0
    BY <1>1, <2>4, ArcIs, FileHeaderIs
  <2>6. x0.blocknum = 0 /\ x0.packedOff = 0 /\ x0.num = x.num /\ x0.blk = x.blk
    BY DEF FirstHeader
  <2>7. x0 # NoHeader
    BY ONLY <2>2, <2>6 DEF NoHeader
  <2> HIDE DEF s, x0
  <2>8. FileInv'
    <3>1. Exists(arc, start)'
      BY ONLY <2>3, <2>4 DEF Exists
    <3>2. Len(blocks') = 1 /\ blocks'[1] = x0
      BY ONLY <2>3
    <3>3. FileHeader(arc, start)' = FileHeader(arc, s)
      BY ONLY <2>3
    <3>4. \A i \in 1 .. Len(blocks') : i = 1 /\ i - 1 = 0
      BY ONLY <3>2
    <3>5. QED
      BY ONLY <2>3, <2>4, <2>5, <2>6, <2>7, <3>1, <3>2, <3>3, <3>4 DEF FileInv
  <2>9. TypeInv'
    BY <1>1, <1>4, <1>6, <1>7, <2>3 DEF TypeInv
  <2>10. PlaceInv'
    <3>1. (Block(h))' = Block(x)
      BY ONLY <2>3, <2>6 DEF Block, BlocksOf
    <3>2. Block(x).size \in Nat
      BY ONLY <1>6, <2>2
    <3>3. QED
      BY ONLY <1>4, <2>2, <2>3, <2>6, <2>7, <3>1, <3>2 DEF PlaceInv
  <2>11. CallInv' /\ EndIsTheEnd'
    BY ONLY <2>3, <2>7 DEF CallInv, EndIsTheEnd
  <2>12. QED
    BY <2>3, <2>8, <2>9, <2>10, <2>11, Quiet DEF IInv
<1>9. CASE e # "nil"
  <2>1. UNCHANGED <<h, blocks, start, pos, mode, arc>> /\ stopped'
    BY ONLY Zenon, <1>3, <1>9
  <2>2. TypeInv'
    BY <1>1, <1>3, <1>4, <1>6, <1>7, <2>1 DEF TypeInv
  <2>3. FileInv'
    BY <1>1, <2>1, FileKept
  <2>4. PlaceInv' /\ CallInv'
    BY <1>3, <2>1 DEF PlaceInv, CallInv, Running, Ready
  <2>5. ASSUME CutAtEnd PROVE EndIsTheEnd'
    <3>1. CASE e = "EOF"
      <4>1. VolumeNext.err \in {"EOF", "errVolumeOrArchiveEnd"}
        BY <1>2, <1>6, <3>1 DEF NextFileError
      <4>2. \A y \in Places(arc) : Before(start, y) => ~Block(y).first
        BY <1>1, <2>5, <4>1, NoFileLeft
      <4>3. \A y \in Places(arc') : Before(start', y) => ~BlockAt(arc', y).first
        BY ONLY <2>1, <4>2 DEF Block, BlocksOf, BlockAt
      <4>4. QED
        BY ONLY <2>1, <4>3 DEF EndIsTheEnd, Block, BlocksOf, BlockAt
    <3>2. CASE e # "EOF"
      BY <1>3, <3>2 DEF EndIsTheEnd
    <3>3. QED
      BY <3>1, <3>2
  <2>6. QED
    BY <1>3, <2>2, <2>3, <2>4, <2>5, Quiet DEF IInv
<1>10. QED
  BY <1>8, <1>9

(* The block that findBlock returns has the offset in it, or behind its    *)
(* last byte.                                                              *)
LEMMA BlockFound ==
  ASSUME TypeInv, FileInv, h # NoHeader, NEW t \in Nat, NEW b, b = findBlock(t), b # NoHeader
  PROVE  \E k \in Nat :
           /\ b = FileHeader(arc, start)[k] /\ b.blocknum = k
           /\ b \in Headers /\ Exists(arc, b) /\ Block(b).size \in Nat
           /\ b.packedOff <= t /\ t <= b.packedOff + Block(b).size
<1> DEFINE H == FileHeader(arc, start)
           In(c) == \/ t < c.packedOff + Block(c).size
                    \/ t = c.packedOff + Block(c).size /\ Block(c).last
           S == {q \in 1 .. Len(blocks) : In(blocks[q])}
<1>1. /\ IsArchive(arc) /\ start \in [num : Nat, blk : Nat] /\ Exists(arc, start)
  BY ArcIs, HeaderIs
<1>2. /\ H[0] = FirstHeader(start)
      /\ \A k \in Nat : H[k] \in Headers /\ Exists(arc, H[k]) /\ H[k + 1] = NextHeader(arc, H[k])
  BY ONLY <1>1, FileHeaderIs
<1>3. /\ Len(blocks) \in Nat
      /\ \A i \in 1 .. Len(blocks) : blocks[i] = H[i - 1] /\ H[i - 1].blocknum = i - 1
  BY DEF FileInv
<1>4. S # {} /\ b = blocks[CHOOSE i \in S : \A k \in S : i <= k]
  BY DEF findBlock
<1>5. S \subseteq Nat
  BY <1>3
<1> HIDE DEF S
<1>6. \E i \in S : \A k \in S : i <= k
  BY ONLY <1>4, <1>5, Least
<1>7. PICK i \in S : i = (CHOOSE m \in S : \A k \in S : m <= k) /\ \A k \in S : i <= k
  BY ONLY <1>6
<1>8. i \in 1 .. Len(blocks) /\ In(blocks[i]) /\ i \in Nat
  <2>1. i \in 1 .. Len(blocks) /\ In(blocks[i])
    BY ONLY <1>7 DEF S
  <2>2. QED
    BY ONLY <1>3, <2>1
<1>9. b = blocks[i]
  BY ONLY <1>4, <1>7
<1>10. PICK k \in Nat : k = i - 1
  BY <1>3, <1>8
<1>11. b = H[k] /\ b.blocknum = k
  BY ONLY <1>3, <1>8, <1>9, <1>10
<1>12. b \in Headers /\ Exists(arc, b)
  BY ONLY <1>2, <1>11, k \in Nat
<1>13. Block(b).size \in Nat
  BY <1>1, <1>12, BlockType DEF Block, BlocksOf, BlockAt
<1>14. t <= b.packedOff + Block(b).size
  BY ONLY <1>8, <1>9, <1>12, <1>13, t \in Nat DEF Headers
<1>15. b.packedOff <= t
  <2>1. CASE k = 0
    BY ONLY <1>2, <1>11, <2>1, t \in Nat DEF FirstHeader
  <2>2. CASE k # 0
    <3>1. PICK m \in Nat : m = k - 1 /\ k = m + 1
      BY <2>2
    <3>2. PICK c : c = H[m]
      OBVIOUS
    <3>3. blocks[k] = c /\ c.blocknum = m /\ k \in 1 .. Len(blocks)
      BY ONLY <1>3, <1>8, <1>10, <3>1, <3>2
    <3>4. c \in Headers /\ Exists(arc, c) /\ b = NextHeader(arc, c)
      BY ONLY <1>2, <1>11, <3>1, <3>2
    <3>5. GoesOn(arc, c)
      BY ONLY <1>11, <3>1, <3>3, <3>4 DEF NextHeader
    <3>6. b.packedOff = c.packedOff + Block(c).size
      BY ONLY <3>4, <3>5 DEF NextHeader, Block, BlocksOf, BlockAt
    <3>7. Block(c).size \in Nat
      BY <1>1, <3>4, BlockType DEF Block, BlocksOf, BlockAt
    <3>8. ~In(c)
      <4>1. k \notin S
        <5>1. SUFFICES ASSUME k \in S PROVE FALSE
          OBVIOUS
        <5>2. i <= k
          BY ONLY <1>7, <5>1
        <5>3. QED
          BY ONLY <1>8, <1>10, <5>2
      <4>2. QED
        BY ONLY <3>3, <4>1 DEF S
    <3>9. QED
      BY ONLY <3>4, <3>6, <3>7, <3>8, t \in Nat DEF Headers
  <2>3. QED
    BY <2>1, <2>2
<1>16. QED
  BY ONLY <1>11, <1>12, <1>13, <1>14, <1>15, k \in Nat

(* Seek. *)
LEMMA SeekKeeps ==
  ASSUME IInv, NEW o \in Int, NEW w \in Whences, NotFromCurrent, Seek(o, w)
  PROVE  IInv'
<1>1. TypeInv /\ FileInv /\ PlaceInv /\ CallInv
      /\ mode.opened /\ pc = "idle" /\ stopped = FALSE
  BY DEF IInv, Seek, Ready, TypeInv
<1>2. h # NoHeader
  BY <1>1 DEF FileInv
<1> DEFINE t == Target(o, w, offset)
           b == IF t < 0 THEN NoHeader ELSE findBlock(t)
<1>3. /\ got' = Nothing /\ UNCHANGED <<mode, arc, pc, want, start, stopped>>
      /\ \/ b = NoHeader /\ ret' = "ErrInvalid" /\ UNCHANGED <<v, f, pos>>
         \/ /\ b # NoHeader /\ MoveTo(PlaceIn(b, t))
            /\ h' = b /\ offset' = t /\ ret' = "nil"
            /\ pos' = Target(o, w, pos)
            /\ UNCHANGED blocks
  BY DEF Seek
<1>4. CASE b = NoHeader
  <2>1. /\ ret' = "ErrInvalid" /\ UNCHANGED <<num, blk, j, n, h, blocks, pos>>
    BY <1>3, <1>4 DEF v, f
  <2>2. TypeInv'
    BY <1>1, <1>3, <2>1 DEF TypeInv
  <2>3. FileInv'
    BY <1>1, <1>3, <2>1, FileKept
  <2>4. PlaceInv'
    <3>1. num = h.num /\ blk = h.blk /\ j + n = Block(h).size /\ pos = h.packedOff + j
      BY <1>1, <1>2, Seek(o, w) DEF PlaceInv, Running, Seek
    <3>2. (Block(h))' = Block(h)
      BY ONLY <1>3, <2>1 DEF Block, BlocksOf
    <3>3. QED
      BY ONLY <1>2, <2>1, <3>1, <3>2, <1>3 DEF PlaceInv
  <2>5. CallInv' /\ EndIsTheEnd'
    BY <1>1, <1>2, <1>3, <2>1 DEF CallInv, EndIsTheEnd
  <2>6. QED
    BY <1>3, <2>2, <2>3, <2>4, <2>5, Quiet DEF IInv
<1>5. CASE b # NoHeader
  <2>1. w \in {"start", "end"}
    BY ModeAssumption DEF NotFromCurrent
  <2>2. pos' = t
    BY ONLY <1>3, <1>5, <2>1 DEF Target
  <2>3. t \in Int
    <3>1. CASE w = "start"
      BY ONLY <3>1, o \in Int DEF Target
    <3>2. CASE w = "end"
      <4>1. packedSize \in Nat
        <5>1. Len(blocks) \in Nat /\ Len(blocks) # 0
          <6>1. Len(blocks) \in Nat
            BY <1>1, <1>2 DEF FileInv
          <6>2. SUFFICES ASSUME Len(blocks) = 0 PROVE FALSE
            BY <6>1
          <6>3. findBlock(t) = NoHeader
            BY <6>2 DEF findBlock
          <6>4. QED
            BY <1>5, <6>3
        <5>2. PICK k \in Nat : k = Len(blocks) - 1
          BY ONLY <5>1
        <5> DEFINE c == blocks[Len(blocks)]
        <5>3. c = FileHeader(arc, start)[k]
          BY <1>1, <1>2, <5>1, <5>2 DEF FileInv
        <5>4. packedSize = c.packedOff + Block(c).size
          BY DEF packedSize
        <5> HIDE DEF c
        <5>5. c \in Headers /\ Exists(arc, c)
          <6>1. /\ IsArchive(arc) /\ start \in [num : Nat, blk : Nat] /\ Exists(arc, start)
            BY <1>1, <1>2, ArcIs, HeaderIs
          <6>2. QED
            BY ONLY <5>3, <6>1, k \in Nat, FileHeaderIs
        <5>6. Block(c).size \in Nat
          BY <1>1, <5>5, ArcIs, BlockType DEF Block, BlocksOf, BlockAt
        <5>7. QED
          BY ONLY <5>4, <5>5, <5>6 DEF Headers
      <4>2. PICK ps \in Nat : ps = packedSize
        BY ONLY <4>1
      <4>3. t \in {o + packedSize}
        BY ONLY <3>2, <4>1, o \in Int DEF Target
      <4>4. QED
        BY ONLY <4>2, <4>3, o \in Int
    <3>3. QED
      BY <2>1, <3>1, <3>2
  <2>4. t \in Nat /\ b = findBlock(t)
    BY <1>5, <2>3
  <2> HIDE DEF t, b
  <2>5. PICK k \in Nat :
           /\ b = FileHeader(arc, start)[k] /\ b.blocknum = k
           /\ b \in Headers /\ Exists(arc, b) /\ Block(b).size \in Nat
           /\ b.packedOff <= t /\ t <= b.packedOff + Block(b).size
    BY ONLY <1>1, <1>2, <1>5, <2>4, BlockFound
  <2>6. /\ num' = b.num /\ blk' = b.blk /\ j' = t - b.packedOff
        /\ n' = Block(b).size - (t - b.packedOff)
    BY ONLY <1>3, <1>5 DEF MoveTo, PlaceIn
  <2>7. /\ h' = b /\ ret' = "nil" /\ got' = Nothing
        /\ UNCHANGED <<mode, arc, pc, want, start, stopped, blocks>>
    BY ONLY <1>3, <1>5
  <2>8. /\ b.packedOff \in Nat /\ j' \in Nat /\ n' \in Nat /\ pos' \in Nat
        /\ j' + n' = Block(b).size /\ pos' = b.packedOff + j'
    BY ONLY <2>2, <2>4, <2>5, <2>6 DEF Headers
  <2>9. num' \in 0 .. Len(arc) - 1 /\ blk' \in Nat
    <3>1. b.num \in Nat /\ b.num + 1 \in 1 .. Len(arc) /\ Len(arc) \in Nat /\ b.blk \in Nat
      BY <1>1, <2>5, ArcIs, BlockType
    <3>2. QED
      BY ONLY <2>6, <3>1
  <2>10. TypeInv'
    BY <1>1, <2>7, <2>8, <2>9 DEF TypeInv
  <2>11. FileInv'
    <3>1. Exists(arc, start)'
      BY <1>1, <1>2, <2>7, HeaderIs DEF Exists
    <3>2. QED
      BY <1>1, <1>2, <1>5, <2>5, <2>7, <3>1 DEF FileInv
  <2>12. PlaceInv'
    <3>1. (Block(h))' = Block(b)
      BY ONLY <2>7 DEF Block, BlocksOf
    <3>2. QED
      BY ONLY <1>5, <2>6, <2>7, <2>8, <3>1 DEF PlaceInv
  <2>13. CallInv' /\ EndIsTheEnd'
    BY <1>1, <1>5, <2>7 DEF CallInv, EndIsTheEnd
  <2>14. QED
    BY <2>7, <2>10, <2>11, <2>12, <2>13, Quiet DEF IInv
<1>6. QED
  BY <1>4, <1>5
-----------------------------------------------------------------------------
(* An archive has finitely many blocks. *)
LEMMA PlacesFinite ==
  ASSUME NEW a, IsArchive(a)
  PROVE  IsFiniteSet(Places(a))
<1> DEFINE In(k) == {[num |-> k, blk |-> b] : b \in 1 .. Len(a[k + 1].blocks)}
           map == [k \in 0 .. Len(a) - 1 |-> In(k)]
           All == {map[k] : k \in 0 .. Len(a) - 1}
<1>1. Len(a) \in Nat
  BY DEF IsArchive
<1>2. IsFiniteSet(0 .. Len(a) - 1)
  BY <1>1, FS_Interval
<1>3. IsFiniteSet(All)
  BY ONLY <1>2, ImageFinite
<1>4. ASSUME NEW k \in 0 .. Len(a) - 1 PROVE IsFiniteSet(In(k))
  <2> DEFINE in == [b \in 1 .. Len(a[k + 1].blocks) |-> [num |-> k, blk |-> b]]
  <2>1. Len(a[k + 1].blocks) \in Nat
    BY <1>1 DEF IsArchive
  <2>2. IsFiniteSet(1 .. Len(a[k + 1].blocks))
    <3>1. PICK c \in Nat : c = Len(a[k + 1].blocks)
      BY ONLY <2>1
    <3>2. 1 \in Int /\ c \in Int
      BY ONLY c \in Nat
    <3>3. IsFiniteSet(1 .. c)
      BY ONLY <3>2, FS_Interval
    <3>4. QED
      BY ONLY <3>1, <3>3
  <2>3. IsFiniteSet({in[b] : b \in 1 .. Len(a[k + 1].blocks)})
    BY ONLY <2>2, ImageFinite
  <2>4. In(k) = {in[b] : b \in 1 .. Len(a[k + 1].blocks)}
    OBVIOUS
  <2>5. QED
    BY ONLY <2>3, <2>4
<1>5. Places(a) = UNION All
  <2>1. All = {In(k) : k \in 0 .. Len(a) - 1}
    OBVIOUS
  <2> HIDE DEF All
  <2>2. QED
    BY ONLY <2>1 DEF Places
<1>6. \A T \in All : IsFiniteSet(T)
  BY <1>4
<1> HIDE DEF All
<1>7. QED
  BY ONLY <1>3, <1>5, <1>6, FS_UNION

(* If the k-th header of a file has number k, those before it have theirs. *)
LEMMA Numbered ==
  ASSUME NEW a, NEW H, \A i \in Nat : H[i] \in Headers /\ H[i + 1] = NextHeader(a, H[i]),
         H[0].blocknum = 0, NEW k \in Nat, k > 0, H[k - 1].blocknum = k - 1
  PROVE  \A i \in 1 .. k : H[i - 1].blocknum = i - 1
<1> DEFINE S == {i \in Nat : /\ H[i].blocknum <= i
                             /\ H[i].blocknum = i => \A m \in 0 .. i : H[m].blocknum = m}
<1>1. 0 \in S
  OBVIOUS
<1>2. ASSUME NEW i \in Nat, i \in S PROVE i + 1 \in S
  <2>1. H[i].blocknum \in Nat /\ H[i].blocknum <= i
    BY <1>2 DEF Headers
  <2>2. H[i + 1].blocknum \in {H[i].blocknum, H[i].blocknum + 1}
    <3>1. PICK x : x = H[i]
      OBVIOUS
    <3>2. H[i + 1] = NextHeader(a, x)
      BY ONLY <3>1, \A m \in Nat : H[m] \in Headers /\ H[m + 1] = NextHeader(a, H[m]), i \in Nat
    <3>3. NextHeader(a, x).blocknum \in {x.blocknum, x.blocknum + 1}
      BY ONLY DEF NextHeader
    <3>4. QED
      BY ONLY <3>1, <3>2, <3>3
  <2>3. H[i + 1].blocknum <= i + 1
    BY ONLY <2>1, <2>2
  <2>4. ASSUME H[i + 1].blocknum = i + 1
        PROVE  \A m \in 0 .. i + 1 : H[m].blocknum = m
    <3>1. H[i].blocknum = i
      BY ONLY <2>1, <2>2, <2>4
    <3>2. \A m \in 0 .. i : H[m].blocknum = m
      BY <1>2, <3>1
    <3>3. QED
      BY ONLY <2>4, <3>2, i \in Nat
  <2>5. QED
    BY <2>3, <2>4
<1> HIDE DEF S
<1>3. \A i \in Nat : i \in S
  BY ONLY <1>1, <1>2, Inductive
<1>4. k - 1 \in Nat /\ \A i \in 1 .. k : i - 1 \in 0 .. k - 1
  OBVIOUS
<1>5. \A m \in 0 .. k - 1 : H[m].blocknum = m
  BY <1>3, <1>4 DEF S
<1>6. QED
  BY <1>4, <1>5

(* The archive at its start, or a file that has been opened. *)
LEMMA InitKeeps == Init => IInv
<1> SUFFICES ASSUME Init PROVE IInv
  OBVIOUS
<1>1. /\ mode \in Modes /\ arc \in mode.archives
      /\ pc = "idle" /\ want = 0 /\ pos = 0
      /\ got = Nothing /\ ret = "nil" /\ stopped = FALSE
  BY DEF Init, InitVars
<1>2. IsArchive(arc) /\ Len(arc) \in Nat \ {0}
  BY <1>1, ArchiveAssumption DEF IsArchive
<1>3. DataInOrder /\ EndIsTheEnd
  BY <1>1 DEF DataInOrder, EndIsTheEnd, Nothing
<1>4. /\ mode \in Modes /\ arc \in mode.archives /\ want \in Int /\ pos \in Nat
      /\ stopped \in BOOLEAN /\ pc = "idle"
  <2>1. stopped \in BOOLEAN
    BY ONLY Zenon, <1>1
  <2>2. want \in Int /\ pos \in Nat
    BY <1>1
  <2>3. QED
    BY ONLY <1>1, <2>1, <2>2
<1>5. CASE /\ ~mode.opened
           /\ num = 0 /\ blk = 0 /\ j = 0 /\ n = 0
           /\ h = NoHeader /\ offset = 0 /\ blocks = <<>> /\ start = Here
  <2>1. TypeInv
    <3>1. num \in 0 .. Len(arc) - 1 /\ blk \in Nat /\ j \in Nat /\ n \in Nat
      <4>1. num = 0 /\ blk = 0 /\ j = 0 /\ n = 0
        BY <1>5
      <4>2. QED
        BY ONLY <1>2, <4>1
    <3>2. QED
      BY ONLY <1>4, <3>1 DEF TypeInv
  <2>2. FileInv /\ PlaceInv
    BY <1>1, <1>5 DEF FileInv, PlaceInv, Here
  <2>3. CallInv
    BY <1>1, <1>5 DEF CallInv
  <2>4. QED
    BY <1>3, <2>1, <2>2, <2>3 DEF IInv
<1>6. CASE /\ mode.opened
           /\ start \in {x \in Places(arc) : Block(x).first}
           /\ h = FirstHeader(start) /\ num = h.num /\ blk = h.blk /\ j = 0
           /\ n = Block(h).size
           /\ \E k \in 1 .. Cardinality(Places(arc)) :
                LET last == FileHeader(arc, start)[k - 1] IN
                /\ last.blocknum = k - 1 /\ ~GoesOn(arc, last)
                /\ blocks = [i \in 1 .. k |-> FileHeader(arc, start)[i - 1]]
  <2>1. Exists(arc, start) /\ start = [num |-> start.num, blk |-> start.blk]
    BY <1>6, PlacesAre
  <2>2. /\ start.num \in Nat /\ start.num + 1 \in 1 .. Len(arc) /\ start.blk \in Nat
        /\ BlockAt(arc, start).size \in Nat
    BY <1>2, <2>1, BlockType
  <2>3. start \in [num : Nat, blk : Nat]
    BY ONLY <2>1, <2>2
  <2> DEFINE H == FileHeader(arc, start)
  <2>4. /\ H[0] = FirstHeader(start)
        /\ \A k \in Nat : H[k] \in Headers /\ H[k + 1] = NextHeader(arc, H[k])
    BY ONLY <1>2, <2>1, <2>3, FileHeaderIs
  <2>5. PICK k \in 1 .. Cardinality(Places(arc)) :
          H[k - 1].blocknum = k - 1 /\ blocks = [i \in 1 .. k |-> H[i - 1]]
    BY <1>6
  <2>6. k \in Nat /\ k > 0
    BY <1>2, PlacesFinite, FS_CardinalityType
  <2> HIDE DEF H
  <2>7. \A i \in 1 .. k : H[i - 1].blocknum = i - 1
    <3>1. \A i \in Nat : H[i] \in Headers /\ H[i + 1] = NextHeader(arc, H[i])
      BY ONLY <2>4
    <3>2. H[0].blocknum = 0
      BY ONLY <2>4 DEF FirstHeader
    <3>3. H[k - 1].blocknum = k - 1
      BY ONLY <2>5
    <3>4. QED
      BY ONLY <1>2, <2>6, <3>1, <3>2, <3>3, Numbered
  <2>8. /\ h = H[0] /\ h.blocknum = 0 /\ h.packedOff = 0 /\ h.num = start.num /\ h.blk = start.blk
        /\ h # NoHeader
    <3>1. h = FirstHeader(start) /\ h = H[0]
      BY ONLY <1>6, <2>4
    <3>2. h.blocknum = 0 /\ h.packedOff = 0 /\ h.num = start.num /\ h.blk = start.blk
      BY ONLY <3>1 DEF FirstHeader
    <3>3. NoHeader.num = -1
      BY ONLY DEF NoHeader
    <3>4. h # NoHeader
      BY ONLY <2>2, <3>2, <3>3
    <3>5. QED
      BY ONLY <3>1, <3>2, <3>4
  <2>9. Len(blocks) = k /\ \A i \in 1 .. k : blocks[i] = H[i - 1]
    BY <2>5, <2>6
  <2>10. FileInv
    BY <2>1, <2>3, <2>6, <2>7, <2>8, <2>9 DEF FileInv, H
  <2>11. Block(h).size \in Nat
    BY ONLY <2>2, <2>8 DEF Block, BlocksOf, BlockAt
  <2>12. TypeInv
    <3>1. num \in 0 .. Len(arc) - 1 /\ blk \in Nat /\ j \in Nat /\ n \in Nat
      <4>1. num = start.num /\ blk = start.blk /\ j = 0 /\ n = Block(h).size
        BY <1>6, <2>8
      <4>2. start.num + 1 <= Len(arc)
        BY ONLY <1>2, <2>2
      <4>3. QED
        BY ONLY <1>2, <2>2, <2>11, <4>1, <4>2
    <3>2. QED
      BY ONLY <1>4, <3>1 DEF TypeInv
  <2>13. PlaceInv
    BY ONLY <1>1, <1>6, <2>8, <2>11 DEF PlaceInv
  <2>14. CallInv
    BY <1>1, <2>8 DEF CallInv
  <2>15. QED
    BY <1>3, <2>10, <2>12, <2>13, <2>14 DEF IInv
<1>7. QED
  BY ONLY Zenon, Init, <1>5, <1>6 DEF Init

(* Whatever step is taken next. *)
LEMMA NextIInv ==
  ASSUME NotFromCurrent, WholeToWrite, IInv, [Next]_vars
  PROVE  IInv'
<1>1. CASE ReadStep
  BY <1>1, ReadKeeps
<1>2. CASE WriteStep
  BY <1>2, WriteKeeps
<1>3. CASE WriteNext \/ SkipStep
  BY <1>3, GoOnKeeps
<1>4. CASE NextStep
  BY <1>4, NextKeeps
<1>5. CASE nextFile \/ Read(2) \/ ReadByte \/ writeToN(2) \/ writeToN(-1)
  BY <1>5, CallStep
<1>6. CASE \E o \in -MaxOffset .. MaxOffset, w \in Whences : Seek(o, w)
  <2>1. PICK o \in -MaxOffset .. MaxOffset, w \in Whences : Seek(o, w)
    BY <1>6
  <2>2. o \in Int
    BY ModeAssumption
  <2>3. QED
    BY <2>1, <2>2, SeekKeeps
<1>7. CASE UNCHANGED vars
  <2>1. UNCHANGED <<mode, arc, num, blk, j, n, h, blocks, pc, want, start, pos, got, ret, stopped>>
    BY <1>7 DEF vars, v, f
  <2>2. TypeInv' /\ CallInv' /\ FileInv'
    BY <2>1, FileKept DEF IInv, TypeInv, CallInv
  <2>3. PlaceInv'
    BY <2>1 DEF IInv, PlaceInv, Running, Ready, Block, BlocksOf
  <2>4. DataInOrder'
    BY <2>1 DEF IInv, DataInOrder, Block, BlocksOf
  <2>5. ASSUME CutAtEnd PROVE EndIsTheEnd'
    BY <2>1, <2>5 DEF IInv, EndIsTheEnd, Block, BlocksOf
  <2>6. QED
    BY <2>2, <2>3, <2>4, <2>5 DEF IInv
<1>8. QED
  BY <1>1, <1>2, <1>3, <1>4, <1>5, <1>6, <1>7 DEF Next, Step
-----------------------------------------------------------------------------
(* The volume, the header of the current block, the list of blocks and the *)
(* position in the packed file agree in every state, as long as calls can  *)
(* be made: packedFileReader, packedFileReadSeeker and fileVolume, for     *)
(* every archive.                                                          *)
THEOREM Invariance ==
  ASSUME NotFromCurrent, WholeToWrite
  PROVE  Spec => []IInv
<1>1. Init => IInv
  BY InitKeeps
<1>2. IInv /\ [Next]_vars => IInv'
  BY NextIInv
<1>3. QED
  BY <1>1, <1>2, PTL DEF Spec

(* Whatever way a file's data is spread over blocks and volumes, and       *)
(* whatever was read, skipped or sought before: each byte that a read      *)
(* delivers is the one at its position in the packed file (Read, ReadByte, *)
(* writeToN, nextBlock and Seek of reader.go).                             *)
THEOREM InOrder ==
  ASSUME NotFromCurrent, WholeToWrite
  PROVE  Spec => []DataInOrder
<1>1. IInv => DataInOrder
  BY DEF IInv
<1>2. QED
  BY <1>1, Invariance, PTL

(* A read that ends with EOF has delivered the file's last byte, and Next  *)
(* ends with EOF only if no file is left (nextBlock and nextFile of        *)
(* reader.go with nextBlock of volume.go).                                 *)
THEOREM TrueEnd ==
  ASSUME NotFromCurrent, WholeToWrite, CutAtEnd
  PROVE  Spec => []EndIsTheEnd
<1>1. IInv => EndIsTheEnd
  BY DEF IInv
<1>2. QED
  BY <1>1, Invariance, PTL
=============================================================================
