-------------------------- MODULE PackedFileReader --------------------------
(***************************************************************************)
(* packedFileReader, packedFileReadSeeker and fileBlockList (reader.go)    *)
(* over readerVolume and fileVolume (volume.go): the packed data of a file *)
(* whose blocks are spread over volumes, and the way to the next file.     *)
(*                                                                         *)
(* An archive is a sequence of volumes, a volume a sequence of blocks and  *)
(* what comes after them ("more": an end block and the archive goes on,    *)
(* "last": an end block, "none": the end of a RAR 1.5 file, "broken": the  *)
(* end of a RAR 5 file).  A block is the file's name, its first and last   *)
(* flags, its PackedSize and how many of its bytes are really there.  The  *)
(* i-th byte of block b in volume v is <<v, b, i>>.                        *)
(***************************************************************************)
EXTENDS Integers, Sequences, FiniteSets

CONSTANTS
  Modes,        \* the ways an archive is read, records of
                \*   archives: the archives read this way
                \*   files: volumes are files (fileVolume), or there is one
                \*     io.Reader; seekable: it can seek
                \*   opened: a file that was listed has been opened
                \*     (File.Open), or the archive is read from its start
                \*   ops: calls that are made, "read", "byte", "write";
                \*     "failing": writers may fail at any byte
  Whences,      \* whence of Seek: "start", "current", "end"
  MaxOffset     \* bound: offsets given to Seek

ASSUME ModeAssumption ==
  /\ \A m \in Modes : /\ {m.files, m.seekable, m.opened} \subseteq BOOLEAN
                      /\ m.ops \subseteq {"read", "byte", "write", "failing"}
                      /\ m.opened => m.files
  /\ Whences \subseteq {"start", "current", "end"} /\ MaxOffset \in Nat
(* Nothing follows the last volume, and only the first may have no block.  *)
IsArchive(a) ==
  /\ Len(a) \in Nat \ {0}
  /\ \A k \in 1 .. Len(a) :
       /\ Len(a[k].blocks) \in Nat /\ (k > 1 => Len(a[k].blocks) > 0)
       /\ a[k].end \in {"more", "last", "none", "broken"}
       /\ a[k].end = "last" => k = Len(a)
       /\ \A i \in 1 .. Len(a[k].blocks) :
            LET b == a[k].blocks[i] IN
            /\ {b.first, b.last} \subseteq BOOLEAN
            /\ b.size \in Nat /\ b.have \in 0 .. b.size
ASSUME ArchiveAssumption ==      \* a stream is one volume
  \A m \in Modes : \A a \in m.archives : IsArchive(a) /\ (m.files \/ Len(a) = 1)

VARIABLES
  mode, arc,          \* how it is read, and the archive
  num, blk, j, n,     \* volume v.num; v.br is behind byte j of block blk; v.n
  h, offset, blocks,  \* f.h, f.offset, f.blocks
  pc, want,           \* step of the running call; bytes it is to deliver
  start, pos,         \* place of the current file's first block; position in
                      \* its packed data, to compare with
  got, ret, stopped   \* bytes of the last step; its error; no more calls

v == <<num, blk, j, n>>
f == <<h, offset, blocks>>
vars == <<mode, arc, v, f, pc, want, start, pos, got, ret, stopped>>

Smaller(a, b) == IF a < b THEN a ELSE b
NoHeader == [num |-> -1, blk |-> 0, packedOff |-> 0, blocknum |-> 0]
FirstHeader(x) == [num |-> x.num, blk |-> x.blk, packedOff |-> 0, blocknum |-> 0]
Nothing == [at |-> 0, data |-> <<>>]
BlocksOf(k) == arc[k + 1].blocks
Block(x) == BlocksOf(x.num)[x.blk]         \* the block at a place or header
Here == [num |-> num, blk |-> blk]
-----------------------------------------------------------------------------
(* The volume.                                                             *)

At(e, k, b, i, left) == [err |-> e, num |-> k, blk |-> b, j |-> i, n |-> left]

\* seeded bug: the end of a volume is the end of the archive
EndOfStops(k) == At("EOF", k, Len(BlocksOf(k)), 0, 0)

(* Behind the last block of volume k: nextBlock of archive15, archive50    *)
(* and, where it opens the next volume, of fileVolume.                     *)
EndOf(k) ==
  LET E(e) == At(e, k, Len(BlocksOf(k)), 0, 0)
      next == At("nil", k + 1, 1, 0, BlocksOf(k + 1)[1].size)
  IN CASE arc[k + 1].end = "last" -> E("EOF")
       [] arc[k + 1].end = "broken" -> E("ErrUnexpectedEOF")
       [] arc[k + 1].end = "more" /\ ~mode.files -> E("ErrMultiVolume")
       [] arc[k + 1].end = "none" /\ ~mode.files -> E("errVolumeOrArchiveEnd")
       [] arc[k + 1].end \in {"more", "none"} /\ mode.files ->
            IF k + 1 < Len(arc) THEN next
            ELSE E(IF arc[k + 1].end = "more" THEN "ErrNotExist" ELSE "EOF")

\* seeded bug: the place in the last block is kept
VolumeNextKeepsPlace ==
  IF blk < Len(BlocksOf(num))
  THEN At("nil", num, blk + 1, j, BlocksOf(num)[blk + 1].size)
  ELSE EndOf(num)

(* v.nextBlock(): skip what is left of the block, go to the next one.      *)
(* Seeking beyond the end of a file is no error, skipping by reading is.   *)
VolumeNext ==
  IF n > 0 /\ j + n > Block(Here).have /\ ~mode.seekable
  THEN At("EOF", num, blk, Block(Here).have, n)
  ELSE IF blk < Len(BlocksOf(num))
       THEN At("nil", num, blk + 1, 0, BlocksOf(num)[blk + 1].size)
       ELSE EndOf(num)

(* h.dataOff: where the data of a block is in its volume, behind a header  *)
(* (of size 1) for each block up to it.                                    *)
DataOff(x) ==
  LET Sum[b \in 0 .. x.blk] == IF b = 0 THEN 0 ELSE Sum[b - 1] + 1 +
                                 (IF b = 1 THEN 0 ELSE BlocksOf(x.num)[b - 1].size)
  IN Sum[x.blk]

MoveTo(x) == num' = x.num /\ blk' = x.blk /\ j' = x.j /\ n' = x.n
-----------------------------------------------------------------------------
(* packedFileReader.                                                       *)

\* seeded bug: the end of a volume without an end block ends the file
NextBlockErrorPlain(e, x) ==
  CASE e = "EOF" -> "ErrUnexpectedArcEnd"
    [] e = "errVolumeOrArchiveEnd" -> "EOF"
    [] e = "nil" -> IF Block(x).first \/ Block(x).name # Block(h).name
                    THEN "ErrInvalidFileBlock" ELSE "nil"
    [] OTHER -> e

(* The error of f.nextBlock() for v.nextBlock()'s error e and block x. *)
NextBlockError(e, x) ==
  CASE e = "EOF" -> "ErrUnexpectedArcEnd"
    [] e = "errVolumeOrArchiveEnd" -> "ErrMultiVolume"
    [] e = "nil" -> IF Block(x).first \/ Block(x).name # Block(h).name
                    THEN "ErrInvalidFileBlock" ELSE "nil"
    [] OTHER -> e

\* f.blocks.addBlock(b)
addBlock(b) == IF Len(blocks) = b.blocknum THEN Append(blocks, b) ELSE blocks

AtLastBlock == IF h = NoHeader THEN TRUE ELSE Block(h).last

\* a call returns e
Returns(e) == pc' = "idle" /\ want' = 0 /\ ret' = e /\ UNCHANGED stopped

(* The running call gets e from f.nextBlock(), by the step it is in: it is *)
(* the error of Read and ReadByte, of writeToN if data is still wanted,    *)
(* and in nextFile EOF is the end of the blocks to skip.                   *)
Ends(e) ==
  \/ pc = "read" /\ Returns(e)
  \/ pc = "write2" /\ Returns(IF e = "EOF" /\ want <= 0 THEN "nil" ELSE e)
  \/ /\ pc = "skip"
     /\ pc' = IF e = "EOF" THEN "next" ELSE "idle"
     /\ ret' = IF e = "EOF" THEN "nil" ELSE e
     /\ stopped' = (e # "EOF")
     /\ UNCHANGED want

(* f.nextBlock() inside a call: the call goes on at go, or ends. *)
nextBlock(go) ==
  \/ /\ AtLastBlock
     /\ Ends("EOF")
     /\ UNCHANGED <<v, f>>
  \/ /\ ~AtLastBlock
     /\ LET x == VolumeNext
            e == NextBlockError(x.err, x)
            b == [num |-> x.num, blk |-> x.blk,
                  packedOff |-> h.packedOff + Block(h).size, blocknum |-> h.blocknum + 1]
        IN /\ MoveTo(x)
           /\ IF e = "nil"
              THEN /\ h' = b
                   /\ offset' = DataOff(x)
                   /\ blocks' = addBlock(b)
                   /\ pc' = go
                   /\ UNCHANGED <<want, ret, stopped>>
              ELSE Ends(e) /\ UNCHANGED f

\* k bytes of the block go to the caller
Deliver(k) ==
  /\ got' = [at |-> pos, data |-> [i \in 1 .. k |-> <<num, blk, j + i>>]]
  /\ j' = j + k /\ n' = n - k /\ pos' = pos + k
  /\ UNCHANGED <<num, blk, mode, arc, start>>

Ready == pc = "idle" /\ ~stopped /\ ret \in {"nil", "EOF", "ErrInvalid"}

Call(op, p) ==
  /\ Ready
  /\ pc' = op /\ want' = p /\ ret' = "nil" /\ got' = Nothing
  /\ UNCHANGED <<mode, arc, v, f, start, pos, stopped>>

Read(p) == "read" \in mode.ops /\ h # NoHeader /\ Call("read", p)
ReadByte == "byte" \in mode.ops /\ h # NoHeader /\ Call("read", 1)
writeToN(p) == "write" \in mode.ops /\ h # NoHeader /\ Call("write", p)

(* A round of the loop in Read and ReadByte. *)
ReadStep ==
  /\ pc = "read"
  /\ \/ /\ n > 0 /\ j < Block(Here).have
        /\ \E k \in 1 .. Smaller(want, Smaller(n, Block(Here).have - j)) :
             Deliver(k) /\ offset' = offset + k
        /\ Returns("nil")
        /\ UNCHANGED <<h, blocks>>
     \/ /\ n > 0 /\ j >= Block(Here).have
        /\ Returns("ErrUnexpectedEOF") /\ got' = Nothing
        /\ UNCHANGED <<mode, arc, v, f, start, pos>>
     \/ /\ n = 0
        /\ nextBlock("read") /\ got' = Nothing
        /\ UNCHANGED <<mode, arc, start, pos>>

(* A round of the loop in writeToN.  What the volume cannot deliver, or    *)
(* the writer not take, is left out without an error: the buffer's         *)
(* writeToN (bufio.go:161-171) drops both errors.                          *)
WriteStep ==
  /\ pc = "write"
  /\ LET most == Smaller(IF want < 0 THEN n ELSE want,
                         Smaller(n, Block(Here).have - j))
     IN \E k \in (IF "failing" \in mode.ops THEN 0 ELSE most) .. most :
          LET todo == IF want < 0 THEN want ELSE want - k
          IN /\ Deliver(k)
             /\ want' = todo
             /\ pc' = IF todo = 0 THEN "idle" ELSE "write2"
  /\ UNCHANGED <<f, ret, stopped>>

WriteNext ==
  /\ pc = "write2"
  /\ nextBlock("write")
  /\ got' = Nothing
  /\ UNCHANGED <<mode, arc, start, pos>>

(* nextFile: the other blocks of the file, then the next file. *)
nextFile ==
  /\ ~mode.opened /\ Call("skip", 0)

SkipStep ==
  /\ pc = "skip"
  /\ nextBlock("skip")
  /\ got' = Nothing
  /\ UNCHANGED <<mode, arc, start, pos>>

NextFileError(x) ==
  CASE x.err = "errVolumeOrArchiveEnd" -> "EOF"
    [] x.err = "nil" -> IF Block(x).first THEN "nil" ELSE "ErrInvalidFileBlock"
    [] OTHER -> x.err

NextStep ==
  /\ pc = "next"
  /\ LET x == VolumeNext
         e == NextFileError(x)
         first == FirstHeader(x)
     IN /\ MoveTo(x)
        /\ pc' = "idle" /\ ret' = e /\ stopped' = (e # "nil") /\ got' = Nothing
        /\ IF e = "nil"
           THEN /\ h' = first /\ offset' = 0 /\ blocks' = <<first>>
                /\ start' = [num |-> x.num, blk |-> x.blk] /\ pos' = 0
           ELSE UNCHANGED <<f, start, pos>>
  /\ UNCHANGED <<mode, arc, want>>
-----------------------------------------------------------------------------
(* packedFileReadSeeker.  The block list of a listed file is complete.     *)

findBlock(o) ==
  LET S == {i \in 1 .. Len(blocks) :
              LET end == blocks[i].packedOff + Block(blocks[i]).size
              IN o < end \/ (o = end /\ Block(blocks[i]).last)}
  IN IF S = {} THEN NoHeader ELSE blocks[CHOOSE i \in S : \A k \in S : i <= k]

packedSize == LET b == blocks[Len(blocks)] IN b.packedOff + Block(b).size

\* the offset that is asked for, with the position cur
Target(o, whence, cur) ==
  CASE whence = "start" -> o [] whence = "current" -> cur + o [] whence = "end" -> packedSize + o

(* v.openBlock for offset t of the packed file, in block b. *)
PlaceIn(b, t) ==
  [num |-> b.num, blk |-> b.blk, j |-> t - b.packedOff,
   n |-> Block(b).size - (t - b.packedOff)]

Seek(o, whence) ==
  /\ mode.opened /\ mode.seekable /\ Ready
  /\ got' = Nothing
  /\ LET t == Target(o, whence, offset)
         b == IF t < 0 THEN NoHeader ELSE findBlock(t)
     IN IF b = NoHeader
        THEN ret' = "ErrInvalid" /\ UNCHANGED <<v, f, pos>>
        ELSE /\ MoveTo(PlaceIn(b, t))
             /\ h' = b /\ offset' = t /\ ret' = "nil"
             /\ pos' = Target(o, whence, pos)
             /\ UNCHANGED blocks
  /\ UNCHANGED <<mode, arc, pc, want, start, stopped>>
-----------------------------------------------------------------------------
(* The places of blocks in an archive, one behind the other.               *)
Exists(a, x) == x.num \in 0 .. Len(a) - 1 /\ x.blk \in 1 .. Len(a[x.num + 1].blocks)
Places(a) ==
  UNION {{[num |-> k, blk |-> b] : b \in 1 .. Len(a[k + 1].blocks)} : k \in 0 .. Len(a) - 1}

Before(x, y) == x.num < y.num \/ (x.num = y.num /\ x.blk < y.blk)
After(a, x) ==
  IF x.blk < Len(a[x.num + 1].blocks) THEN [num |-> x.num, blk |-> x.blk + 1]
  ELSE [num |-> x.num + 1, blk |-> 1]

(* The file that has block x goes on in the block behind it. *)
GoesOn(a, x) ==
  LET y == After(a, x)
      BlockAt(z) == a[z.num + 1].blocks[z.blk]
  IN /\ ~BlockAt(x).last /\ Exists(a, y)
     /\ ~BlockAt(y).first /\ BlockAt(y).name = BlockAt(x).name

(* The k-th block behind the first block s of a file, the last one if      *)
(* there are not so many: what its header is to be.                        *)
FileHeader(a, s) ==
  LET H[k \in Nat] ==
        IF k = 0 THEN FirstHeader(s)
        ELSE LET x == H[k - 1]
                 y == After(a, x)
             IN IF GoesOn(a, x)
                THEN [num |-> y.num, blk |-> y.blk, blocknum |-> x.blocknum + 1,
                      packedOff |-> x.packedOff + a[x.num + 1].blocks[x.blk].size]
                ELSE x
  IN H

InitVars ==
  /\ mode \in Modes /\ arc \in mode.archives
  /\ pc = "idle" /\ want = 0 /\ pos = 0
  /\ got = Nothing /\ ret = "nil" /\ stopped = FALSE

Init ==
  /\ InitVars
  /\ \/ /\ ~mode.opened
        /\ num = 0 /\ blk = 0 /\ j = 0 /\ n = 0
        /\ h = NoHeader /\ offset = 0 /\ blocks = <<>> /\ start = Here
     \/ /\ mode.opened
        /\ start \in {x \in Places(arc) : Block(x).first}
        /\ h = FirstHeader(start) /\ num = h.num /\ blk = h.blk /\ j = 0 /\ n = Block(h).size
        /\ offset = 0
        /\ \E k \in 1 .. Cardinality(Places(arc)) :
             LET last == FileHeader(arc, start)[k - 1] IN
             /\ last.blocknum = k - 1 /\ ~GoesOn(arc, last)
             /\ blocks = [i \in 1 .. k |-> FileHeader(arc, start)[i - 1]]

Step == ReadStep \/ WriteStep \/ WriteNext \/ SkipStep \/ NextStep

Next ==
  \/ Step
  \/ nextFile
  \/ Read(2) \/ ReadByte \/ writeToN(2) \/ writeToN(-1)
  \/ \E o \in -MaxOffset .. MaxOffset, w \in Whences : Seek(o, w)

Spec == Init /\ [][Next]_vars
-----------------------------------------------------------------------------
(* Every byte a caller gets is the next one of the packed file: blocks     *)
(* follow each other without gap or overlap wherever volumes end, and      *)
(* whatever the reads and seeks before were.                               *)
DataInOrder ==
  \A i \in 1 .. Len(got.data) :
    \E k \in 0 .. h.blocknum :
      LET x == FileHeader(arc, start)[k]
          byte == got.data[i]
      IN /\ byte[1] = x.num /\ byte[2] = x.blk
         /\ byte[3] \in 1 .. Block(x).have
         /\ x.packedOff + byte[3] = got.at + i

(* An end that is reported is one: a read ends with EOF only behind the    *)
(* last byte of a complete file (a volume that ends early, a missing       *)
(* volume or a foreign block are errors), and Next says that the archive   *)
(* ends only if no file is left in it.                                     *)
EndIsTheEnd ==
  /\ (pc = "idle" /\ ret = "EOF" /\ ~stopped) =>
       LET x == FileHeader(arc, start)[h.blocknum] IN
       Block(x).last /\ pos = x.packedOff + Block(x).size
  /\ (stopped /\ ret = "EOF") =>
       \A x \in Places(arc) : Before(start, x) => ~Block(x).first
=============================================================================
