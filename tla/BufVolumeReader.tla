--------------------------- MODULE BufVolumeReader ---------------------------
(***************************************************************************)
(* bufVolumeReader (bufio.go): the buffered reader under every volume.     *)
(*                                                                         *)
(* br is the struct: the loaded part of the buffer (buf; the field n of    *)
(* the code is its length), how many of its bytes are handed out (i), the  *)
(* offset in the volume of the next byte (off), an error of the source     *)
(* that is still to be reported (err) and the format version found behind  *)
(* the signature (ver).  file and fpos are the io.Reader below it: the     *)
(* volume's bytes and how many it has given.                               *)
(*                                                                         *)
(* A call is one action, except for the two loops that go back to the      *)
(* source an unbounded number of times, findSig and writeToN, whose        *)
(* iterations are actions (pc tells which loop runs).                      *)
(***************************************************************************)
EXTENDS Integers, Sequences

CONSTANTS
  Files,        \* the contents a volume file may have: sequences of bytes
  SigPrefix,    \* sigPrefix: "Rar!\x1A\x07" in the code
  BufSize,      \* len(br.buf)
  MaxSfxSize,   \* maxSfxSize
  SeekableFiles,\* the files whose io.Reader is also an io.Seeker
  DataWithErr,  \* the io.Reader may return an error together with bytes
  MaxRequest,   \* bound: largest read, discard or write asked for
  MaxOffset     \* bound: largest offset asked for, past the end or not

ASSUME BufSizeAssumption ==
  /\ SigPrefix \in Seq(Nat) /\ Len(SigPrefix) > 0
  /\ BufSize \in Nat /\ BufSize >= Len(SigPrefix) + 2  \* minBufSize is 32
ASSUME FilesAssumption == Files \subseteq Seq(Nat)
ASSUME BoundAssumption ==
  /\ MaxSfxSize \in Nat /\ MaxRequest \in Nat /\ MaxOffset \in Nat
  /\ SeekableFiles \subseteq Files /\ DataWithErr \in BOOLEAN

VARIABLES
  file, fpos,   \* the source: content and bytes already read from it
  br,           \* the struct
  pc,           \* "scan" (findSig), "idle", "write" (writeToN), "failed"
  todo,         \* bytes writeToN has left to write, -1 for all there are
  got,          \* bytes the last step handed out, and their offset
  ret           \* error of the last call

vars == <<file, fpos, br, pc, todo, got, ret>>

(* Errors a source returns.  "NoProgress" is a source that answered a      *)
(* hundred (maxEmptyReads) times with no byte and no error.                *)
SourceErrors == {"nil", "EOF", "io", "NoProgress"}
Errors == SourceErrors \cup {"ErrInvalid", "ErrNoSig"}

Nothing == [at |-> 0, data |-> <<>>]
n(b) == Len(b.buf)
Unread(b) == n(b) - b.i
Least(a, b) == IF a < b THEN a ELSE b
-----------------------------------------------------------------------------
(* The source (external: the io.Reader given to Reset).                    *)

(* br.sr is set: Reset found that the source can seek. *)
Seekable == file \in SeekableFiles

Remaining == IF fpos < Len(file) THEN Len(file) - fpos ELSE 0

(* The answers to a Read of at most max bytes: k bytes and an error.  An   *)
(* error comes with bytes only if DataWithErr, EOF only at the end.        *)
SourceReads(max) ==
  {c \in [k : 0 .. Least(max, Remaining), err : SourceErrors] :
     /\ c.err = "nil" => c.k > 0
     /\ c.err = "EOF" => fpos + c.k >= Len(file)
     /\ c.err # "nil" /\ c.k > 0 => DataWithErr /\ c.err # "NoProgress"}
-----------------------------------------------------------------------------
(* fill.                                                                   *)

\* seeded bug: the bytes that are passed are not counted
DropUncounted(b, d) == [b EXCEPT !.buf = <<>>, !.i = 0]

\* seeded bug: the index stays behind
DropKeepsIndex(b, d) == [b EXCEPT !.buf = <<>>, !.off = b.off + d]

(* The buffer is dropped and d bytes are counted as passed. *)
Drop(b, d) == [b EXCEPT !.buf = <<>>, !.i = 0, !.off = b.off + d]

(* k fresh bytes of the source behind the ones in the buffer. *)
Load(b, k) == [b EXCEPT !.buf = b.buf \o SubSeq(file, fpos + 1, fpos + k)]

(* What fill() leaves behind: the struct, the source's position, and the   *)
(* error it returns.  An error of an earlier Read is returned first,       *)
(* without reading.                                                        *)
FillOutcomes ==
  IF br.err # "nil"
  THEN {[br |-> [br EXCEPT !.err = "nil"], pos |-> fpos, ret |-> br.err]}
  ELSE {[br  |-> [Load(Drop(br, 0), c.k) EXCEPT
                    !.err = IF c.k > 0 THEN c.err ELSE "nil"],
         pos |-> fpos + c.k,
         ret |-> IF c.k > 0 THEN "nil" ELSE c.err] : c \in SourceReads(BufSize)}

(* "if br.i == br.n { err := br.fill() ... }", which opens every read.     *)
EnsureBuffered ==
  IF Unread(br) = 0 THEN FillOutcomes
                    ELSE {[br |-> br, pos |-> fpos, ret |-> "nil"]}

Advance(b, k) == [b EXCEPT !.i = b.i + k, !.off = b.off + k]

\* seeded bug: the bytes are taken from the start of the buffer
ChunkFromStart(b, k) == [at |-> b.off, data |-> SubSeq(b.buf, 1, k)]

Chunk(b, k) == [at |-> b.off, data |-> SubSeq(b.buf, b.i + 1, b.i + k)]
-----------------------------------------------------------------------------
(* Read and ReadByte.                                                      *)

Read(p) ==
  /\ pc = "idle"
  /\ \E o \in EnsureBuffered :
       LET k == Least(p, Unread(o.br)) IN
       /\ fpos' = o.pos
       /\ ret' = o.ret
       /\ \/ o.ret # "nil" /\ br' = o.br /\ got' = Nothing
          \/ o.ret = "nil" /\ br' = Advance(o.br, k) /\ got' = Chunk(o.br, k)
  /\ UNCHANGED <<file, pc, todo>>

ReadByte == Read(1)
-----------------------------------------------------------------------------
(* Discard.                                                                *)

(* What is to be skipped is buffered. *)
DiscardBuffered(m) ==
  /\ Unread(br) >= m
  /\ br' = Advance(br, m)
  /\ ret' = "nil"
  /\ UNCHANGED fpos

(* The rest is skipped with a relative Seek, which may lead past the end. *)
DiscardSeek(m) ==
  LET buffered == Unread(br) IN
  /\ buffered < m /\ Seekable
  /\ \/ /\ fpos' = fpos + (m - buffered)
        /\ br' = Drop(br, m)
        /\ ret' = "nil"
     \/ /\ br' = Drop(br, buffered)
        /\ ret' = "io"
        /\ UNCHANGED fpos

(* The rest is read with io.CopyN. *)
DiscardCopy(m) ==
  LET buffered == Unread(br) IN
  /\ buffered < m /\ ~Seekable
  /\ \E k \in 0 .. Least(m - buffered, Remaining) :
       /\ fpos' = fpos + k
       /\ br' = Drop(br, buffered + k)
       /\ \/ k = m - buffered /\ ret' = "nil"
          \/ k < m - buffered /\ fpos + k >= Len(file) /\ ret' = "EOF"
          \/ k < m - buffered /\ ret' = "io"

Discard(m) ==
  /\ pc = "idle"
  /\ DiscardBuffered(m) \/ DiscardSeek(m) \/ DiscardCopy(m)
  /\ got' = Nothing
  /\ UNCHANGED <<file, pc, todo>>
-----------------------------------------------------------------------------
(* seek.                                                                   *)

(* The part of the volume the buffer holds, its end included. *)
Buffered(b) == b.off - b.i .. b.off - b.i + n(b)

seek(offset) ==
  /\ pc = "idle"
  /\ \/ ~Seekable /\ ret' = "ErrInvalid" /\ UNCHANGED <<br, fpos>>
     \/ /\ Seekable /\ offset \in Buffered(br)
        /\ br' = Advance(br, offset - br.off)
        /\ ret' = "nil"
        /\ UNCHANGED fpos
     \/ /\ Seekable /\ offset \notin Buffered(br)
        /\ \/ /\ fpos' = offset
              /\ br' = [Drop(br, 0) EXCEPT !.off = offset]
              /\ ret' = "nil"
           \/ ret' = "io" /\ UNCHANGED <<br, fpos>>
  /\ got' = Nothing
  /\ UNCHANGED <<file, pc, todo>>
-----------------------------------------------------------------------------
(* writeToN.  Errors of the source and of the writer end the loop, and are *)
(* not returned ("return br.off - startOffset, nil").                      *)

writeToN(m) ==
  /\ pc = "idle" /\ m # 0
  /\ pc' = "write"
  /\ todo' = m
  /\ got' = Nothing
  /\ ret' = "nil"
  /\ UNCHANGED <<file, fpos, br>>

WriteStep ==
  /\ pc = "write"
  /\ \E o \in EnsureBuffered :
       /\ fpos' = o.pos
       /\ \/ /\ o.ret # "nil"
             /\ br' = o.br
             /\ pc' = "idle"
             /\ todo' = 0
             /\ got' = Nothing
          \/ LET len == IF todo > 0 THEN Least(todo, Unread(o.br))
                                    ELSE Unread(o.br) IN
             /\ o.ret = "nil"
             /\ \E l \in 0 .. len :
                  /\ br' = Advance(o.br, l)
                  /\ got' = Chunk(o.br, l)
                  /\ \/ l = todo /\ pc' = "idle" /\ todo' = 0    \* all done
                     \/ l < len /\ pc' = "idle" /\ todo' = 0     \* w failed
                     \/ /\ l = len /\ l # todo /\ pc' = "write"
                        /\ todo' = IF todo > 0 THEN todo - l ELSE todo
  /\ ret' = "nil"
  /\ UNCHANGED file
-----------------------------------------------------------------------------
(* Reset and findSig.                                                      *)

Reset(f) ==
  /\ pc \in {"idle", "failed"}
  /\ file' = f
  /\ fpos' = 0
  /\ br' = [br EXCEPT !.buf = <<>>, !.i = 0, !.off = 0]
  /\ pc' = "scan"
  /\ ret' = "nil"
  /\ got' = Nothing
  /\ UNCHANGED todo

(* Leaving findSig with an error; Reset reports EOF as ErrNoSig. *)
ScanFails(e) ==
  /\ pc' = "failed"
  /\ ret' = IF e = "EOF" THEN "ErrNoSig" ELSE e

\* the unread bytes that are the signature's first one
SigStarts(b) == {j \in b.i .. n(b) - 1 : b.buf[j + 1] = SigPrefix[1]}

PrefixAt(b) ==
  \A j \in 1 .. Len(SigPrefix) : b.buf[b.i + j] = SigPrefix[j]

\* seeded bug: after a mismatch the next byte is jumped over
SkipTwo(b) == IF PrefixAt(b) THEN Len(SigPrefix) ELSE 2
(* How far the scan moves on from a candidate that is no signature: behind *)
(* the first byte, or behind the prefix when only the version is wrong.    *)
Skip(b) == IF PrefixAt(b) THEN Len(SigPrefix) ELSE 1

(* The test at a candidate with Len(SigPrefix) + 2 bytes in the buffer. *)
CheckSig(b) ==
  LET v == b.buf[b.i + Len(SigPrefix) + 1]
      z == b.buf[b.i + Len(SigPrefix) + 2]
  IN \/ /\ PrefixAt(b) /\ (v = 0 \/ z = 0)
        /\ br' = [Advance(b, Len(SigPrefix) + (IF v = 0 THEN 1 ELSE 2))
                    EXCEPT !.ver = v]
        /\ pc' = "idle"
     \/ /\ ~(PrefixAt(b) /\ (v = 0 \/ z = 0))
        /\ br' = Advance(b, Skip(b))
        /\ pc' = "scan"

(* "br.n = copy(br.buf, br.buf[br.i:br.n]); br.i = 0" *)
Compact(b) ==
  [b EXCEPT !.buf = SubSeq(b.buf, b.i + 1, n(b)), !.i = 0]

(* A candidate too close to the end of the buffer: the bytes that are      *)
(* missing are read behind it with io.ReadAtLeast.                         *)
TopUp(b) ==
  LET c    == Compact(b)
      need == Len(SigPrefix) + 2 - n(c)
  IN \E l \in 0 .. Least(BufSize - n(c), Remaining) :
       LET d == Load(c, l) IN
       /\ fpos' = fpos + l
       /\ \/ l >= need /\ CheckSig(d) /\ ret' = "nil"
          \/ /\ l < need
             /\ br' = d
             /\ \/ fpos + l >= Len(file) /\ ScanFails("ErrNoSig")
                \/ ScanFails("io")

(* One iteration of the loop of findSig, in two steps: the buffer is       *)
(* filled if it is used up, and then searched.                             *)
ScanGivesUp ==
  /\ br.off > MaxSfxSize
  /\ ScanFails("ErrNoSig")
  /\ UNCHANGED <<fpos, br>>

ScanFill ==
  /\ br.off <= MaxSfxSize /\ Unread(br) = 0
  /\ \E o \in FillOutcomes :
       /\ br' = o.br
       /\ fpos' = o.pos
       /\ \/ o.ret # "nil" /\ ScanFails(o.ret)
          \/ o.ret = "nil" /\ pc' = "scan" /\ ret' = "nil"

ScanBuffer ==
  /\ br.off <= MaxSfxSize /\ Unread(br) # 0
  /\ \/ /\ SigStarts(br) = {}
        /\ br' = Advance(br, Unread(br))
        /\ pc' = "scan" /\ ret' = "nil"
        /\ UNCHANGED fpos
     \/ \E h \in SigStarts(br) :
          LET b == Advance(br, h - br.i) IN
          /\ \A j \in SigStarts(br) : h <= j
          /\ \/ /\ Unread(b) >= Len(SigPrefix) + 2
                /\ CheckSig(b)
                /\ ret' = "nil"
                /\ UNCHANGED fpos
             \/ Unread(b) < Len(SigPrefix) + 2 /\ TopUp(b)

FindSig ==
  /\ pc = "scan"
  /\ ScanGivesUp \/ ScanFill \/ ScanBuffer
  /\ got' = Nothing
  /\ UNCHANGED <<file, todo>>
-----------------------------------------------------------------------------
(* newBufVolumeReader starts the first Reset. *)
Init ==
  /\ file \in Files
  /\ fpos = 0
  /\ br = [buf |-> <<>>, i |-> 0, off |-> 0,
           err |-> "nil", ver |-> 0]
  /\ pc = "scan"
  /\ todo = 0
  /\ got = Nothing
  /\ ret = "nil"

Next ==
  \/ FindSig
  \/ \E p \in 1 .. MaxRequest : Read(p)
  \/ ReadByte
  \/ \E m \in 0 .. MaxRequest : br.off + m <= MaxOffset /\ Discard(m)
  \/ \E o \in 0 .. MaxOffset : seek(o)
  \/ \E m \in {-1} \cup 1 .. MaxRequest : writeToN(m)
  \/ WriteStep
  \/ \E f \in Files : Reset(f)

Spec == Init /\ [][Next]_vars
-----------------------------------------------------------------------------
StructOK(b) ==
  /\ b \in [buf : Seq(Nat), i : Nat, off : Nat, err : SourceErrors, ver : Nat]
  /\ n(b) <= BufSize /\ b.i <= n(b)

(* The state is made of the values the code's types allow. *)
TypeOK ==
  /\ file \in Files
  /\ fpos \in Nat
  /\ StructOK(br)
  /\ pc \in {"scan", "idle", "write", "failed"}
  /\ todo \in {-1} \cup Nat
  /\ got \in [at : Nat, data : Seq(Nat)]
  /\ ret \in Errors

(* The struct b describes file f whose reader stands at p. *)
Agrees(b, f, p) ==
  /\ b.i <= b.off
  /\ p = b.off + Unread(b)
  /\ \A j \in 1 .. n(b) : /\ b.off - b.i + j <= Len(f)
                          /\ b.buf[j] = f[b.off - b.i + j]

(* The bookkeeping of bufio.go agrees with the source: the buffer is the   *)
(* part of the volume that ends where the source stands, and off is the    *)
(* offset in the volume of the next byte to be handed out.  The in-buffer  *)
(* seek, Discard's two ways of skipping, a failed Seek and findSig's       *)
(* compaction all have to keep it.                                         *)
Coherent == Agrees(br, file, fpos)

(* Where a signature is, and what it takes up: findSig's definition of a   *)
(* signature, stated on the file instead of the buffer.                    *)
SigAt(f, p) ==
  /\ p + Len(SigPrefix) + 2 <= Len(f)
  /\ \A j \in 1 .. Len(SigPrefix) : f[p + j] = SigPrefix[j]
  /\ f[p + Len(SigPrefix) + 1] = 0 \/ f[p + Len(SigPrefix) + 2] = 0

SigSize(f, p) ==
  Len(SigPrefix) + IF f[p + Len(SigPrefix) + 1] = 0 THEN 1 ELSE 2

(* findSig stops right behind the first signature of the volume, however   *)
(* the source cuts the file into reads, and gives up only if there is none *)
(* in the first maxSfxSize bytes.                                          *)
FindsFirstSignature ==
  [][pc = "scan" =>
       /\ pc' = "idle" =>
            \E p \in 0 .. Len(file) :
              /\ SigAt(file, p) /\ \A q \in 0 .. p - 1 : ~SigAt(file, q)
              /\ br'.off = p + SigSize(file, p)
              /\ br'.ver = file[p + Len(SigPrefix) + 1]
       /\ ret' = "ErrNoSig" =>
            \A p \in 0 .. Least(MaxSfxSize, Len(file)) : ~SigAt(file, p)]_vars

(* The buffered reader is a cursor over the volume: bytes are handed out   *)
(* from where it stands, and EOF only from the end, through all mixes of   *)
(* reads, seeks, discards and failures of a source that returns no error   *)
(* along with bytes.                                                       *)
VS == INSTANCE VolumeStream WITH pos <- br.off
IsVolumeStream == VS!Spec
=============================================================================
