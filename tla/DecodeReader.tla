---------------------------- MODULE DecodeReader ----------------------------
(***************************************************************************)
(* decodeReader (decode_reader.go): the sliding window a decoder writes    *)
(* into, the queue of filters over it, and the reads that empty it.        *)
(*                                                                         *)
(* The decoder is external here: any sequence of literals, matches and     *)
(* filters that a compressed file may stand for.  hist is the data it      *)
(* stands for since the window was last cleared and marks the blocks its   *)
(* filters are for; both are kept to compare with, the code has neither.   *)
(*                                                                         *)
(* A byte of the window is a number.  A byte of the output is the number   *)
(* and the filters that have gone over it, each with the offset that it    *)
(* was given.                                                              *)
(***************************************************************************)
EXTENDS Integers, Sequences

CONSTANTS
  MinWindowSize,    \* minWindowSize
  MaxQueuedFilters, \* maxQueuedFilters
  ReadSizes,        \* lengths of the slices given to Read, n of writeToN
  Archives          \* the archives that are read, records of
                    \*   solid: the archive is solid
                    \*   sizes, versions: what files ask for
                    \*   features: what streams do, see below
                    \*   bytes, filters, files: bounds, on the bytes decoded,
                    \*     the filters of a file, and the files

(* "crossing": matches run over the end of the window.                     *)
(* "late": a filter is announced in the middle of another one's block.     *)
(* "far": a filter's block starts in the next lap of the window.           *)
Archive == [solid : BOOLEAN, sizes : SUBSET (Nat \ {0}), versions : SUBSET Nat,
            features : SUBSET {"crossing", "late", "far"},
            bytes : Nat, filters : Nat, files : Nat]

ASSUME SizeAssumption ==
  /\ MinWindowSize \in Nat \ {0} /\ MaxQueuedFilters \in Nat
  /\ ReadSizes \subseteq Nat \ {0}
ASSUME ArchiveAssumption == \A a \in Archives : a \in Archive

VARIABLES
  arch,         \* the archive, one of Archives
  win, w, r,    \* window, write index, read index; size is Len(win)
  fl,           \* queued filters: id, offset (relative), length
  outbuf, tot,  \* output not yet read, bytes moved to it for this file
  err,          \* d.err
  dec,          \* version of the decoder, 0 if there is none yet
  pc, back,     \* step of the running call; where fill returns to
  want,         \* bytes the running call is to deliver, -1 for all, and
                \* whether it goes on until it has them (writeToN)
  fbuf,         \* input of the filter that is being collected (bufBytes)
  hist, base, marks, ended, kept, files,   \* the stream, to compare with
  got, ret      \* bytes the last step delivered; error of the last call

d == <<win, w, r, fl, outbuf, tot, err, dec>>
stream == <<hist, base, marks, ended, kept, files, arch>>
call == <<pc, back, want, fbuf>>
vars == <<d, stream, call, got, ret>>

size == Len(win)
Smaller(a, b) == IF a < b THEN a ELSE b
Larger(a, b) == IF a < b THEN b ELSE a
Nothing == [at |-> 0, data |-> <<>>]
NoDemand == [n |-> 0, on |-> FALSE]
Delivered == tot - Len(outbuf)     \* bytes of this file callers have
-----------------------------------------------------------------------------
(* The window.                                                             *)

Put(win0, at, s) ==
  [j \in 1 .. Len(win0) |-> IF j - at \in 1 .. Len(s) THEN s[j - at] ELSE win0[j]]

(* copyBytes.  A match whose source lies ahead of w is copied up to the    *)
(* end of the window first and goes on from its start.  The rest repeats   *)
(* the bytes from i up to w, as the byte by byte loop does; it is cut off  *)
(* where the window ends.                                                  *)
copyBytes(length, offset) ==
  LET i   == (w - offset) % size
      len == length % size
      n1  == IF i > w THEN Smaller(len, size - i) ELSE 0
      a   == Put(win, w, [k \in 1 .. n1 |-> win[i + k]])
      w1  == w + n1
      i1  == IF i > w THEN 0 ELSE i
      n2  == Smaller(len - n1, size - w1)
      s   == [k \in 1 .. n2 |-> IF i1 = w1 THEN a[w1 + k]
                                          ELSE a[i1 + 1 + ((k - 1) % (w1 - i1))]]
  IN [win |-> Put(a, w1, s), w |-> w1 + n2]

Zeros(k) == [j \in 1 .. k |-> 0]

\* seeded bug: the old bytes are taken over in the order of the buffer
InitWindowUnordered(sz, reset) ==
  LET n == Larger(sz, MinWindowSize) IN
  CASE n > size /\ (reset \/ size = 0) -> [win |-> Zeros(n), w |-> 0]
    [] n > size /\ ~reset /\ size > 0 ->
         [win |-> win \o Zeros(n - size), w |-> size]
    [] n <= size /\ reset -> [win |-> Zeros(size), w |-> 0]
    [] n <= size /\ ~reset -> [win |-> win, w |-> w]

(* The window for a file: a larger one takes over the old one's bytes in   *)
(* the order they were written, unless they are not needed any more.       *)
InitWindow(sz, reset) ==
  LET n == Larger(sz, MinWindowSize) IN
  CASE n > size /\ (reset \/ size = 0) -> [win |-> Zeros(n), w |-> 0]
    [] n > size /\ ~reset /\ size > 0 ->
         [win |-> SubSeq(win, w + 1, size) \o SubSeq(win, 1, w)
                    \o Zeros(n - size), w |-> size]
    [] n <= size /\ reset -> [win |-> Zeros(size), w |-> 0]
    [] n <= size /\ ~reset -> [win |-> win, w |-> w]
-----------------------------------------------------------------------------
(* Ends of a call, and of the fill in it.                                  *)

Return(e) ==
  /\ pc' = "idle"
  /\ ret' = IF e = "EOF" /\ want.n < 0 THEN "nil" ELSE e
  /\ got' = Nothing
  /\ want' = NoDemand
  /\ fbuf' = <<>>

(* fill, up to the call of the decoder.  An error that came with data is   *)
(* reported first.  A full window wraps.                                   *)
fill(to) ==
  \/ /\ err # "nil"
     /\ Return(err)
     /\ err' = "nil"
     /\ UNCHANGED <<w, r, back>>
  \/ /\ err = "nil"
     /\ pc' = "fill" /\ back' = to
     /\ IF w = size THEN w' = 0 /\ r' = 0 ELSE UNCHANGED <<w, r>>
     /\ got' = Nothing
     /\ UNCHANGED <<err, ret, want, fbuf>>

\* seeded bug: an error does not wait for the data that came with it
FillReturnsAtOnce(e, w1) ==
  \/ (w1 = r \/ e # "nil") /\ Return(e) /\ err' = "nil"
  \/ /\ w1 # r /\ e = "nil" /\ pc' = back /\ err' = e /\ got' = Nothing
     /\ UNCHANGED <<ret, want, fbuf>>

\* seeded bug: an EOF that comes without data is dropped
FillReturnsSilent(e, w1) ==
  \/ w1 = r /\ e # "EOF" /\ Return(e) /\ err' = "nil"
  \/ /\ w1 # r \/ e = "EOF"
     /\ pc' = back /\ err' = (IF w1 = r THEN "nil" ELSE e) /\ got' = Nothing
     /\ UNCHANGED <<ret, want, fbuf>>

(* The decoder returns e with the write index at w1. *)
FillReturns(e, w1) ==
  \/ w1 = r /\ Return(e) /\ err' = "nil"
  \/ /\ w1 # r /\ pc' = back /\ err' = e /\ got' = Nothing
     /\ UNCHANGED <<ret, want, fbuf>>
-----------------------------------------------------------------------------
(* The decoder (external), which works until the window is full.           *)

Decoding == pc = "fill" /\ w < size /\ ~ended

\* a byte of the stream, and the window's part in holding it
Extend(bytes) ==
  /\ hist' = hist \o bytes
  /\ kept' = Smaller(kept + Len(bytes), size)

writeByte ==
  /\ Decoding /\ Len(hist) < arch.bytes
  /\ win' = Put(win, w, <<Len(hist) + 1>>)
  /\ w' = w + 1
  /\ Extend(<<Len(hist) + 1>>)
  /\ got' = Nothing
  /\ UNCHANGED <<r, fl, outbuf, tot, err, dec, base, marks, ended, files, arch>>
  /\ UNCHANGED <<call, ret>>

Match(length, offset) ==
  /\ Decoding /\ Len(hist) + length <= arch.bytes
  /\ offset <= kept /\ length < size
  /\ "crossing" \in arch.features \/ w + length <= size
  /\ LET c == copyBytes(length, offset) IN win' = c.win /\ w' = c.w
  /\ Extend([k \in 1 .. length |-> hist[Len(hist) - offset + 1 + ((k - 1) % offset)]])
  /\ got' = Nothing
  /\ UNCHANGED <<r, fl, outbuf, tot, err, dec, base, marks, ended, files, arch>>
  /\ UNCHANGED <<call, ret>>

\* a block that filters may be put on: behind the earlier ones, or one of them
BlockAllowed(start, length) ==
  /\ start + length <= arch.bytes
  /\ \A m \in 1 .. Len(marks) :
       \/ marks[m].start + marks[m].length <= start
       \/ marks[m].start = start /\ marks[m].length = length

\* the bytes between the read index and the first queued filter are counted
\* from the read index, the ones to a later filter from the one before it
Queued == [k \in 1 .. Len(fl) |-> fl[k].offset]
QueuedUpTo == LET Add[k \in 0 .. Len(fl)] ==
                    IF k = 0 THEN 0 ELSE Add[k - 1] + Queued[k]
              IN Add[Len(fl)]

\* seeded bug: the offset stays relative to the write index
RelativeToWrite(offset) == offset - QueuedUpTo

(* Offset to the previous filter, of one that is offset bytes from w. *)
Relative(offset) == offset + (w - r) - QueuedUpTo

queueFilter(offset, length) ==
  /\ Decoding /\ Len(marks) < arch.filters
  /\ length > 0 /\ BlockAllowed(Len(hist) + offset, length)
  /\ "late" \in arch.features \/ back # "buf"
  /\ "far" \in arch.features \/ w + offset < size
  /\ \/ /\ Len(fl) < MaxQueuedFilters /\ Relative(offset) >= 0
        /\ fl' = Append(fl, [id |-> Len(marks) + 1,
                             offset |-> Relative(offset) % size,
                             length |-> length % size])
        /\ got' = Nothing
        /\ UNCHANGED <<err, call, ret>>
     \/ /\ Len(fl) >= MaxQueuedFilters
        /\ FillReturns("ErrTooManyFilters", w)
        /\ UNCHANGED <<fl, back>>
     \/ /\ Len(fl) < MaxQueuedFilters /\ Relative(offset) < 0
        /\ FillReturns("ErrInvalidFilter", w)
        /\ UNCHANGED <<fl, back>>
  /\ marks' = Append(marks, [start |-> Len(hist) + offset, length |-> length])
  /\ UNCHANGED <<win, w, r, outbuf, tot, dec, hist, base, ended, kept, files, arch>>

Full ==
  /\ pc = "fill" /\ w = size
  /\ FillReturns("nil", w)
  /\ UNCHANGED <<win, w, r, fl, outbuf, tot, dec, back, stream>>

(* The end of the file, which no filter's block reaches over. *)
EndOfFile ==
  /\ pc = "fill" /\ w < size
  /\ \A m \in 1 .. Len(marks) : marks[m].start + marks[m].length <= Len(hist)
  /\ ended' = TRUE
  /\ FillReturns("EOF", w)
  /\ UNCHANGED <<win, w, r, fl, outbuf, tot, dec, back>>
  /\ UNCHANGED <<hist, base, marks, kept, files, arch>>

\* damaged input
DecoderFails ==
  /\ Decoding
  /\ FillReturns("corrupt", w)
  /\ UNCHANGED <<win, w, r, fl, outbuf, tot, dec, back, stream>>
-----------------------------------------------------------------------------
(* decode.                                                                 *)

Unfiltered(s) == [j \in 1 .. Len(s) |-> [byte |-> s[j], by |-> <<>>]]

\* n bytes from the read index are the next output
Emit(n) ==
  /\ outbuf' = Unfiltered(SubSeq(win, r + 1, r + n))
  /\ r' = r + n
  /\ tot' = tot + n

decode ==
  /\ pc = "decode"
  /\ \/ /\ w = r /\ fill("decode2")
        /\ UNCHANGED <<win, fl, outbuf, tot, dec>>
     \/ /\ w # r /\ pc' = "decode2" /\ got' = Nothing
        /\ UNCHANGED <<d, back, want, fbuf, ret>>
  /\ UNCHANGED stream

(* The bytes up to the first filter are output as they are; at the filter  *)
(* its input is collected.                                                 *)
decode2 ==
  /\ pc = "decode2"
  /\ \/ /\ fl = <<>>
        /\ Emit(w - r)
        /\ pc' = "serve" /\ got' = Nothing
        /\ UNCHANGED <<fl, want, fbuf, ret>>
     \/ /\ fl # <<>> /\ fl[1].offset < 0
        /\ Return("ErrInvalidFilter")
        /\ UNCHANGED <<r, fl, outbuf, tot>>
     \/ /\ fl # <<>> /\ fl[1].offset > 0
        /\ Emit(Smaller(fl[1].offset, w - r))
        /\ fl' = [fl EXCEPT ![1].offset = @ - Smaller(fl[1].offset, w - r)]
        /\ pc' = "serve" /\ got' = Nothing
        /\ UNCHANGED <<want, fbuf, ret>>
     \/ /\ fl # <<>> /\ fl[1].offset = 0
        /\ pc' = "buf" /\ fbuf' = <<>> /\ got' = Nothing
        /\ UNCHANGED <<r, fl, outbuf, tot, want, ret>>
  /\ UNCHANGED <<win, w, err, dec, back, stream>>

(* bufBytes: the part of the block that is in the window, and, as long as  *)
(* it is not all of it, another fill.                                      *)
bufBytes ==
  /\ pc = "buf"
  /\ LET n == Smaller(fl[1].length - Len(fbuf), w - r) IN
     /\ n > 0
     /\ fbuf' = fbuf \o SubSeq(win, r + 1, r + n)
     /\ r' = r + n
     /\ got' = Nothing
     /\ UNCHANGED <<win, w, fl, outbuf, tot, err, dec, pc, back, want, ret>>
  /\ UNCHANGED stream

bufMore ==
  /\ pc = "buf" /\ w = r /\ Len(fbuf) < fl[1].length
  /\ fill("buf")
  /\ UNCHANGED <<win, fl, outbuf, tot, dec, stream>>

\* how many filters, from the first, are for the block that was collected
SameBlock ==
  CHOOSE k \in 1 .. Len(fl) :
    /\ \A j \in 2 .. k : fl[j].offset = 0
    /\ k < Len(fl) => fl[k + 1].offset # 0

\* seeded bug: the filter behind the block keeps its offset
NextFilterUnmoved(k) == SubSeq(fl, k + 1, Len(fl))

(* The queue after its first k filters: "f.offset -= flen". *)
NextFilter(k) ==
  [j \in 1 .. Len(fl) - k |->
     IF j = 1 THEN [fl[k + 1] EXCEPT !.offset = @ - fl[1].length] ELSE fl[k + j]]

processFilters ==
  /\ pc = "buf" /\ Len(fbuf) = fl[1].length
  /\ \/ /\ \A j \in 2 .. SameBlock : fl[j].length = Len(fbuf)
        /\ outbuf' = [p \in 1 .. Len(fbuf) |->
             [byte |-> fbuf[p],
              by |-> [j \in 1 .. SameBlock |-> [id |-> fl[j].id, at |-> tot]]]]
        /\ fl' = NextFilter(SameBlock)
        /\ tot' = tot + Len(fbuf)
        /\ pc' = "serve" /\ fbuf' = <<>> /\ got' = Nothing
        /\ UNCHANGED <<want, ret>>
     \/ \E j \in 2 .. SameBlock :
          /\ fl[j].length # Len(fbuf)
          /\ \A k \in 2 .. j - 1 : fl[k].length = Len(fbuf)
          /\ fl' = SubSeq(fl, j, Len(fl))
          /\ outbuf' = <<>>
          /\ Return("ErrInvalidFilter")
          /\ UNCHANGED tot
  /\ UNCHANGED <<win, w, r, err, dec, back, stream>>
-----------------------------------------------------------------------------
(* Read, ReadByte, writeToN and WriteTo.                                   *)

Ready == pc = "idle" /\ ret \in {"nil", "EOF"}   \* callers stop at an error

Deliver(k) ==
  /\ got' = [at |-> Delivered, data |-> SubSeq(outbuf, 1, k)]
  /\ outbuf' = SubSeq(outbuf, k + 1, Len(outbuf))
  /\ UNCHANGED <<win, w, r, fl, tot, err, dec, back, stream, ret>>

Read(p) ==
  /\ Ready
  /\ \/ /\ outbuf # <<>>
        /\ Deliver(Smaller(p, Len(outbuf)))
        /\ UNCHANGED <<pc, want, fbuf>>
     \/ /\ outbuf = <<>>
        /\ pc' = "decode" /\ want' = [n |-> p, on |-> FALSE] /\ got' = Nothing
        /\ UNCHANGED <<d, stream, back, fbuf, ret>>

ReadByte == Read(1)

writeToN(n) ==
  /\ Ready
  /\ pc' = IF outbuf = <<>> THEN "decode" ELSE "serve"
  /\ want' = [n |-> n, on |-> TRUE] /\ got' = Nothing
  /\ UNCHANGED <<d, stream, back, fbuf, ret>>

\* also for the files a solid archive's reader skips
WriteTo == writeToN(-1)

(* What decode has put into outbuf goes to the caller; writeToN goes on    *)
(* until it has n bytes, to the end of the file if n is -1.                *)
serve ==
  /\ pc = "serve"
  /\ LET k == IF want.n < 0 THEN Len(outbuf) ELSE Smaller(want.n, Len(outbuf))
     IN /\ Deliver(k)
        /\ \/ /\ want.on /\ want.n # k
              /\ pc' = "decode"
              /\ want' = [want EXCEPT !.n = IF @ < 0 THEN @ ELSE @ - k]
           \/ /\ ~want.on \/ want.n = k
              /\ pc' = "idle" /\ want' = NoDemand
  /\ UNCHANGED fbuf
-----------------------------------------------------------------------------
(* nextFile and init.                                                      *)

DecoderVersion(v) == IF v = 70 THEN 50 ELSE v   \* dec.version()

(* A solid archive's file is read to its end (by nextFile, if the caller   *)
(* has not) before the next one starts.                                    *)
init(v, sz, reset) ==
  /\ pc \in {"new", "idle"} /\ files < arch.files
  /\ pc = "idle" /\ arch.solid => ended /\ Delivered = Len(hist) - base
  /\ ret # "ErrMultipleDecoders"
  /\ ~reset => arch.solid /\ pc = "idle"
  /\ outbuf' = <<>> /\ tot' = 0 /\ err' = "nil"
  /\ LET n == InitWindow(sz, reset) IN
     /\ win' = n.win /\ w' = n.w /\ r' = n.w
     /\ kept' = IF reset THEN 0 ELSE kept
  /\ fl' = IF reset THEN <<>> ELSE fl
  /\ pc' = "idle" /\ got' = Nothing
  /\ \/ /\ dec = 0 /\ dec' = DecoderVersion(v) /\ ret' = "nil"
     \/ /\ dec # 0 /\ UNCHANGED dec
        /\ ret' = IF dec = v THEN "nil" ELSE "ErrMultipleDecoders"
  /\ hist' = IF reset THEN <<>> ELSE hist
  /\ base' = IF reset THEN 0 ELSE Len(hist)
  /\ marks' = <<>> /\ ended' = FALSE
  /\ files' = files + 1
  /\ UNCHANGED <<back, want, fbuf, arch>>

Init ==
  /\ arch \in Archives
  /\ win = <<>> /\ w = 0 /\ r = 0 /\ fl = <<>>
  /\ outbuf = <<>> /\ tot = 0 /\ err = "nil" /\ dec = 0
  /\ pc = "new" /\ back = "decode2" /\ want = NoDemand /\ fbuf = <<>>
  /\ hist = <<>> /\ base = 0 /\ marks = <<>> /\ ended = FALSE /\ kept = 0
  /\ files = 0
  /\ got = Nothing /\ ret = "nil"

Decoder ==
  \/ writeByte
  \/ \E length \in 1 .. size, offset \in 1 .. size : Match(length, offset)
  \/ \E offset \in 0 .. size, length \in 1 .. size - 1 : queueFilter(offset, length)
  \/ Full
  \/ EndOfFile
  \/ DecoderFails

Call == decode \/ decode2 \/ bufBytes \/ bufMore \/ processFilters \/ serve

Next ==
  \/ Decoder
  \/ Call
  \/ \E p \in ReadSizes : Read(p)
  \/ ReadByte
  \/ \E n \in ReadSizes : writeToN(n)
  \/ WriteTo
  \/ \E v \in arch.versions, sz \in arch.sizes, reset \in BOOLEAN : init(v, sz, reset)

Spec == Init /\ [][Next]_vars

(* A call runs until it returns, and a decoder that is called goes on: it  *)
(* fills the window or comes to the end of its input.                      *)
FairSpec == Spec /\ WF_vars(Call) /\ WF_vars(Decoder)
-----------------------------------------------------------------------------
\* the streams that have none of the features the code does not cope with
Ordinary == arch.features = {}

(* The window holds the last bytes of the stream, in order around the end  *)
(* of the buffer: what a match of any length and offset will find.         *)
WindowIsHistory ==
  "crossing" \notin arch.features =>
  \A q \in 1 .. kept :
    win[((w - q) % size) + 1] = hist[Len(hist) - q + 1]

Over(m, q) == marks[m].start < q /\ q <= marks[m].start + marks[m].length

(* x is byte q of the stream, gone over by the filters whose blocks it is  *)
(* in, all of them, in the order they were announced, each of them given   *)
(* the block's offset in the file.                                         *)
Exact(x, q) ==
  /\ x.byte = hist[q]
  /\ \A k \in 1 .. Len(x.by) :
       LET m == x.by[k].id IN
         /\ m \in 1 .. Len(marks) /\ Over(m, q)
         /\ x.by[k].at = marks[m].start - base
         /\ \A j \in 1 .. k - 1 : x.by[j].id < m
  /\ \A m \in 1 .. Len(marks) : Over(m, q) => \E k \in 1 .. Len(x.by) : x.by[k].id = m

(* Every byte a caller gets is the file's next one, with exactly the       *)
(* filters that were announced for it, however the window wrapped and      *)
(* however the reads were cut; no filter of a sound stream is refused.     *)
OutputExact ==
  Ordinary => /\ ret # "ErrInvalidFilter"
              /\ \A j \in 1 .. Len(got.data) : Exact(got.data[j], base + got.at + j)

(* EOF is reported when all of the file has been delivered: an error that  *)
(* the decoder returned along with data waits for its turn.                *)
EOFComplete ==
  Ordinary /\ ret = "EOF" => ended /\ Delivered = Len(hist) - base

(* A call returns. *)
CallReturns == (pc # "idle" /\ pc # "new") ~> pc = "idle"
=============================================================================
