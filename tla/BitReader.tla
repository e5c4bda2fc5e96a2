------------------------------ MODULE BitReader ------------------------------
(***************************************************************************)
(* The bit readers under the decoders (bit_reader.go): rar5BitReader,      *)
(* which stops after a number of bits, and rarBitReader, which does not    *)
(* and can be aligned to a byte.                                           *)
(*                                                                         *)
(* The bits of the input are their own numbers, from 1, so that every bit  *)
(* that is handed out tells where it was taken from; 0 is a bit that was   *)
(* never in the input.  br.v holds the bits that were shifted into the     *)
(* field v; the last br.n of them are unread.                              *)
(***************************************************************************)
EXTENDS Integers, Sequences

CONSTANTS
  ByteBits,    \* bits of a byte, 8
  Limits,      \* arguments of setLimit
  Sizes,       \* numbers of bits asked for; "n must be less than integer
               \* size - 8" (bit_reader.go:43), br.n is a uint8
  MaxUnread    \* most bits given back at a time; maxCodeLength in the code

ASSUME BitAssumption ==
  /\ ByteBits \in 1 .. 127 /\ MaxUnread \in Nat
  /\ Limits \subseteq Int /\ Sizes \subseteq 0 .. 256 - ByteBits

VARIABLES
  limited,     \* it is a rar5BitReader, or else a rarBitReader
  bytes,       \* bytes in the input
  br,          \* at, the bytes taken from r, and the fields v, n and l
  start,       \* bits of the input in front of the limited ones
  limit,       \* argument of the last setLimit
  taken,       \* bits handed out since, without those given back
  asked,       \* bits the last call asked for, if it was readBits
  back,        \* bits that may be given back: those of the last read
  got, ret     \* the bits of the last call, its error

bitVars == <<limited, bytes, br, start, limit, taken, asked, back, got, ret>>

Byte(i) == [j \in 1 .. ByteBits |-> ByteBits * i + j]

\* seeded bug: the shift is left out
WindowUnshifted(v, k, drop) ==
  [j \in 1 .. k |-> LET i == Len(v) - k + j IN IF i >= 1 THEN v[i] ELSE 0]

\* (r.v >> drop) & (1 << k - 1): zeros above the bits that were shifted in
Window(v, k, drop) ==
  [j \in 1 .. k |-> LET i == Len(v) - drop - k + j IN IF i >= 1 THEN v[i] ELSE 0]
-----------------------------------------------------------------------------
\* seeded bug: the bits behind the limit stay in the cache
OvershotKept(b) == IF b.l >= 0 THEN b ELSE [b EXCEPT !.l = 0]

(* Bits are dropped from the cache; n is a uint8. *)
Without(b, extra) ==
  [b EXCEPT !.l = 0, !.n = (b.n + 256 - extra) % 256,
            !.v = SubSeq(b.v, 1, IF extra < Len(b.v) THEN Len(b.v) - extra ELSE 0)]

(* "overshot, discard the extra bits" *)
Overshot(b) == IF b.l >= 0 THEN b ELSE Without(b, (0 - b.l) % 256)

(* The next byte is shifted in. *)
LoadByte(b) ==
  LET t == [b EXCEPT !.at = b.at + 1, !.v = b.v \o Byte(b.at), !.n = b.n + ByteBits]
  IN IF limited THEN Overshot([t EXCEPT !.l = t.l - ByteBits]) ELSE t

(* The loop of readBits(k). *)
Loaded(b, k) ==
  LET Stops(t) == t.n >= k \/ (limited /\ t.l = 0) \/ t.at = bytes
      after[j \in Nat] ==
        IF j = 0 THEN b
        ELSE IF Stops(after[j - 1]) THEN after[j - 1] ELSE LoadByte(after[j - 1])
  IN after[bytes]

(* What readBits(k) makes of the fields and returns; ErrDecoderOutOfData:  *)
(* the input ended before the limit.                                       *)
BitsOf(b, k) ==
  LET t == Loaded(b, k) IN
  IF t.n >= k
    THEN [br |-> [t EXCEPT !.n = t.n - k], got |-> Window(t.v, k, t.n - k), err |-> "nil"]
    ELSE [br |-> t, got |-> <<>>,
          err |-> IF limited /\ t.l # 0 THEN "ErrDecoderOutOfData" ELSE "EOF"]

Returns(r) == br' = r.br /\ got' = r.got /\ ret' = r.err /\ back' = Len(r.got)

readBits(k) ==
  /\ Returns(BitsOf(br, k)) /\ asked' = k
  /\ taken' = taken + Len(got')
  /\ UNCHANGED <<start, limit, limited, bytes>>

(* Callers give back some of the bits of the last read, readSym all but    *)
(* the ones of the code word.                                              *)
unreadBits(k) ==
  /\ k <= back
  /\ br' = [br EXCEPT !.n = @ + k]
  /\ taken' = taken - k /\ asked' = 0 /\ back' = 0 /\ got' = <<>> /\ ret' = "nil"
  /\ UNCHANGED <<start, limit, limited, bytes>>

\* where the byte starts that follows the last bit handed out
NextByte == ((start + taken + ByteBits - 1) \div ByteBits) * ByteBits

(* ReadByte and Read go to r itself if there are no bits in the cache, and *)
(* past the limit.  readBlockHeader of decoder50 calls ReadByte at the end *)
(* of a block, decoder29 for the start of a PPM block.                     *)
ReadByte ==
  \/ br.n # 0 /\ readBits(ByteBits)
  \/ /\ br.n = 0 /\ (limited => br.l = 0)
     /\ \/ /\ br.at < bytes /\ br' = [br EXCEPT !.at = @ + 1]
           /\ got' = Byte(br.at) /\ ret' = "nil" /\ taken' = NextByte - start + ByteBits
        \/ /\ br.at = bytes /\ got' = <<>> /\ ret' = "EOF"
           /\ UNCHANGED <<br, taken>>
     /\ asked' = 0 /\ back' = 0
     /\ UNCHANGED <<start, limit, limited, bytes>>

(* Read of rarBitReader into a p of k bytes: what r's own Read gives, or,  *)
(* with bits in the cache, bytes up to the first one that cannot be read.  *)
Read(k) ==
  /\ ~limited
  /\ \/ /\ br.n = 0
        /\ \E m \in {j \in 0 .. k : (j = 0 <=> br.at = bytes) /\ br.at + j <= bytes} :
             /\ br' = [br EXCEPT !.at = @ + m]
             /\ got' = [j \in 1 .. ByteBits * m |-> ByteBits * br.at + j]
             /\ ret' = IF m = 0 THEN "EOF" ELSE "nil"
     \/ /\ br.n # 0
        /\ LET after[j \in Nat] ==
                 IF j = 0 THEN [br |-> br, got |-> <<>>, err |-> "nil"]
                 ELSE IF after[j - 1].err # "nil" THEN after[j - 1]
                 ELSE LET r == BitsOf(after[j - 1].br, ByteBits)
                      IN [r EXCEPT !.got = after[j - 1].got \o r.got]
           IN br' = after[k].br /\ got' = after[k].got /\ ret' = after[k].err
  /\ taken' = taken + Len(got') /\ asked' = 0 /\ back' = 0
  /\ UNCHANGED <<start, limit, limited, bytes>>

(* setLimit, at the start of a block. *)
setLimit(k) ==
  /\ limited /\ br.n = 0 /\ br.l = 0
  /\ br' = [br EXCEPT !.l = k, !.n = 0]
  /\ start' = ByteBits * br.at /\ limit' = k /\ taken' = 0
  /\ asked' = 0 /\ back' = 0 /\ got' = <<>> /\ ret' = "nil"
  /\ UNCHANGED <<limited, bytes>>

\* seeded bug: whole bytes that were read ahead are dropped too
AlignToNothing(k) == 0

Aligned(k) == k - (k % ByteBits)

(* alignByte, at the start of a block: the bits up to the next byte are    *)
(* taken to be read.                                                       *)
alignByte ==
  /\ ~limited
  /\ br' = [br EXCEPT !.n = Aligned(@)]
  /\ taken' = NextByte - start
  /\ asked' = 0 /\ back' = 0 /\ got' = <<>> /\ ret' = "nil"
  /\ UNCHANGED <<start, limit, limited, bytes>>

(* reset of rarBitReader, at the start of a file: the input is another.    *)
reset ==
  /\ ~limited
  /\ br' = [br EXCEPT !.at = 0, !.v = <<>>, !.n = 0]
  /\ taken' = 0 /\ asked' = 0 /\ back' = 0 /\ got' = <<>> /\ ret' = "nil"
  /\ UNCHANGED <<start, limit, limited, bytes>>

BitsInit ==
  /\ br = [at |-> 0, v |-> <<>>, n |-> 0, l |-> limit]
  /\ start = 0 /\ taken = 0 /\ asked = 0 /\ back = 0
  /\ got = <<>> /\ ret = "nil"

BitsNext ==
  \/ \E k \in Sizes : readBits(k)
  \/ \E k \in 1 .. MaxUnread : unreadBits(k)
  \/ ReadByte
  \/ Read(2)
  \/ \E k \in Limits : setLimit(k)
  \/ alignByte
  \/ reset
-----------------------------------------------------------------------------
(* Bits come out in the order of the input, none twice and none left out,  *)
(* however reads, bits given back and whole bytes are mixed; alignByte     *)
(* goes to the next byte that has not been started and no further.         *)
InOrder ==
  got = [j \in 1 .. Len(got) |-> start + taken - Len(got) + j]

(* "rar5BitReader is a bitReader that reads bytes from a byteReader and    *)
(* stops with io.EOF after l bits." (bit_reader.go:13): readBits never     *)
(* goes past them, and it says EOF only if there are not as many as are    *)
(* asked for.                                                              *)
StopsAtLimit ==
  limited /\ asked > 0 =>
    /\ ret = "nil" => taken <= limit
    /\ ret = "EOF" => taken + asked > limit
=============================================================================
