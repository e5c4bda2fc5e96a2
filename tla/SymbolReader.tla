---------------------------- MODULE SymbolReader ----------------------------
(***************************************************************************)
(* Symbols read through a bit reader: readSym of huffmanDecoder            *)
(* (huffman.go) on top of the fields of either bit reader.  It reads the   *)
(* longest code, finds the symbol with the quick tables or the limits and  *)
(* gives the rest back; near the end of the input or of the limit it goes  *)
(* a bit at a time.                                                        *)
(***************************************************************************)
EXTENDS BitReader, Huffman

CONSTANTS
  NoTable,      \* stands for a reader that is used without tables
  RawBytes,     \* bytes in the input of such a reader
  SymBytes,     \* bytes in the input symbols are read from
  SymLimits     \* limits of such inputs, 0 for no limit

ASSUME InputAssumption ==
  {RawBytes, SymBytes} \subseteq Nat /\ SymLimits \subseteq Nat

VARIABLES
  codeLengths,  \* the lengths given to init, or NoTable
  h,            \* the huffmanDecoder
  input,        \* the bits, by their numbers
  from,         \* where the last readSym started
  sym           \* its symbol

vars == <<bitVars, codeLengths, h, input, from, sym>>

At == start + taken

\* the bits read, left-aligned in MaxCodeLength
Value(bits) ==
  MapThenSumSet(LAMBDA i : input[bits[i]] * 2 ^ (MaxCodeLength - i), DOMAIN bits)

(* b bits are read and s is the symbol. *)
Found(b, s) ==
  taken' = taken + b /\ sym' = s /\ ret' = "nil"

(* The symbol of a code of b bits. *)
Lookup(v, b) ==
  LET k == index(h.limit, h.pos, v, b) IN
  IF k < Symbols THEN Found(b, h.symbol[k])
  ELSE taken' = taken + b /\ sym' = 0 /\ ret' = "ErrHuffDecodeFailed"

\* seeded bug: the bits behind the code word are not given back
KeptAll(b, k) == b

\* unreadBits(k)
GivenBack(b, k) == [b EXCEPT !.n = @ + k]

QuickSym(r, v) ==
  /\ v < h.limit[QuickBits]
  /\ LET i == v \div 2 ^ (MaxCodeLength - QuickBits) IN
     /\ br' = GivenBack(r.br, MaxCodeLength - h.quicklen[i])
     /\ Found(h.quicklen[i], h.quicksym[i])

SlowSym(r, v) ==
  /\ v >= h.limit[QuickBits]
  /\ LET b == Min({i \in h.min .. MaxCodeLength : i = MaxCodeLength \/ v < h.limit[i]}) IN
     /\ br' = GivenBack(r.br, MaxCodeLength - b)
     /\ Lookup(v, b)

(* "fall back to 1 bit at a time if we read past EOF" *)
LastSym(r) ==
  LET single[b \in 0 .. MaxCodeLength] ==
        IF b = 0 THEN [r EXCEPT !.err = "nil"]
        ELSE IF single[b - 1].err # "nil" THEN single[b - 1]
        ELSE LET s == BitsOf(single[b - 1].br, 1)
             IN [s EXCEPT !.got = single[b - 1].got \o s.got]
      Ends(b) == single[b].err # "nil" \/ Value(single[b].got) < h.limit[b]
      b == Min({i \in 1 .. MaxCodeLength : i = MaxCodeLength \/ Ends(i)})
  IN /\ br' = single[b].br
     /\ \/ /\ single[b].err = "nil" /\ Lookup(Value(single[b].got), b)
        \/ /\ single[b].err # "nil"
           /\ taken' = taken + Len(single[b].got) /\ sym' = 0 /\ ret' = single[b].err

readSym ==
  /\ codeLengths # NoTable /\ ret = "nil"
  /\ LET r == BitsOf(br, MaxCodeLength) IN
     \/ r.err = "nil" /\ (QuickSym(r, Value(r.got)) \/ SlowSym(r, Value(r.got)))
     \/ r.err = "EOF" /\ LastSym(r)
     \/ /\ r.err = "ErrDecoderOutOfData"
        /\ br' = r.br /\ ret' = r.err /\ sym' = 0 /\ UNCHANGED taken
  /\ from' = At /\ got' = <<>> /\ asked' = 0 /\ back' = 0
  /\ UNCHANGED <<limited, bytes, start, limit, codeLengths, h, input>>

(* Bits in front of the first symbol, so that it starts anywhere in a byte. *)
ReadFirst(k) ==
  /\ codeLengths # NoTable /\ taken = 0
  /\ readBits(k) /\ ret' = "nil"
  /\ from' = At' /\ sym' = 0
  /\ UNCHANGED <<codeLengths, h, input>>

(* Any other use of the reader. *)
UseReader ==
  /\ codeLengths = NoTable
  /\ BitsNext
  /\ UNCHANGED <<codeLengths, h, input, from, sym>>

(* A reader of its own, or one with tables at the start of a block.        *)
Init ==
  /\ from = 0 /\ sym = 0
  /\ \/ /\ bytes = RawBytes /\ limited \in BOOLEAN /\ limit = 0
        /\ codeLengths = NoTable /\ h = NoTable
        /\ input = [i \in 1 .. ByteBits * bytes |-> 0]
     \/ /\ bytes = SymBytes /\ limit \in SymLimits /\ limited = (limit # 0)
        /\ codeLengths \in [Syms -> 0 .. MaxCodeLength]
        /\ Total(codeLengths) <= 2 ^ MaxCodeLength
        /\ h = init(codeLengths)
        /\ input \in [1 .. ByteBits * bytes -> {0, 1}]
  /\ BitsInit

Next == readSym \/ (\E k \in 1 .. 2 : ReadFirst(k)) \/ UseReader

Spec == Init /\ [][Next]_vars
-----------------------------------------------------------------------------
(* Bits symbols can be read from. *)
End == IF limited /\ limit < ByteBits * bytes THEN limit ELSE ByteBits * bytes

(* The code of s is what the input has at from. *)
Matches(s) ==
  /\ from + codeLengths[s] <= End
  /\ CodeOf(codeLengths, s) = Value([i \in 1 .. codeLengths[s] |-> from + i])

(* For lengths that are those of a code, and an input with all the bits of *)
(* the limit, whichever way readSym takes and wherever bytes and limit end *)
(* it reads the code of the symbol it returns and no bit more; it reports  *)
(* the end only if what is left starts no code; and if the code is         *)
(* complete it never fails.                                                *)
DecodesCanonical ==
  (codeLengths # NoTable /\ At > from /\ limit <= ByteBits * bytes) =>
    /\ \A s \in Used(codeLengths) : Matches(s) =>
         ret = "nil" /\ sym = s /\ At = from + codeLengths[s]
    /\ Total(codeLengths) = 2 ^ MaxCodeLength =>
         /\ ret # "ErrHuffDecodeFailed"
         /\ ret = "nil" => \E s \in Used(codeLengths) : Matches(s)
=============================================================================
