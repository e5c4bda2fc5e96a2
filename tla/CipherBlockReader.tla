-------------------------- MODULE CipherBlockReader --------------------------
(***************************************************************************)
(* cipherBlockReader (decrypt_reader.go): block mode decryption of a       *)
(* stream that arrives in pieces of any size.                              *)
(*                                                                         *)
(* Byte i of the input is <<"c", i>>, the byte it decrypts to <<"p", i>>.  *)
(* CBC is what it needs to be here: a block decrypts if it is a whole      *)
(* aligned block of the input and the block decrypted before it (chain) is *)
(* the one in front of it; anything else comes out as garbage.             *)
(***************************************************************************)
EXTENDS Integers, Sequences

CONSTANTS
  BlockSize,    \* mode.BlockSize(), 16 in the code
  InputLens,    \* how many bytes the input may have
  Callers       \* what callers may ask for: the lengths of the slices passed
                \* to Read (reads), the numbers passed to writeToN, -1 for all
                \* (writes), and whether ReadByte is called (bytes)

ASSUME SizeAssumption ==
  /\ BlockSize \in Nat \ {0} /\ InputLens \subseteq Nat
  /\ \A c \in Callers : /\ c.reads \subseteq Nat \ {0}
                         /\ c.writes \subseteq {-1} \cup Nat
                         /\ c.bytes \in BOOLEAN

VARIABLES
  len,          \* number of bytes in the input
  caller,       \* the caller, one of Callers
  rpos,         \* bytes taken from the input
  chain,        \* number of the block CBC decrypted last, -1 after garbage
  block,        \* cr.block
  inbuf,        \* len(cr.inbuf); its bytes are the first of block
  outbuf,       \* cr.outbuf
  todo,         \* bytes the running writeToN has left, 0 if none runs
  out,          \* everything handed out so far
  ret           \* error of the last call

cr == <<rpos, chain, block, inbuf, outbuf, out>>
vars == <<len, caller, cr, todo, ret>>

Raw(from, k) == [j \in 1 .. k |-> <<"c", from + j>>]
Plain(from, k) == [j \in 1 .. k |-> <<"p", from + j>>]
Garbage(k) == [j \in 1 .. k |-> <<"x", 0>>]
Left == len - rpos
Smaller(a, b) == IF a < b THEN a ELSE b
-----------------------------------------------------------------------------
(* External: cipher.NewCBCDecrypter.                                       *)

(* The blocks of s in order, and the state of the chain after them. *)
InSequence(s) ==
  /\ chain >= 0
  /\ s = Raw(chain * BlockSize, Len(s))

CryptBlocks(s) ==
  [data  |-> IF InSequence(s) THEN Plain(chain * BlockSize, Len(s))
                              ELSE Garbage(Len(s)),
   chain |-> IF InSequence(s) THEN chain + Len(s) \div BlockSize ELSE -1]

(* External: io.ReadAtLeast over the reader below.  Between min and max    *)
(* bytes arrive, or all that is left and an error.  ReadFull is the case   *)
(* min = max.                                                              *)
ReadAtLeast(min, max) ==
  {c \in [k : 0 .. Smaller(max, Left), err : {"nil", "EOF", "ErrUnexpectedEOF", "io"}] :
     /\ c.err = "nil" <=> c.k >= min
     /\ c.err = "EOF" => c.k = 0 /\ Left = 0
     /\ c.err = "ErrUnexpectedEOF" => c.k > 0 /\ c.k = Left}
-----------------------------------------------------------------------------
(* The l raw bytes kept in cr.block, with the k behind them. *)
BlockWith(l, k) == SubSeq(block, 1, l) \o Raw(rpos, k)

\* seeded bug: a block the input ends with is taken for the end itself
FillSeesEnd ==
  {[err  |-> IF c.err = "nil" /\ c.k = Left THEN "EOF" ELSE c.err, k |-> c.k,
    crypt |-> CryptBlocks(BlockWith(inbuf, c.k))] :
     c \in ReadAtLeast(BlockSize - inbuf, BlockSize - inbuf)}

(* How fillOutbuf may end: the bytes taken, the error, and what the block  *)
(* is decrypted to if there is none.  inbuf is not reset.                  *)
FillOutcomes ==
  {[err  |-> c.err, k |-> c.k, crypt |-> CryptBlocks(BlockWith(inbuf, c.k))] :
     c \in ReadAtLeast(BlockSize - inbuf, BlockSize - inbuf)}

(* At most want bytes of outbuf, which is filled first if it is empty.     *)
FromOutbuf(want) ==
  \/ /\ outbuf # <<>>
     /\ LET k == Smaller(want, Len(outbuf)) IN
        /\ out' = out \o SubSeq(outbuf, 1, k)
        /\ outbuf' = SubSeq(outbuf, k + 1, Len(outbuf))
     /\ ret' = "nil"
     /\ UNCHANGED <<rpos, chain, block, inbuf>>
  \/ /\ outbuf = <<>>
     /\ \E f \in FillOutcomes :
          /\ rpos' = rpos + f.k
          /\ ret' = f.err
          /\ \/ /\ f.err = "nil"
                /\ LET b == f.crypt.data
                       k == Smaller(want, BlockSize) IN
                   /\ out' = out \o SubSeq(b, 1, k)
                   /\ outbuf' = SubSeq(b, k + 1, BlockSize)
                   /\ block' = b                  \* decrypted in place
                /\ chain' = f.crypt.chain
             \/ /\ f.err # "nil"
                /\ UNCHANGED <<chain, block, outbuf, out>>
     /\ UNCHANGED inbuf

Running == todo = 0 /\ ret \in {"nil", "EOF"}  \* callers stop at an error

ReadByte ==
  /\ Running /\ caller.bytes
  /\ FromOutbuf(1)
  /\ UNCHANGED <<len, caller, todo>>

\* seeded bug: the incomplete block at the end is dropped
KeepNothing(k) == 0

(* How many of k raw bytes do not make up a whole block and are kept. *)
Keep(k) == k % BlockSize

Whole(k) == k - (k % BlockSize)

(* Read with a slice of p bytes. *)
Read(p) ==
  /\ Running
  /\ \/ (outbuf # <<>> \/ p < BlockSize) /\ FromOutbuf(p)
     \/ /\ outbuf = <<>> /\ p >= BlockSize
        /\ \E c \in ReadAtLeast(BlockSize - inbuf, Whole(p) - inbuf) :
             LET raw   == BlockWith(inbuf, c.k)
                 whole == Whole(Len(raw))
                 crypt == CryptBlocks(SubSeq(raw, 1, whole))
             IN /\ rpos' = rpos + c.k
                /\ ret' = c.err
                /\ \/ /\ c.err = "nil"
                      /\ inbuf' = Keep(Len(raw))
                      /\ block' = SubSeq(raw, whole + 1, Len(raw)) \o
                                  SubSeq(block, Len(raw) - whole + 1, BlockSize)
                      /\ chain' = crypt.chain
                      /\ out' = out \o crypt.data
                   \/ /\ c.err # "nil"
                      /\ inbuf' = 0
                      /\ UNCHANGED <<block, chain, out>>
        /\ UNCHANGED outbuf
  /\ UNCHANGED <<len, caller, todo>>

writeToN(m) ==
  /\ Running /\ m # 0
  /\ todo' = m
  /\ UNCHANGED <<len, caller, cr, ret>>

(* One iteration of writeToN.  Asked for all there is, it takes EOF for    *)
(* success.                                                                *)
WriteStep ==
  /\ todo # 0
  /\ FromOutbuf(IF todo > 0 THEN todo ELSE BlockSize)
  /\ todo' = IF ret' # "nil" THEN 0
             ELSE IF todo > 0 THEN todo - (Len(out') - Len(out)) ELSE todo
  /\ UNCHANGED <<len, caller>>

(* newCipherBlockReader. *)
Init ==
  /\ len \in InputLens /\ caller \in Callers
  /\ rpos = 0 /\ chain = 0 /\ inbuf = 0 /\ todo = 0
  /\ block = Garbage(BlockSize)
  /\ outbuf = <<>> /\ out = <<>>
  /\ ret = "nil"

Next ==
  \/ ReadByte
  \/ \E p \in caller.reads : Read(p)
  \/ \E m \in caller.writes : writeToN(m)
  \/ WriteStep

Spec == Init /\ [][Next]_vars
-----------------------------------------------------------------------------
(* What callers get is the plaintext, from its start, without a gap and    *)
(* without a byte that was decrypted out of turn, however the input was    *)
(* cut into pieces; and EOF is reported when every whole block has been    *)
(* handed out.                                                             *)
OutputIsPlaintext ==
  /\ out = Plain(0, Len(out))
  /\ ret = "EOF" => Len(out) = Whole(len)
=============================================================================
