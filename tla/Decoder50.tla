------------------------------ MODULE Decoder50 ------------------------------
(***************************************************************************)
(* decoder50 (decode50.go): RAR 5 decoding of one file after the other of  *)
(* an archive, with the same decoder.                                      *)
(*                                                                         *)
(* The packed data of a file is a sequence of units.  A block is a header, *)
(* the code length tables if it has new ones, and symbols; a symbol other  *)
(* than a literal and "again" is followed by its argument.  A code takes   *)
(* one unit, and readSym takes Ahead units from the source (maxCodeLength  *)
(* bits in the code) and gives back the ones it does not need.  A unit     *)
(* that is read with other tables than it was written with, or for another *)
(* thing than it is, is junk.                                              *)
(***************************************************************************)
EXTENDS Integers, Sequences, SequencesExt

CONSTANTS
  Solids,      \* solid archives, in which a file is always decoded to its
               \* end: sequences of files, as Pack makes them
  Plains,      \* archives that are not solid
  Ahead,       \* units readSym asks for
  Room         \* symbols that fit into the window until fill returns

ASSUME DecoderAssumption == Ahead \in Nat \ {0} /\ Room \in Nat \ {0}

VARIABLES
  arcSolid,    \* the archive is solid
  arc, cur,    \* the archive, the file that is decoded
  pos,         \* units taken from the file's data
  v, l,        \* d.br: the units in its cache, and how many may still be read
  lastBlock,   \* d.lastBlock
  tables,      \* which code length tables the huffman decoders have, or "none"
  offset,      \* d.offset
  length,      \* d.length
  room,        \* room in the window, 0 if fill does not run
  out,         \* what has been written for this file
  err          \* error of fill

br == <<pos, v, l>>
dec == <<lastBlock, tables, offset, length>>
vars == <<arcSolid, arc, cur, br, dec, room, out, err>>

Junk == [k |-> "junk"]
Smaller(a, b) == IF a < b THEN a ELSE b
-----------------------------------------------------------------------------
(* The packed data.  A block is [last, id, syms]: id names its own tables, *)
(* or is "none" if it goes on with the ones before it.                     *)

Args(s) == IF s.k \in {"lit", "again"} THEN <<>> ELSE <<[k |-> "arg", s |-> s]>>

BlockUnits(b, t) ==
  LET syms == FlattenSeq([i \in 1 .. Len(b.syms) |->
                <<[k |-> "sym", s |-> b.syms[i], t |-> t]>> \o Args(b.syms[i])])
      body == (IF b.id = "none" THEN <<>> ELSE <<[k |-> "table", id |-> b.id]>>) \o syms
  IN <<[k |-> "head", last |-> b.last, new |-> b.id # "none", len |-> Len(body),
        ok |-> b.ok]>> \o body

\* the tables block j of file f is written with
TablesOf(a, f, j) ==
  LET here == {i \in 1 .. j : a[f].blocks[i].id # "none"}
      prev == {i \in 1 .. Len(a[f - 1].blocks) : a[f - 1].blocks[i].id # "none"}
      Greatest(S) == CHOOSE i \in S : \A k \in S : k <= i
  IN IF here # {} THEN a[f].blocks[Greatest(here)].id
     ELSE a[f - 1].blocks[Greatest(prev)].id

\* the data of file f, of which the last cut units are missing
Units(a, f) ==
  LET all == FlattenSeq([j \in 1 .. Len(a[f].blocks) |->
                           BlockUnits(a[f].blocks[j], TablesOf(a, f, j))])
  IN SubSeq(all, 1, Len(all) - a[f].cut)

(* What a file is: its symbols, one after the other. *)
SymsOf(f) == FlattenSeq([j \in 1 .. Len(f.blocks) |-> f.blocks[j].syms])

Copy(len, off) == [k |-> "copy", len |-> len, off |-> off]

\* the history without offset i
Others(o, i) == SelectSeq([j \in 1 .. 4 |-> IF j = i THEN -1 ELSE o[j]], LAMBDA q : q # -1)

\* what file f writes, with the offsets and the length of before
Written(f, o, len) ==
  LET Do(h, s) ==
        CASE s.k = "lit" -> [h EXCEPT !.out = Append(@, s)]
          [] s.k = "filter" -> [h EXCEPT !.out = Append(@, [k |-> "filter"])]
          [] s.k = "again" -> [h EXCEPT !.out = Append(@, Copy(h.len, h.o[1]))]
          [] s.k = "new" -> [o |-> <<s.off>> \o SubSeq(h.o, 1, 3), len |-> s.len,
                             out |-> Append(h.out, Copy(s.len, s.off))]
          [] s.k = "old" -> [o |-> <<h.o[s.i]>> \o Others(h.o, s.i), len |-> s.len,
                             out |-> Append(h.out, Copy(s.len, h.o[s.i]))]
  IN FoldLeft(Do, [o |-> o, len |-> len, out |-> <<>>], SymsOf(f))

Fresh == [o |-> <<0, 0, 0, 0>>, len |-> 0, out |-> <<>>]

\* the offsets and the length after each file, and what it writes
After(a) ==
  LET after[f \in 0 .. Len(a)] ==
        IF f = 0 THEN Fresh
        ELSE LET h == IF a[f].solid THEN after[f - 1] ELSE Fresh IN Written(a[f], h.o, h.len)
  IN after

\* an archive: the data of its files, and what they are to write
Pack(a) ==
  LET after == After(a)
  IN [f \in 1 .. Len(a) |->
        [ver |-> 50, solid |-> a[f].solid, data |-> Units(a, f), want |-> after[f].out]]

Data == arc[cur].data
-----------------------------------------------------------------------------
(* The rar5BitReader in units (BitReader has it in bits).                  *)

(* A read of one unit that takes up to ahead units from the source. *)
ReadUnit(b, ahead) ==
  LET want == Smaller(ahead - Len(b.v), b.l)
      k == IF want <= 0 THEN 0 ELSE Smaller(want, Len(Data) - b.pos)
      c == [pos |-> b.pos + k, v |-> b.v \o SubSeq(Data, b.pos + 1, b.pos + k),
            l |-> b.l - k]
  IN CASE Len(c.v) < ahead /\ c.l > 0 -> [br |-> c, u |-> Junk, err |-> "ErrDecoderOutOfData"]
       [] (Len(c.v) >= ahead \/ c.l = 0) /\ c.v # <<>> ->
            [br |-> [c EXCEPT !.v = Tail(c.v)], u |-> Head(c.v), err |-> "nil"]
       [] OTHER -> [br |-> c, u |-> Junk, err |-> "EOF"]

BR == [pos |-> pos, v |-> v, l |-> l]
BRBecomes(b) == pos' = b.pos /\ v' = b.v /\ l' = b.l

\* seeded bug: the end of the data is taken for the end of a block
FailsRetry(e) ==
  IF e = "EOF" THEN UNCHANGED <<err, room>> ELSE err' = e /\ room' = 0

\* fill returns; "if err == io.EOF { return ErrDecoderOutOfData }"
Fails(e) ==
  /\ err' = IF e = "EOF" THEN "ErrDecoderOutOfData" ELSE e
  /\ room' = 0
-----------------------------------------------------------------------------
(* readBlockHeader.                                                        *)

\* seeded bug: every block is the last one
EndsFileAlways(u) == TRUE

EndsFile(u) == u.last

readBlockHeader(b) ==
  IF b.pos = Len(Data)
  THEN BRBecomes(b) /\ Fails("EOF") /\ UNCHANGED dec
  ELSE LET u == Data[b.pos + 1]
           c == [pos |-> b.pos + 1, v |-> <<>>, l |-> IF u.k = "head" THEN u.len ELSE 0]
       IN IF u.k # "head" \/ (u.k = "head" /\ ~u.ok)
          THEN /\ BRBecomes([b EXCEPT !.pos = b.pos + 1])
               /\ Fails("ErrCorruptDecodeHeader") /\ UNCHANGED dec
          ELSE /\ lastBlock' = EndsFile(u)
               /\ UNCHANGED <<offset, length>>
               /\ \/ /\ ~u.new /\ BRBecomes(c)
                     /\ UNCHANGED <<tables, room, err>>
                  \/ /\ u.new
                     /\ LET x == ReadUnit(c, 1) IN
                        /\ BRBecomes(x.br)
                        /\ \/ /\ x.err = "nil"
                              /\ tables' = IF x.u.k = "table" THEN x.u.id ELSE "none"
                              /\ UNCHANGED <<room, err>>
                           \/ x.err # "nil" /\ Fails(x.err) /\ UNCHANGED tables
-----------------------------------------------------------------------------
(* fill.                                                                   *)

Write(x) == out' = Append(out, x) /\ room' = room - 1 /\ UNCHANGED err

copyBytes(len, off) == Write(Copy(len, off))

\* seeded bug: the offsets in front of the one that is used are not moved
MoveToFrontSwaps(o, i) == [o EXCEPT ![1] = o[i], ![i] = o[1]]

\* "copy(d.offset[1:i+1], d.offset[:i]); d.offset[0] = offset"
MoveToFront(o, i) == <<o[i]>> \o SubSeq(o, 1, i - 1) \o SubSeq(o, i + 1, 4)

(* decodeLength(i): the offset is moved before the length is read. *)
decodeLength(x, s) ==
  /\ offset' = MoveToFront(offset, s.i)
  /\ BRBecomes(x.br)
  /\ \/ /\ x.err = "nil" /\ length' = s.len
        /\ copyBytes(s.len, offset'[1])
     \/ /\ x.err # "nil" /\ Fails(x.err)
        /\ UNCHANGED <<length, out>>

(* decodeOffset: the history is changed when all is read. *)
decodeOffset(x, s) ==
  /\ BRBecomes(x.br)
  /\ \/ /\ x.err = "nil"
        /\ offset' = <<s.off>> \o SubSeq(offset, 1, 3)
        /\ length' = s.len
        /\ copyBytes(s.len, s.off)
     \/ /\ x.err # "nil" /\ Fails(x.err)
        /\ UNCHANGED <<offset, length, out>>

(* readFilter: the filter is queued (DecodeReader has the queue). *)
readFilter(x, s) ==
  /\ BRBecomes(x.br)
  /\ \/ /\ x.err = "nil" /\ s.known /\ out' = Append(out, [k |-> "filter"])
        /\ UNCHANGED <<room, err>>
     \/ /\ x.err = "nil" /\ ~s.known /\ Fails("ErrUnknownFilter")
        /\ UNCHANGED out
     \/ x.err # "nil" /\ Fails(x.err) /\ UNCHANGED out
  /\ UNCHANGED <<offset, length>>

Symbol(u) == IF u.k = "sym" THEN IF u.t = tables THEN u.s ELSE Junk ELSE Junk

(* One iteration of the loop of fill. *)
FillStep ==
  /\ room > 0
  /\ \E m \in {ReadUnit(BR, Ahead)} :
     \E s \in {Symbol(m.u)}, x \in {ReadUnit(m.br, Ahead)} : \* what follows it
        \/ /\ m.err = "nil" /\ s.k \in {"lit", "junk"}
           /\ BRBecomes(m.br) /\ Write(s) /\ UNCHANGED dec
        \/ /\ m.err = "nil" /\ s.k = "again"
           /\ BRBecomes(m.br) /\ copyBytes(length, offset[1]) /\ UNCHANGED dec
        \/ /\ m.err = "nil" /\ s.k = "old" /\ decodeLength(x, s)
           /\ UNCHANGED <<lastBlock, tables>>
        \/ /\ m.err = "nil" /\ s.k = "new" /\ decodeOffset(x, s)
           /\ UNCHANGED <<lastBlock, tables>>
        \/ /\ m.err = "nil" /\ s.k = "filter" /\ readFilter(x, s)
           /\ UNCHANGED <<lastBlock, tables>>
        \/ /\ m.err = "EOF" /\ lastBlock
           /\ BRBecomes(m.br) /\ err' = "EOF" /\ room' = 0
           /\ UNCHANGED <<dec, out>>
        \/ /\ m.err = "EOF" /\ ~lastBlock
           /\ readBlockHeader(m.br) /\ UNCHANGED out
        \/ /\ m.err \notin {"nil", "EOF"}
           /\ BRBecomes(m.br) /\ Fails(m.err) /\ UNCHANGED <<dec, out>>
  /\ UNCHANGED <<arcSolid, arc, cur>>

(* decodeReader calls fill when the window has been read, and again after  *)
(* the end when the rest of a solid file is to be decoded.                 *)
Fill ==
  /\ room = 0 /\ err \in {"nil", "EOF"}
  /\ room' = Room /\ err' = "nil"
  /\ UNCHANGED <<arcSolid, arc, cur, br, dec, out>>
-----------------------------------------------------------------------------
(* init for the next file.                                                 *)

\* init is called with reset = !h.Solid
Resets(f) == ~f.solid

(* Next: in a solid archive the rest of the file is decoded first, in      *)
(* others the file has been read, to its size or to its end; the cache and *)
(* the limit of the bit reader stay.                                       *)
NextFile ==
  /\ room = 0 /\ cur < Len(arc)
  /\ IF arcSolid THEN err = "EOF" ELSE Len(out) = Len(arc[cur].want)
  /\ cur' = cur + 1
  /\ pos' = 0 /\ out' = <<>> /\ err' = "nil"
  /\ lastBlock' = FALSE
  /\ \/ Resets(arc[cur + 1]) /\ offset' = <<0, 0, 0, 0>> /\ length' = 0
     \/ ~Resets(arc[cur + 1]) /\ UNCHANGED <<offset, length>>
  /\ UNCHANGED <<arcSolid, arc, v, l, tables, room>>

Init ==
  /\ \/ arcSolid = TRUE /\ arc \in Solids
     \/ arcSolid = FALSE /\ arc \in Plains
  /\ cur = 1
  /\ pos = 0 /\ v = <<>> /\ l = 0
  /\ lastBlock = FALSE /\ tables = "none" /\ offset = <<0, 0, 0, 0>> /\ length = 0
  /\ room = 0 /\ out = <<>> /\ err = "nil"
-----------------------------------------------------------------------------
(* What is written to the window is what the file's symbols say, with the  *)
(* tables and the history the format gives them: blocks, the limit of the  *)
(* bit reader and the end of a file leave no trace.                        *)
WritesTheFile == IsPrefix(out, arc[cur].want)

(* A file is decoded to its end or to an error, whatever its data.         *)
FileEnds == []<>(err # "nil")
=============================================================================
