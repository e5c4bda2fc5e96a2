----------------------------- MODULE OldDecoders -----------------------------
(***************************************************************************)
(* decoder29 (decode29*.go) and decoder20 (decode20*.go) beside decoder50: *)
(* the decoders decodeReader may have, one per archive.                    *)
(*                                                                         *)
(* Data is in the units of OldFormats.  The bit reader is a place in the   *)
(* data: SymbolReader has what rarBitReader does, which reset leaves       *)
(* nothing of.  A unit that is read with other tables, for another         *)
(* channel or in another state of the PPM model than it was written in is  *)
(* junk.  The filters of 2.9 are V3Filters', the PPM model PpmModel's.     *)
(***************************************************************************)
EXTENDS Decoder50, OldFormats

VARIABLE old    \* the fields of decoder29 and decoder20 that decoder50 has not

oldVars == <<vars, old>>

Ver == arc[1].ver
Unit(i) == IF pos + i <= Len(Data) THEN Data[pos + i] ELSE [k |-> "none"]
Advance(n) == pos' = Smaller(pos + n, Len(Data))
GoesOn == UNCHANGED <<room, err>>
-----------------------------------------------------------------------------
(* readBlockHeader of both.                                                *)

HeadOf(u) == IF u.k = "head" THEN u.alt ELSE old.alt

\* ErrInvalidLengthTable of readCodeLengthTable
Broken(u) == u.k = "table" /\ u.id = "bad"

\* the new tables, added to the ones in base
TablesAfter(base, u) == IF u.k = "table" THEN Append(base, u.id) ELSE <<"junk">>

\* seeded bug: a later block goes on with the low bits of the one before
LzInitKeepsLow(d, u) ==
  [d EXCEPT !.tables = TablesAfter(IF u.k = "table" /\ u.keep THEN d.tables ELSE <<>>, u)]

\* lz29Decoder.init
LzInit(d, u) ==
  [d EXCEPT !.lowOffset = 0, !.lowRepeats = 0,
            !.tables = TablesAfter(IF u.k = "table" /\ u.keep THEN d.tables ELSE <<>>, u)]

\* ppm29Decoder.init: the escape byte stays if the header has none
PpmInit(d, u) ==
  [d EXCEPT !.esc = IF u.k = "ppm" /\ u.esc # 0 THEN u.esc ELSE @,
            !.model = IF u.k = "ppm" /\ u.reset THEN [id |-> u.id, n |-> 0] ELSE @]

readBlockHeader29 ==
  LET head == Unit(1)
      body == Unit(2)
      d == [old EXCEPT !.hdrRead = TRUE, !.alt = HeadOf(head)]
      corrupt == body.k = "ppm" /\ body.reset /\ body.order = 1
  IN /\ Advance(2)
     /\ \/ body.k = "none" /\ old' = d /\ Fails("EOF")
        \/ body.k # "none" /\ ~d.alt /\ Broken(body) /\ old' = d /\ Fails("ErrInvalidLengthTable")
        \/ body.k # "none" /\ ~d.alt /\ ~Broken(body) /\ old' = LzInit(d, body) /\ GoesOn
        \/ body.k # "none" /\ d.alt /\ corrupt /\ old' = d /\ Fails("ErrCorruptPPM")
        \/ body.k # "none" /\ d.alt /\ ~corrupt /\ old' = PpmInit(d, body) /\ GoesOn

\* audio20Decoder.init
AudioInit(d, u) ==
  LET chans == IF u.k = "table" THEN u.chans ELSE 1
  IN [d EXCEPT !.chans = chans, !.curChan = IF @ >= chans THEN 0 ELSE @]

(* Errors are returned as they are, io.EOF too: the end of the data looks  *)
(* like the end of the file until limitedReader compares the sizes.        *)
readBlockHeader20 ==
  LET head == Unit(1)
      body == Unit(2)
      alt == HeadOf(head)
      base == IF head.k = "head" /\ ~head.keep THEN <<>> ELSE old.tables
      d == [old EXCEPT !.hdrRead = TRUE, !.alt = alt, !.tables = base]
      read == [d EXCEPT !.tables = TablesAfter(base, body)]
      Returns(e) == err' = e /\ room' = 0
  IN /\ Advance(2)
     /\ \/ head.k = "none" /\ UNCHANGED old /\ Returns("EOF")
        \/ head.k # "none" /\ body.k = "none" /\ old' = d /\ Returns("EOF")
        \/ Broken(body) /\ old' = d /\ Returns("ErrInvalidLengthTable")
        \/ /\ body.k # "none" /\ ~Broken(body) /\ GoesOn
           /\ old' = IF alt THEN AudioInit(read, body) ELSE read
-----------------------------------------------------------------------------
(* The symbols of LZ blocks.                                               *)

\* copy to the window; d.size of decoder20 counts the bytes
Emit(x) == Write(x) /\ old' = [old EXCEPT !.size = @ - Bytes(x)]

SymbolAt(u) == IF u.k = "sym" /\ u.t = old.tables THEN u.s ELSE Junk

\* the unit after the symbol was there
HasArg == Unit(2).k # "none"

(* "if d.lowOffsetRepeats > 0": the low bits of an offset, and the units   *)
(* they take.                                                              *)
LowOffset(s) ==
  LET u == Unit(3) IN
  CASE s.off < 16 \/ Ver = 20 -> [n |-> 2, low |-> s.off % 16, d |-> old]
    [] s.off >= 16 /\ Ver = 29 /\ old.lowRepeats > 0 ->
         [n |-> 2, low |-> old.lowOffset, d |-> [old EXCEPT !.lowRepeats = @ - 1]]
    [] s.off >= 16 /\ Ver = 29 /\ old.lowRepeats = 0 ->
         IF u.k # "low" THEN [n |-> 3, low |-> 0, d |-> old]
         ELSE IF u.repeat THEN [n |-> 3, low |-> old.lowOffset, d |-> [old EXCEPT !.lowRepeats = LowRepeats]]
         ELSE [n |-> 3, low |-> u.low, d |-> [old EXCEPT !.lowOffset = u.low]]

(* decodeOffset: the length is set first, the history last. *)
DecodeOffset(s) ==
  LET l3 == LowOffset(s)
      off == (s.off - (s.off % 16)) + l3.low
  IN /\ Advance(l3.n) /\ length' = s.len
     /\ \/ /\ pos + l3.n <= Len(Data)
           /\ offset' = Push(offset, off)
           /\ Write(Copy(s.len, off))
           /\ old' = [l3.d EXCEPT !.size = @ - s.len]
        \/ /\ pos + l3.n > Len(Data) /\ Fails("EOF")
           /\ UNCHANGED <<offset, old, out>>

(* decodeShortOffset: the history moves before the offset is read. *)
DecodeShortOffset(s) ==
  /\ Advance(2)
  /\ \/ /\ HasArg /\ offset' = Push(offset, s.off) /\ length' = 2
        /\ Emit(Copy(2, s.off))
     \/ /\ ~HasArg /\ offset' = Push(offset, offset[1])
        /\ Fails("EOF") /\ UNCHANGED <<length, old, out>>

\* seeded bug: 2.0 takes the offset out of its place, as 2.9 does
RepeatMoves(o, i) == MoveToFront(o, i)

\* decoder29 moves the offset to the front, decoder20 adds it there
Repeat(o, i) == IF Ver = 29 THEN MoveToFront(o, i) ELSE Push(o, o[i])

(* decodeLength *)
DecodeLength(s) ==
  /\ Advance(2)
  /\ offset' = Repeat(offset, s.i)
  /\ \/ HasArg /\ length' = s.len /\ Emit(Copy(s.len, offset'[1]))
     \/ ~HasArg /\ Fails("EOF") /\ UNCHANGED <<length, old, out>>

\* seeded bug: the header of the next file is not read
EndOfNoHeader(d, e) == [d EXCEPT !.eof = e # "block", !.hdrRead = (e # "block")]

\* "case errEndOfBlock:", "case errEndOfFile:", "case errEndOfBlockAndFile:"
EndOf(d, e) == [d EXCEPT !.eof = e # "block", !.hdrRead = (e = "file")]

Ends(e) ==
  /\ old' = EndOf(old, e)
  /\ \/ e = "block" /\ GoesOn
     \/ e # "block" /\ err' = "EOF" /\ room' = 0

(* readEndOfBlock of lz29Decoder, and the symbol 269 of lz20Decoder. *)
EndSymbol(s) ==
  \/ Ver = 20 /\ Advance(1) /\ Ends("block") /\ UNCHANGED out
  \/ Ver = 29 /\ Advance(2) /\ UNCHANGED out
     /\ \/ HasArg /\ Ends(s.e)
        \/ ~HasArg /\ Fails("EOF") /\ UNCHANGED old

LzStep ==
  LET s == SymbolAt(Unit(1)) IN
  \/ /\ Unit(1).k = "none" /\ Fails("EOF") /\ UNCHANGED <<pos, old, out, offset, length>>
  \/ /\ Unit(1).k # "none"
     /\ \/ s.k \in {"lit", "junk"} /\ Advance(1) /\ Emit(s) /\ UNCHANGED <<offset, length>>
        \/ /\ s.k = "again" /\ Advance(1) /\ Emit(Copy(length, offset[1]))
           /\ offset' = (IF Ver = 20 THEN Push(offset, offset[1]) ELSE offset)
           /\ UNCHANGED length
        \/ s.k = "new" /\ DecodeOffset(s)
        \/ s.k = "short" /\ DecodeShortOffset(s)
        \/ s.k = "old" /\ DecodeLength(s)
        \/ s.k = "end" /\ EndSymbol(s) /\ UNCHANGED <<offset, length>>
        \/ /\ s.k = "filter" /\ Advance(2) /\ UNCHANGED <<offset, length, old>>
           /\ \/ HasArg /\ s.known /\ out' = Append(out, [k |-> "filter"]) /\ GoesOn
              \/ HasArg /\ ~s.known /\ Fails("ErrInvalidFilter") /\ UNCHANGED out
              \/ ~HasArg /\ Fails("EOF") /\ UNCHANGED out
-----------------------------------------------------------------------------
(* PPM blocks of decoder29.                                                *)

\* the i-th byte from here, if the model is in the state it was coded in
ByteAt(i) ==
  LET u == Unit(i)
  IN IF u.k = "byte" /\ u.m = [old.model EXCEPT !.n = @ + i - 1] THEN u.b ELSE -1

\* bytes of the symbol here
PpmLength ==
  IF ByteAt(1) # old.esc THEN 1
  ELSE 2 + (CASE ByteAt(2) = 4 -> 2 [] ByteAt(2) \in {3, 5} -> 1 [] OTHER -> 0)

PpmStep ==
  LET n == PpmLength
      d == [old EXCEPT !.model.n = @ + n]
      Put1(x) == Write(x) /\ old' = d
      Stop(e) ==
        /\ old' = EndOf(d, e) /\ UNCHANGED out
        /\ \/ e = "block" /\ GoesOn
           \/ e # "block" /\ err' = "EOF" /\ room' = 0
  IN /\ Advance(n)
     /\ \/ pos + n > Len(Data) /\ Fails("EOF") /\ UNCHANGED <<old, out>>
        \/ /\ pos + n <= Len(Data)
           /\ \/ n = 1 /\ Put1(IF ByteAt(1) = -1 THEN Junk ELSE [k |-> "lit", b |-> ByteAt(1)])
              \/ n > 1 /\ ByteAt(2) = 0 /\ Stop("block")
              \/ n > 1 /\ ByteAt(2) = 2 /\ Stop("both")
              \/ /\ n > 1 /\ ByteAt(2) = 3 /\ out' = Append(out, [k |-> "filter"])
                 /\ old' = d /\ GoesOn
              \/ n > 1 /\ ByteAt(2) = 4 /\ Put1(Copy(ByteAt(4) + 32, ByteAt(3) + 2))
              \/ n > 1 /\ ByteAt(2) = 5 /\ Put1(Copy(ByteAt(3) + 4, 1))
              \/ n > 1 /\ ByteAt(2) \notin {0, 2, 3, 4, 5} /\ Put1([k |-> "lit", b |-> old.esc])
     /\ UNCHANGED <<offset, length>>
-----------------------------------------------------------------------------
(* Audio blocks of decoder20: a sample depends on all the ones before it.  *)
AudioStep ==
  LET u == Unit(1)
      good == u.k = "audio" /\ u.ch = old.curChan /\ u.t = old.tables
  IN /\ UNCHANGED <<offset, length>>
     /\ \/ u.k = "none" /\ Fails("EOF") /\ UNCHANGED <<pos, old, out>>
        \/ good /\ u.d = 256 /\ Advance(1) /\ Ends("block") /\ UNCHANGED out
        \/ /\ u.k # "none" /\ ~(good /\ u.d = 256) /\ Advance(1)
           /\ Write(IF good THEN [k |-> "sample", d |-> u.d, ch |-> old.curChan, past |-> old.past]
                    ELSE Junk)
           /\ old' = [old EXCEPT !.size = @ - 1, !.past = @ + 1,
                                 !.curChan = (@ + 1) % old.chans]
-----------------------------------------------------------------------------
(* fill: one round of its loops, until the window is full, and its end.    *)
FillStep29 ==
  /\ Ver = 29 /\ room > 0
  /\ \/ old.eof /\ err' = "EOF" /\ room' = 0 /\ UNCHANGED <<pos, offset, length, old, out>>
     \/ ~old.eof /\ ~old.hdrRead /\ readBlockHeader29 /\ UNCHANGED <<offset, length, out>>
     \/ ~old.eof /\ old.hdrRead /\ IF old.alt THEN PpmStep ELSE LzStep
  /\ UNCHANGED <<arcSolid, arc, cur, v, l, lastBlock, tables>>

FillStep20 ==
  /\ Ver = 20 /\ room > 0
  /\ \/ old.size > 0 /\ ~old.hdrRead /\ readBlockHeader20 /\ UNCHANGED <<offset, length, out>>
     \/ old.size > 0 /\ old.hdrRead /\ IF old.alt THEN AudioStep ELSE LzStep
     \/ /\ old.size <= 0 /\ room' = 0 /\ err' = (IF old.size = 0 THEN "EOF" ELSE "nil")
        /\ UNCHANGED <<pos, offset, length, old, out>>
  /\ UNCHANGED <<arcSolid, arc, cur, v, l, lastBlock, tables>>

\* seeded bug: the escape byte of the last file stays
Reset29KeepsEscape(d) == [d EXCEPT !.hdrRead = FALSE, !.tables = <<>>]

\* decoder29.init with reset, but for the filters: ppm29Decoder.reset
Reset29(d) == [d EXCEPT !.hdrRead = FALSE, !.tables = <<>>, !.esc = 2]

\* decoder20.init with reset: audio20Decoder.reset; lz20Decoder stays as it is
Reset20(d) ==
  [d EXCEPT !.hdrRead = FALSE, !.alt = FALSE, !.tables = <<>>,
            !.chans = 1, !.curChan = 0, !.past = 0]

(* init of both for the next file.                                         *)
NextFileOld ==
  /\ Ver # 50 /\ room = 0 /\ cur < Len(arc)
  /\ IF arcSolid THEN err = "EOF" ELSE Len(out) = Len(arc[cur].want)
  /\ cur' = cur + 1 /\ pos' = 0 /\ out' = <<>> /\ err' = "nil"
  /\ LET d == [old EXCEPT !.eof = FALSE, !.size = arc[cur + 1].size] IN
     \/ /\ Resets(arc[cur + 1])
        /\ \/ Ver = 29 /\ old' = Reset29(d) /\ offset' = Zeros /\ length' = 0
           \/ Ver = 20 /\ old' = Reset20(d) /\ UNCHANGED <<offset, length>>
     \/ ~Resets(arc[cur + 1]) /\ old' = d /\ UNCHANGED <<offset, length>>
  /\ UNCHANGED <<arcSolid, arc, v, l, lastBlock, tables, room>>

DecodersInit ==
  /\ Init
  /\ old = [hdrRead |-> FALSE, alt |-> FALSE, eof |-> FALSE, tables |-> <<>>,
            size |-> IF Ver = 50 THEN 0 ELSE arc[1].size,
            lowOffset |-> 0, lowRepeats |-> 0, esc |-> 2, model |-> [id |-> "-", n |-> 0],
            chans |-> 1, curChan |-> 0, past |-> 0]

Decoder50Step == Ver = 50 /\ (FillStep \/ NextFile) /\ UNCHANGED old

DecodersNext ==
  \/ Fill /\ UNCHANGED old
  \/ Decoder50Step \/ FillStep29 \/ FillStep20 \/ NextFileOld

(* fill is a loop of the program, and a caller that reads a file to its    *)
(* end keeps calling it.                                                   *)
DecodersSpec ==
  /\ DecodersInit /\ [][DecodersNext]_oldVars
  /\ WF_oldVars((Fill /\ UNCHANGED old) \/ Decoder50Step \/ FillStep29 \/ FillStep20)
-----------------------------------------------------------------------------
(* Decoding ends without an error only if all of the file was there; with  *)
(* decoder20 also at a header that is cut off, and then d.size says so to  *)
(* limitedReader, which has the same size.                                 *)
EndIsComplete ==
  err = "EOF" => \/ out = arc[cur].want /\ pos = Len(Data)
                 \/ Ver = 20 /\ old.size > 0
=============================================================================
