----------------------------- MODULE MCDecoders -----------------------------
(* Small archives for the decoders: of RAR 5 first. *)
EXTENDS OldDecoders

Lit(c) == [k |-> "lit", b |-> c]
New(off, len) == [k |-> "new", off |-> off, len |-> len]
Old(i, len) == [k |-> "old", i |-> i, len |-> len]
Again == [k |-> "again"]
Filter(known) == [k |-> "filter", known |-> known]

Block(last, id, syms) == [last |-> last, id |-> id, syms |-> syms, ok |-> TRUE]
Packed(blocks, solid) == [blocks |-> blocks, solid |-> solid, cut |-> 0]

(* Symbols of one block: literals, new and old offsets, the last match      *)
(* again, and filters, in some orders.                                      *)
Bodies == { <<>>, <<Lit(1), New(3, 2)>>, <<New(1, 2), New(2, 3), New(3, 4), Old(3, 5), Again>>,
            <<Filter(TRUE), Lit(2)>>, <<Old(2, 2), Lit(3)>>, <<Again>> }

(* One block, and two, with tables of their own or the ones before. *)
FirstFiles ==
  {Packed(<<Block(TRUE, "t1", b)>>, FALSE) : b \in Bodies} \cup
  {Packed(<<Block(FALSE, "t1", b), Block(TRUE, id, c)>>, FALSE) :
     b \in Bodies, c \in Bodies, id \in {"none", "t2"}}
LaterFiles(solid) ==
  {Packed(<<Block(TRUE, "t3", b)>>, solid) : b \in Bodies} \cup
  {Packed(<<Block(FALSE, "t3", b), Block(TRUE, "none", c)>>, solid) :
     b \in Bodies, c \in {<<Lit(4)>>, <<>>}}

\* a solid file may go on with the tables of the file before it
SolidFiles == LaterFiles(TRUE) \cup {Packed(<<Block(TRUE, "none", b)>>, TRUE) : b \in Bodies}

Solid50 == {Pack(<<a, b>>) : a \in FirstFiles, b \in SolidFiles \cup LaterFiles(FALSE)}
Plain50 == {Pack(<<a, b>>) : a \in FirstFiles, b \in LaterFiles(FALSE)}

(* Damage: data that is cut off anywhere, and a bad header checksum. *)
Damaged50 ==
  {Pack(<<[f EXCEPT !.cut = k]>>) : f \in FirstFiles, k \in 1 .. 2} \cup
  {Pack(<<[f EXCEPT !.blocks[Len(f.blocks)].ok = FALSE]>>) : f \in FirstFiles} \cup
  {Pack(<<Packed(<<Block(TRUE, "t1", <<Lit(1), Filter(FALSE), Lit(2)>>)>>, FALSE)>>),
   Pack(<<Packed(<<Block(FALSE, "t1", <<Lit(1)>>)>>, FALSE)>>)}

-----------------------------------------------------------------------------
(* RAR 2.9 and 2.0.                                                         *)

NewAt(off, len) == [k |-> "new", off |-> off, len |-> len, repeat |-> FALSE]
SameLow(off, len) == [k |-> "new", off |-> off, len |-> len, repeat |-> TRUE]
Short(off) == [k |-> "short", off |-> off]
Far(len, off) == [k |-> "copy", len |-> len, off |-> off]
Run(len) == [k |-> "run", len |-> len]
Sample(d) == [k |-> "sample", d |-> d]

OldBlock(id, syms, end) ==
  [head |-> TRUE, alt |-> FALSE, keep |-> FALSE, id |-> id, reset |-> FALSE, order |-> 2,
   esc |-> 0, chans |-> 1, syms |-> syms, end |-> end]
Keeping(b) == [b EXCEPT !.keep = TRUE]
Headless(b) == [b EXCEPT !.head = FALSE]
PpmBlock(id, esc, syms, end) ==
  [OldBlock(id, syms, end) EXCEPT !.alt = TRUE, !.reset = TRUE, !.esc = esc]
PpmGoesOn(esc, syms, end) == [PpmBlock("-", esc, syms, end) EXCEPT !.reset = FALSE]
AudioBlock(id, chans, syms, end) ==
  [OldBlock(id, syms, end) EXCEPT !.alt = TRUE, !.chans = chans]

Bodies29 ==
  { <<>>, <<Lit(1), NewAt(3, 4), Again>>, <<Short(2), NewAt(35, 4), Old(2, 3), Again>>,
    <<NewAt(21, 5), SameLow(37, 5), NewAt(53, 6), NewAt(69, 6), NewAt(83, 7)>>,
    <<[k |-> "filter", known |-> TRUE], Lit(2)>>, <<Old(3, 2), SameLow(32, 4)>> }
\* literals that are escape bytes, matches and filters of PPM blocks
BodiesPpm == { <<Lit(2), Lit(3), Lit(9)>>, <<Far(33, 4), Lit(9), Run(6)>>,
               <<[k |-> "filter"], Lit(2)>> }

\* the first file of an archive, which ends with its block or not
First29(e) ==
  {<<OldBlock("t1", b, e)>> : b \in Bodies29} \cup
  {<<OldBlock("t1", b, "block"), Keeping(OldBlock("t2", d, e))>> : b \in Bodies29, d \in Bodies29}
\* PPM blocks end with the file
FirstPpm ==
  {<<PpmBlock("m1", esc, b, "both")>> : esc \in {0, 9}, b \in BodiesPpm} \cup
  {<<PpmBlock("m1", 9, b, "block"), OldBlock("t1", d, "block"), PpmGoesOn(esc, b, "both")>> :
     b \in BodiesPpm, d \in {<<>>, <<Short(3)>>}, esc \in {0, 3}}

\* a solid file with tables of its own, that adds to the ones before, that
\* goes on with the PPM model, or in the middle of a block
Later29 ==
  {<<OldBlock("t3", b, "both")>> : b \in Bodies29} \cup
  {<<Keeping(OldBlock("t3", b, "file"))>> : b \in Bodies29} \cup
  {<<PpmGoesOn(0, b, "both")>> : b \in BodiesPpm}
Inside29 == {<<Headless(OldBlock("-", b, "both"))>> : b \in Bodies29}

FileOld(blocks, solid) == [blocks |-> blocks, solid |-> solid, cut |-> 0]
Pair29(a, b, solid) == PackOld(<<FileOld(a, FALSE), FileOld(b, solid)>>, 29)

Solid29 ==
  {Pair29(a, b, TRUE) : a \in First29("both") \cup FirstPpm, b \in Later29} \cup
  {Pair29(a, b, TRUE) : a \in First29("file"), b \in Inside29}
Plain29 == {Pair29(a, b, FALSE) : a \in First29("both") \cup FirstPpm,
                                  b \in First29("both") \cup FirstPpm}

Bodies20 == { <<Lit(1), NewAt(3, 4), Again, Old(2, 3)>>, <<Short(2), NewAt(40, 4), Old(2, 3), Old(3, 2)>> }
BodiesAudio == { <<Sample(1), Sample(2), Sample(3)>>, <<Sample(4)>> }

First20(e) ==
  {<<OldBlock("t1", b, e)>> : b \in Bodies20} \cup
  {<<AudioBlock("t1", n, b, e)>> : n \in {1, 2, 3}, b \in BodiesAudio} \cup
  {<<OldBlock("t1", b, "block"), Keeping(AudioBlock("t2", n, d, e))>> :
     b \in Bodies20, n \in {2, 3}, d \in BodiesAudio} \cup
  {<<AudioBlock("t1", 3, d, "block"), Keeping(OldBlock("t2", b, "block")),
     AudioBlock("t3", n, d, e)>> : b \in Bodies20, n \in {2, 3}, d \in BodiesAudio}

\* a solid file goes on in the block of the one before
GoesOn20(a) ==
  LET z == a[Len(a)] IN
  {<<Headless([z EXCEPT !.syms = b, !.end = "none"])>> :
     b \in IF z.alt THEN BodiesAudio ELSE Bodies20 \cup {<<Again>>}} \cup
  {<<Headless([z EXCEPT !.syms = <<>>, !.end = "block"]), Keeping(OldBlock("t4", <<Old(2, 2)>>, "none"))>>}

Pair20(a, b, solid) == PackOld(<<FileOld(a, FALSE), FileOld(b, solid)>>, 20)
Solid20 == UNION {{Pair20(a, b, TRUE) : b \in GoesOn20(a)} : a \in First20("none")}
Plain20 == {Pair20(a, b, FALSE) : a \in First20("none"), b \in First20("none")}

(* Damage. *)
DamagedOld ==
  {PackOld(<<[FileOld(a, FALSE) EXCEPT !.cut = k]>>, 29) : a \in First29("both") \cup FirstPpm, k \in 1 .. 2} \cup
  {PackOld(<<[FileOld(a, FALSE) EXCEPT !.cut = k]>>, 20) : a \in First20("none"), k \in 1 .. 4} \cup
  {PackOld(<<FileOld(<<b>>, FALSE)>>, 29) :
     b \in {OldBlock("bad", <<Lit(1)>>, "both"), [PpmBlock("m1", 0, <<Lit(1)>>, "both") EXCEPT !.order = 1],
            OldBlock("t1", <<[k |-> "filter", known |-> FALSE], Lit(1)>>, "both")}} \cup
  {PackOld(<<FileOld(<<OldBlock("bad", <<Lit(1)>>, "none")>>, FALSE)>>, 20)}

AllSolid == Solid50 \cup Solid29 \cup Solid20
AllPlain == Plain50 \cup Damaged50 \cup Plain29 \cup Plain20 \cup DamagedOld
=============================================================================
