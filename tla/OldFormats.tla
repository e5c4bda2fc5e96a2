----------------------------- MODULE OldFormats -----------------------------
(***************************************************************************)
(* Packed data of RAR 2.0 and 2.9 files as the decoders expect it          *)
(* (decode20*.go, decode29*.go), for OldDecoders: what a writer puts down  *)
(* for the symbols of a file, and what they are to give.                   *)
(*                                                                         *)
(* A block is [head, alt, keep, id, reset, order, esc, chans, syms, end]:  *)
(* whether it has a header, is a PPM (2.9) or audio (2.0) block, adds its  *)
(* tables to the ones before, how it sets up the PPM model, its symbols    *)
(* and the marker behind them, which says whether block or file end.       *)
(* The writer keeps what a decoder has to keep: tables, offsets, the low   *)
(* bits of the last offset, the escape byte, the state of the PPM model,   *)
(* the channel and the samples before.                                     *)
(***************************************************************************)
EXTENDS Integers, Sequences, SequencesExt

CONSTANT LowRepeats     \* offsets that repeat the low bits; 15 in the code

Zeros == <<0, 0, 0, 0>>
CopyOf(len, off) == [k |-> "copy", len |-> len, off |-> off]

(* The state at the start of an archive, and of a file that is not solid. *)
NewWriter ==
  [tables |-> <<>>, o |-> Zeros, len |-> 0, low |-> 0, rep |-> 0, esc |-> 2,
   model |-> [id |-> "-", n |-> 0], chans |-> 1, chan |-> 0, past |-> 0, data |-> <<>>, want |-> <<>>]

Put(w, units) == [w EXCEPT !.data = @ \o units]
Gives(w, x) == [w EXCEPT !.want = Append(@, x)]
Code(w, s) == [k |-> "sym", s |-> s, t |-> w.tables]
Arg(s) == [k |-> "arg", s |-> s]

HeaderOf(w, b, ver) ==
  IF ~b.head THEN w
  ELSE IF b.alt /\ ver = 29
  THEN [Put(w, <<[k |-> "head", alt |-> TRUE],
                 [k |-> "ppm", reset |-> b.reset, order |-> b.order, id |-> b.id, esc |-> b.esc]>>)
          EXCEPT !.esc = IF b.esc # 0 THEN b.esc ELSE @,
                 !.model = IF b.reset THEN [id |-> b.id, n |-> 0] ELSE @]
  ELSE [Put(w, <<[k |-> "head", alt |-> b.alt, keep |-> b.keep],
                 [k |-> "table", keep |-> b.keep, id |-> b.id, chans |-> b.chans]>>)
          EXCEPT !.tables = IF b.keep THEN Append(@, b.id) ELSE <<b.id>>,
                 !.low = 0, !.rep = 0,
                 !.chans = IF b.alt THEN b.chans ELSE @,
                 !.chan = IF b.alt /\ @ >= b.chans THEN 0 ELSE @]

(* Bytes that go through the PPM model. *)
PpmBytes(w, bytes) ==
  [Put(w, [i \in 1 .. Len(bytes) |->
             [k |-> "byte", b |-> bytes[i], m |-> [w.model EXCEPT !.n = @ + i - 1]]])
     EXCEPT !.model.n = @ + Len(bytes)]

PpmSymbol(w, s) ==
  CASE s.k = "lit" -> Gives(PpmBytes(w, IF s.b = w.esc THEN <<s.b, 1>> ELSE <<s.b>>), s)
    [] s.k = "copy" -> Gives(PpmBytes(w, <<w.esc, 4, s.off - 2, s.len - 32>>), s)
    [] s.k = "run" -> Gives(PpmBytes(w, <<w.esc, 5, s.len - 4>>), CopyOf(s.len, 1))
    [] s.k = "filter" -> Gives(PpmBytes(w, <<w.esc, 3, 0>>), [k |-> "filter"])

AudioSymbol(w, s) ==
  Gives([Put(w, <<[k |-> "audio", d |-> s.d, ch |-> w.chan, t |-> w.tables]>>)
           EXCEPT !.chan = (w.chan + 1) % w.chans, !.past = @ + 1],
        [k |-> "sample", d |-> s.d, ch |-> w.chan, past |-> w.past])

\* after a match at off: 2.0 keeps the last four, also when one is repeated
Match(w, off, len, history) ==
  Gives([w EXCEPT !.o = history, !.len = len], CopyOf(len, off))

Push(o, off) == <<off>> \o SubSeq(o, 1, 3)

\* the low bits of an offset: 2.9 has a code for them, or for more offsets
\* with the same ones
Low(w, s) ==
  IF w.rep > 0 THEN [w EXCEPT !.rep = @ - 1]
  ELSE IF s.repeat THEN [Put(w, <<[k |-> "low", repeat |-> TRUE]>>) EXCEPT !.rep = LowRepeats]
  ELSE [Put(w, <<[k |-> "low", repeat |-> FALSE, low |-> s.off % 16]>>) EXCEPT !.low = s.off % 16]

\* the offset they stand for, and which is to be copied
Meant(w, s, ver) ==
  IF ver = 29 /\ s.off >= 16 /\ (w.rep > 0 \/ s.repeat) THEN s.off - (s.off % 16) + w.low ELSE s.off

LzSymbol(w, s, ver) ==
  LET one == Put(w, <<Code(w, s)>>)
      two == Put(w, <<Code(w, s), Arg(s)>>)
      old == w.o[s.i]
  IN CASE s.k = "lit" -> Gives(one, s)
       [] s.k = "again" -> Match(one, w.o[1], w.len, IF ver = 20 THEN Push(w.o, w.o[1]) ELSE w.o)
       [] s.k = "old" -> Match(two, old, s.len, IF ver = 20 THEN Push(w.o, old)
                           ELSE <<old>> \o SubSeq(w.o, 1, s.i - 1) \o SubSeq(w.o, s.i + 1, 4))
       [] s.k = "short" -> Match(two, s.off, 2, Push(w.o, s.off))
       [] s.k = "new" -> Match(IF ver = 29 /\ s.off >= 16 THEN Low(two, s) ELSE two,
                               Meant(w, s, ver), s.len, Push(w.o, Meant(w, s, ver)))
       [] s.k = "filter" -> Gives(two, [k |-> "filter"])

End(w, b, ver) ==
  CASE b.end = "none" -> w
    [] b.alt /\ ver = 29 -> PpmBytes(w, <<w.esc, IF b.end = "block" THEN 0 ELSE 2>>)
    [] b.alt /\ ver = 20 -> Put(w, <<[k |-> "audio", d |-> 256, ch |-> w.chan, t |-> w.tables]>>)
    [] OTHER -> LET s == [k |-> "end", e |-> b.end]
                IN Put(w, IF ver = 29 THEN <<Code(w, s), Arg(s)>> ELSE <<Code(w, s)>>)

BlockOf(w, b, ver) ==
  LET Do(x, s) == IF b.alt THEN IF ver = 29 THEN PpmSymbol(x, s) ELSE AudioSymbol(x, s)
                  ELSE LzSymbol(x, s, ver)
  IN End(FoldLeft(Do, HeaderOf(w, b, ver), b.syms), b, ver)

FileOf(w, f, ver) ==
  LET start == IF f.solid THEN [w EXCEPT !.data = <<>>, !.want = <<>>] ELSE NewWriter
      Do(x, b) == BlockOf(x, b, ver)
  IN FoldLeft(Do, start, f.blocks)

Bytes(x) == IF x.k = "copy" THEN x.len ELSE IF x.k = "filter" THEN 0 ELSE 1
SizeOf(want) == FoldLeft(LAMBDA n, x : n + Bytes(x), 0, want)

\* an archive of RAR 2.0 or 2.9 files; the last cut units of a file are missing
PackOld(a, ver) ==
  LET w[f \in 0 .. Len(a)] == IF f = 0 THEN NewWriter ELSE FileOf(w[f - 1], a[f], ver)
  IN [f \in 1 .. Len(a) |->
        [ver |-> ver, solid |-> a[f].solid, want |-> w[f].want, size |-> SizeOf(w[f].want),
         data |-> SubSeq(w[f].data, 1, Len(w[f].data) - a[f].cut)]]
=============================================================================
