------------------------------- MODULE Huffman -------------------------------
(***************************************************************************)
(* The tables huffmanDecoder.init builds from code lengths (huffman.go),   *)
(* and the canonical code they stand for.                                  *)
(***************************************************************************)
EXTENDS Integers, Sequences, FiniteSets, FiniteSetsExt

CONSTANTS
  MaxCodeLength,   \* maxCodeLength, 15
  QuickBits,       \* h.quickbits, 7 or 10
  Symbols          \* len(codeLengths)

ASSUME HuffmanAssumption ==
  /\ MaxCodeLength \in Nat \ {0} /\ QuickBits \in 1 .. MaxCodeLength
  /\ Symbols \in Nat \ {0}

Lengths == 1 .. MaxCodeLength
Word == 2 ^ (MaxCodeLength + 1)     \* uint16
Syms == 0 .. Symbols - 1
-----------------------------------------------------------------------------
(* init.                                                                   *)

count(cl, i) == Cardinality({s \in Syms : cl[s] = i})

\* seeded bug: the limits of a length leave out its own codes
LimitsBefore(cl) ==
  LET f[i \in 0 .. MaxCodeLength] ==
        IF i <= 1 THEN 0
        ELSE (f[i - 1] + count(cl, i - 1) * 2 ^ (MaxCodeLength - i + 1)) % Word
  IN f

\* limit[i]: the first value, left-aligned, behind the codes of up to i bits
limits(cl) ==
  LET f[i \in 0 .. MaxCodeLength] ==
        IF i = 0 THEN 0
        ELSE (f[i - 1] + count(cl, i) * 2 ^ (MaxCodeLength - i)) % Word
  IN f

\* pos[i]: where the symbols with codes of i bits start
positions(cl) ==
  LET f[i \in 0 .. MaxCodeLength] ==
        IF i <= 1 THEN 0 ELSE f[i - 1] + count(cl, i - 1)
  IN f

minimum(limit) ==
  IF \E i \in Lengths : limit[i] > 0 THEN Min({i \in Lengths : limit[i] > 0}) ELSE 0

\* symbols in the order of their codes; zeros behind them
sortedSymbols(cl, pos) ==
  [k \in Syms |->
     LET at(s) == pos[cl[s]] + Cardinality({t \in Syms : t < s /\ cl[t] = cl[s]})
         here == {s \in Syms : cl[s] # 0 /\ at(s) = k}
     IN IF here = {} THEN 0 ELSE CHOOSE s \in here : TRUE]

\* index in symbol of the code of b bits that v starts with
index(limit, pos, v, b) ==
  pos[b] + (((v - limit[b - 1]) % Word) \div 2 ^ (MaxCodeLength - b))

LeftAligned(i) == i * 2 ^ (MaxCodeLength - QuickBits)

\* quicklen; bits is not started over for each entry
quickLengths(limit) ==
  LET f[i \in 0 .. 2 ^ QuickBits - 1] ==
        LET b == IF i = 0 THEN 1 ELSE f[i - 1]
        IN Min({c \in b .. MaxCodeLength : c = MaxCodeLength \/ LeftAligned(i) < limit[c]})
  IN f

quickSymbols(limit, pos, symbol, quicklen) ==
  [i \in 0 .. 2 ^ QuickBits - 1 |->
     LET k == index(limit, pos, LeftAligned(i), quicklen[i])
     IN IF k < Symbols THEN symbol[k] ELSE 0]

init(cl) ==
  LET limit == limits(cl)
      pos == positions(cl)
      symbol == sortedSymbols(cl, pos)
      quicklen == quickLengths(limit)
  IN [limit |-> limit, pos |-> pos, symbol |-> symbol, min |-> minimum(limit),
      quicklen |-> quicklen, quicksym |-> quickSymbols(limit, pos, symbol, quicklen)]
-----------------------------------------------------------------------------
(* The canonical code: codes in the order of their lengths, symbols of the *)
(* same length in their own order, each code right behind the one before.  *)
Before(cl, s, t) == cl[s] < cl[t] \/ (cl[s] = cl[t] /\ s < t)

Used(cl) == {s \in Syms : cl[s] # 0}
Share(cl, s) == 2 ^ (MaxCodeLength - cl[s])
CodeOf(cl, s) == MapThenSumSet(LAMBDA t : Share(cl, t), {t \in Used(cl) : Before(cl, t, s)})
Total(cl) == MapThenSumSet(LAMBDA t : Share(cl, t), Used(cl))
=============================================================================
