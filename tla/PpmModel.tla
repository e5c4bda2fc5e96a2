------------------------------ MODULE PpmModel ------------------------------
(***************************************************************************)
(* model (ppm_model.go): the PPM model of RAR 2.9, which grows with every  *)
(* byte it decodes and starts anew when its memory is used up.             *)
(*                                                                         *)
(* Which symbol the range coder finds in a context, or that it finds none, *)
(* is a free choice: the probabilities that only say how likely a symbol   *)
(* is (binSumm, see2Cont, runLength, prevSuccess) are left out, what a     *)
(* context counts (freq, summFreq) is kept.  A context is the unit of the  *)
(* allocator it lies in; its states are kept with it, and at is the block  *)
(* they are stored in, or nil for a single state, which lies in the        *)
(* context itself.  As in the code the successor of a state is a context,  *)
(* a position in the text as a negative number, or 0.                      *)
(***************************************************************************)
EXTENDS SubAllocator

CONSTANTS
  Symbols,     \* the number of symbols: 256
  maxFreq,     \* 124
  BinMax,      \* 128: the count at which a single state stops counting
  BinLow,      \* 32: the one at which it stops counting for its suffix
  MaskValues,  \* 256: the values of escCount, a byte
  Escapes,     \* values of expEscape
  Formats,     \* the orders and bytes of memory a stream asks for
  MaxCalls,    \* bound: calls of ReadByte and of init with reset
  LastError    \* bound: by which of them an error is gone on from

ASSUME PpmAssumption ==
  /\ Symbols \in 2 .. 2 * MaxUnits
  /\ maxFreq > 9 /\ BinMax >= maxFreq /\ BinLow \in 1 .. BinMax
  /\ MaskValues > 2 /\ MaxCalls \in Nat /\ LastError \in Nat
  /\ \A e \in Escapes : e > 1
  /\ \A f \in Formats : f.order \in Nat \ {0}
  /\ \A f \in Formats : init(f.bytes).units > index2Units[units2Index[(Symbols + 1) \div 2]] + 3

VARIABLES
  a,           \* m.a
  text,        \* the bytes of heap1, by their position
  ctx,         \* the contexts: [suffix, states, summFreq, at]
  maxC,        \* m.c, the context of the next symbol, and maxC while it is read
  minC,        \* the context the symbol is found in
  found,       \* the symbol of the state that is found
  maxOrder, orderFall, initEsc, charMask, escCount,
  pc,          \* where ReadByte is
  newC, succ,  \* newC and succ of update, while contexts grow
  ec,          \* the context that grows next
  calls,       \* how often ReadByte and init were called
  want,        \* the symbol the range coder chose
  wentOn,      \* a symbol was read after an error, with no restart since
  fault        \* an index was out of range, or memory read that holds something else

model == <<maxC, maxOrder, orderFall, initEsc, charMask, escCount>>
locals == <<minC, found, want, newC, succ, ec>>
vars == <<a, text, ctx, model, locals, pc, calls, wentOn, fault>>

Syms == 0 .. Symbols - 1
Ns(k, x) == Len(k[x].states)
succContext(i) == IF i <= 0 THEN nil ELSE i
contextSuffix(k, x) == IF x = nil THEN nil ELSE k[x].suffix

\* the place of sym in the states of x, the last one if it is not there
findState(k, x, sym) ==
  LET st == k[x].states
      at == {i \in 1 .. Len(st) : st[i].sym = sym}
  IN IF at = {} THEN Len(st) ELSE Min(at)
StateOf(k, x, sym) == k[x].states[findState(k, x, sym)]

\* the contexts behind x, the next one first
SuffixChain(k, x) ==
  LET up[i \in 0 .. Cardinality(DOMAIN k)] ==
        IF i = 0 THEN x ELSE contextSuffix(k, up[i - 1])
  IN SelectSeq([i \in 1 .. Cardinality(DOMAIN k) |-> up[i]], LAMBDA y : y # nil)

Total(states) == FoldLeft(LAMBDA n, t : n + t.freq, 0, states)
-----------------------------------------------------------------------------
(* model.restart: one context, root, that has every symbol once; its       *)
(* states are in the block of r.                                           *)
Root(root, r) ==
  /\ a' = r.a
  /\ maxC' = root
  /\ ctx' = [x \in {root} |->
               [suffix |-> nil, at |-> r.n, summFreq |-> Symbols + 1,
                states |-> [i \in 1 .. Symbols |-> [sym |-> i - 1, freq |-> 1, succ |-> 0]]]]

Restart ==
  /\ pc = "ready" /\ maxC = nil /\ calls < MaxCalls
  /\ LET b == newContext(restart(a))
     IN Root(b.n, allocUnits(b.a, units2Index[(Symbols + 1) \div 2]))
  /\ charMask' = [y \in Syms |-> 0]
  /\ escCount' = 1
  /\ orderFall' = maxOrder
  /\ text' = <<>>   \* no position in the old text is left
  /\ wentOn' = FALSE
  /\ UNCHANGED <<maxOrder, initEsc, locals, pc, calls, fault>>

(* model.init with reset, at the head of a block: order and memory change, *)
(* and the model starts anew with the next byte.  The order 1 is refused   *)
(* when the memory is already another one, with maxC still a context of    *)
(* the old one.  Of what was in the memory only the bytes that look like a *)
(* free block are read again, when free blocks are glued.                  *)
InitModel(f) ==
  /\ pc = "ready" /\ calls < MaxCalls
  /\ \E o \in OldMarks : a' = initAgain(a, f.bytes, o)
  /\ calls' = calls + 1
  /\ ctx' = <<>> /\ text' = <<>>
  /\ IF f.order = 1 THEN pc' = "error" /\ UNCHANGED <<maxC, maxOrder>>
     ELSE maxC' = nil /\ maxOrder' = f.order /\ UNCHANGED pc
  /\ UNCHANGED <<orderFall, initEsc, charMask, escCount, locals, wentOn, fault>>
-----------------------------------------------------------------------------
(* Finding the symbol.                                                     *)

\* seeded bugs: symbols may be lost in every order; the states are not sorted
HalvedDown(states, adder) ==
  FoldLeft(LAMBDA acc, t :
             InsertAt(acc, 1 + Cardinality({j \in 1 .. Len(acc) : acc[j].freq >= t.freq}), t),
           <<>>, [i \in 1 .. Len(states) |-> [states[i] EXCEPT !.freq = @ \div 2]])
HalvedUnsorted(states, adder) ==
  [i \in 1 .. Len(states) |-> [states[i] EXCEPT !.freq = (@ + adder) \div 2]]
\* the counts of all states are halved and the states sorted by them
Halved(states, adder) ==
  FoldLeft(LAMBDA acc, t :
             InsertAt(acc, 1 + Cardinality({j \in 1 .. Len(acc) : acc[j].freq >= t.freq}), t),
           <<>>, [i \in 1 .. Len(states) |->
                    [states[i] EXCEPT !.freq = (@ + adder) \div 2]])

\* a single state that is left is halved as often as the escape count
LastHalved(t, esc) ==
  LET n == Min({r \in 1 .. 16 : esc \div 2 ^ r <= 1})
  IN [t EXCEPT !.freq = (@ + 2 ^ n - 1) \div 2 ^ n]

\* model.rescale of context x when its state i counts too much: below the
\* longest order no count comes to 0, in it such states are dropped
Rescaled(k, x, kept, esc, r) ==
  [a |-> r.a, sym |-> kept[1].sym,
   k |-> [k EXCEPT ![x].at = r.n,
                   ![x].states = IF Len(kept) = 1 THEN <<LastHalved(kept[1], esc)>> ELSE kept,
                   ![x].summFreq = Total(kept) + esc - esc \div 2]]

rescale(b, k, x, i, fall) ==
  LET st == [k[x].states EXCEPT ![i].freq = @ + 4]
      sorted == Halved(st, IF fall # 0 THEN 1 ELSE 0)
      kept == SelectSeq(sorted, LAMBDA t : t.freq > 0)
      esc == k[x].summFreq + 4 - Total(st) + Len(st) - Len(kept)
  IN IF k[x].states[i].freq <= maxFreq THEN [a |-> b, k |-> k, sym |-> k[x].states[i].sym]
     ELSE Rescaled(k, x, kept, esc,
                   IF Len(kept) = Len(st) THEN [a |-> b, n |-> k[x].at]
                   ELSE shrinkStates(b, k[x].at, Len(st), Len(kept)))

\* the found state i of x, whose order the caller settles, counts four more
Count(k, x, i) == [k EXCEPT ![x].states[i].freq = @ + 4, ![x].summFreq = @ + 4]

\* the symbol in state i of x was found; r is the model after it was counted
Found(x, r) ==
  /\ a' = r.a /\ ctx' = r.k /\ found' = r.sym
  /\ minC' = x
  /\ pc' = "update"

Mask(i) == [y \in Syms |-> IF \E t \in i : t.sym = y THEN escCount ELSE charMask[y]]

NoneFound == minC' = nil /\ found' = 0 /\ want' = 0
Fails == pc' = "error" /\ NoneFound /\ UNCHANGED <<a, ctx, charMask, escCount, initEsc>>
Faults == fault' = TRUE /\ Fails

\* decodeBinSymbol: the context has a single state
DecodeBinSymbol ==
  LET t == ctx[maxC].states[1]
      k == [ctx EXCEPT ![maxC].states[1].freq = IF @ < BinMax THEN @ + 1 ELSE @]
  IN IF contextSuffix(ctx, maxC) = nil \/ t.freq \notin 1 .. BinMax THEN Faults
     ELSE /\ \/ /\ Found(maxC, [a |-> a, k |-> k, sym |-> t.sym])
                /\ want' = t.sym
                /\ UNCHANGED <<initEsc, charMask>>
             \/ /\ initEsc' \in Escapes
                /\ charMask' = Mask({t})
                /\ minC' = maxC /\ pc' = "fall"
                /\ UNCHANGED <<a, ctx, found, want>>
          /\ UNCHANGED <<escCount, fault>>

\* decodeSymbol1: one that has several
DecodeSymbol1 ==
  LET st == ctx[maxC].states
      Swap(k, i) == [k EXCEPT ![maxC].states =
                       [@ EXCEPT ![i] = k[maxC].states[i - 1], ![i - 1] = k[maxC].states[i]]]
      After(i) ==
        LET k == Count(ctx, maxC, i)
        IN IF i = 1 THEN rescale(a, k, maxC, 1, orderFall)
           ELSE IF k[maxC].states[i].freq <= st[i - 1].freq
           THEN [a |-> a, k |-> k, sym |-> st[i].sym]
           ELSE rescale(a, Swap(k, i), maxC, i - 1, orderFall)
  IN IF ctx[maxC].summFreq = 0 THEN Fails /\ UNCHANGED fault
     ELSE /\ \/ /\ \E i \in 1 .. Len(st) : Found(maxC, After(i)) /\ want' = st[i].sym
                /\ UNCHANGED charMask
             \/ /\ charMask' = Mask(ToSet(st))
                /\ minC' = maxC /\ pc' = "fall"
                /\ UNCHANGED <<a, ctx, found, want>>
          /\ UNCHANGED <<escCount, initEsc, fault>>

ReadByte ==
  /\ pc = "ready" /\ maxC # nil /\ calls < MaxCalls
  /\ calls' = calls + 1
  /\ IF maxC \notin DOMAIN ctx THEN Faults   \* what lies there now is no context
     ELSE IF Ns(ctx, maxC) = 1 THEN DecodeBinSymbol ELSE DecodeSymbol1
  /\ UNCHANGED <<text, maxC, maxOrder, orderFall, newC, succ, ec, wentOn>>

\* the range coder's source ends or fails at the symbol, whose counts and
\* masks are kept; update is not called
SourceFails ==
  /\ pc \in {"update", "fall"}
  /\ pc' = "error"
  /\ NoneFound
  /\ UNCHANGED <<a, text, ctx, model, newC, succ, ec, calls, wentOn, fault>>

\* The caller reads on after an error, or another block without reset comes:
\* the next symbol is read in the context of the one that failed, with
\* orderFall and the masks as the error left them.
GoesOn ==
  /\ pc = "error" /\ ~fault /\ calls <= LastError
  /\ pc' = "ready"
  /\ wentOn' = TRUE
  /\ UNCHANGED <<a, text, ctx, model, locals, calls, fault>>

\* decodeSymbol2 in context x, of whose states n are masked
DecodeSymbol2(x, n, fall) ==
  LET st == ctx[x].states
      open == SelectSeq([i \in 1 .. Len(st) |-> i], LAMBDA i : charMask[st[i].sym] # escCount)
      sl == SubSeq(open, 1, Len(st) - n)
  IN IF Len(st) <= n \/ Len(open) < Len(st) - n THEN Faults
     ELSE /\ \/ /\ \E i \in ToSet(sl) : Found(x, rescale(a, Count(ctx, x, i), x, i, fall))
                                        /\ want' = st[i].sym
                /\ escCount' = (escCount + 1) % MaskValues
                /\ UNCHANGED charMask
             \/ /\ charMask' = Mask({st[i] : i \in ToSet(sl)})
                /\ minC' = x /\ pc' = "fall"
                /\ UNCHANGED <<a, ctx, found, want, escCount>>
          /\ UNCHANGED <<initEsc, fault>>

\* The loop of ReadByte behind an escape: on to the next context that has
\* other symbols, or an error behind the last one.
Escape ==
  LET chain == SuffixChain(ctx, minC)
      n == Ns(ctx, minC)
      other == {j \in 1 .. Len(chain) : Ns(ctx, chain[j]) # n}
      j == Min(other)
      fall == orderFall + IF other = {} THEN Len(chain) + 1 ELSE j
  IN /\ pc = "fall"
     /\ orderFall' = fall
     /\ IF other = {} THEN Fails /\ UNCHANGED fault ELSE DecodeSymbol2(chain[j], n, fall)
     /\ UNCHANGED <<text, maxC, maxOrder, newC, succ, ec, calls, wentOn>>
-----------------------------------------------------------------------------
(* model.update: the model learns the symbol.                              *)

\* The text: a byte is put on it and points to the one behind it, or to none
\* if there is no room for that.
pushByte(b, txt, sym) ==
  LET lo == b.heap1Lo + 1
  IN [a |-> [b EXCEPT !.heap1Lo = lo], text |-> (b.heap1Lo :> sym) @@ txt,
      succ |-> IF lo >= b.heap1Hi THEN 0 ELSE -lo]
popByte(b) == [b EXCEPT !.heap1Lo = @ - 1]
succByte(txt, i) == txt[-i]
nextByteAddr(n) == n - 1

SetSucc(k, x, sym, p) == [k EXCEPT ![x].states[findState(k, x, sym)].succ = p]

\* the symbol counts in the context behind minC too, if it is still rare
CountInSuffix(k) ==
  LET x == contextSuffix(k, minC)
      st == k[x].states
      at == findState(k, x, found)
      up == at > 1 /\ st[at].freq >= st[at - 1].freq
      i == IF up THEN at - 1 ELSE at
      moved == IF up THEN [st EXCEPT ![at] = st[at - 1], ![at - 1] = st[at]] ELSE st
  IN IF StateOf(k, minC, found).freq >= maxFreq \div 4 \/ x = nil THEN k
     ELSE IF Len(st) = 1
     THEN [k EXCEPT ![x].states[1].freq = IF @ < BinLow THEN @ + 1 ELSE @]
     ELSE IF moved[i].freq >= maxFreq - 9 THEN [k EXCEPT ![x].states = moved]
     ELSE [k EXCEPT ![x].states = [moved EXCEPT ![i].freq = @ + 2], ![x].summFreq = @ + 2]

\* the first count of a symbol that has a share of freq in context x
SuccFreq(k, x, sym) ==
  LET cf == StateOf(k, x, sym).freq - 1
      s0 == k[x].summFreq - Ns(k, x) - cf
  IN IF Ns(k, x) = 1 THEN k[x].states[1].freq
     ELSE IF 2 * cf > s0 THEN 1 + (2 * cf + 3 * s0 - 1) \div (2 * s0)
     ELSE IF 5 * cf > s0 THEN 2 ELSE 1

\* Up to where the contexts behind minC have the same text for the symbol,
\* and the context that theirs go on from.
SameText(k) ==
  LET chain == SuffixChain(k, minC)
      raw == StateOf(k, minC, found).succ
      diff == {j \in 1 .. Len(chain) : StateOf(k, chain[j], found).succ # raw}
  IN IF diff # {}
     THEN [same |-> SubSeq(chain, 1, Min(diff) - 1),
           parent |-> succContext(StateOf(k, chain[Min(diff)], found).succ)]
     ELSE [same |-> chain, parent |-> IF chain = <<>> THEN minC ELSE Last(chain)]

\* the context of r, with the single state up, is the symbol's successor in x
Child(acc, x, up, r) ==
  IF r.n = nil THEN [acc EXCEPT !.a = r.a, !.c = nil]
  ELSE [a |-> r.a, c |-> r.n, ok |-> TRUE,
        k |-> SetSucc((r.n :> [suffix |-> acc.c, states |-> <<up>>, summFreq |-> 0,
                               at |-> nil]) @@ acc.k, x, found, r.n)]

\* a context for the symbol in each of xs, from the last on, or nil when the
\* memory is used up
Successors(b, k, xs, up, parent) ==
  FoldLeft(LAMBDA acc, x : IF acc.c = nil THEN acc ELSE Child(acc, x, up, newContext(acc.a)),
           [a |-> b, k |-> k, c |-> parent, ok |-> TRUE], Reverse(xs))

\* ok says that parent is a context and that the text has been written
createSuccessors(b, k, txt) ==
  LET t == SameText(k)
      xs == (IF orderFall # 0 THEN <<minC>> ELSE <<>>) \o t.same
      raw == StateOf(k, minC, found).succ
      up == [sym |-> succByte(txt, raw), freq |-> SuccFreq(k, t.parent, succByte(txt, raw)),
             succ |-> nextByteAddr(raw)]
  IN IF xs = <<>> THEN [a |-> b, k |-> k, c |-> t.parent, ok |-> TRUE]
     ELSE IF t.parent = nil \/ -raw \notin DOMAIN txt
     THEN [a |-> b, k |-> k, c |-> nil, ok |-> FALSE]
     ELSE Successors(b, k, xs, up, t.parent)

\* ReadByte returns and the next symbol is read in context x
Returns(x) == /\ maxC' = x /\ pc' = "ready"
              /\ NoneFound /\ newC' = nil /\ succ' = 0 /\ ec' = nil

\* seeded bug: old masks are kept when escCount starts again
MaskWrapsKept == escCount' = (IF escCount = 0 THEN 1 ELSE escCount) /\ UNCHANGED charMask
\* escCount has gone round: all masks are cleared
MaskWraps == /\ escCount' = IF escCount = 0 THEN 1 ELSE escCount
             /\ charMask' = IF escCount = 0 THEN [y \in Syms |-> 0] ELSE charMask

\* the context of the longest order has been seen with the symbol before
Follow ==
  LET t == StateOf(ctx, minC, found)
  IN /\ pc = "update" /\ orderFall = 0 /\ t.succ > 0
     /\ Returns(t.succ)
     /\ UNCHANGED <<a, text, ctx, maxOrder, orderFall, initEsc, charMask, escCount, calls, wentOn,
                    fault>>

\* it has not: only its successor is made
GoesOnAt(r) ==
  /\ a' = r.a
  /\ ctx' = SetSucc(r.k, minC, found, r.c)
  /\ fault' = ~r.ok
  /\ Returns(r.c)

LearnLongest ==
  /\ pc = "update" /\ orderFall = 0 /\ StateOf(ctx, minC, found).succ <= 0
  /\ MaskWraps
  /\ GoesOnAt(createSuccessors(a, CountInSuffix(ctx), text))
  /\ UNCHANGED <<text, maxOrder, orderFall, initEsc, calls, wentOn>>

\* A shorter one: the symbol is put on the text, and the contexts from maxC
\* up to minC are to learn it.
\* where the next symbol is read, from the successor s the symbol had and
\* its place in the text
NextContext(k, s, push) ==
  IF push.succ = 0 THEN [a |-> push.a, k |-> k, c |-> nil, ok |-> TRUE]
  ELSE IF s = 0
  THEN [a |-> push.a, k |-> SetSucc(k, minC, found, push.succ), c |-> minC, ok |-> TRUE]
  ELSE IF s > 0 THEN [a |-> push.a, k |-> k, c |-> s, ok |-> TRUE]
  ELSE createSuccessors(push.a, k, push.text)

Grows(r, s, p) ==
  LET last == s # 0 /\ orderFall = 1
  IN IF r.c = nil
     THEN /\ a' = r.a
          /\ ctx' = r.k
          /\ fault' = ~r.ok
          /\ Returns(nil)
          /\ UNCHANGED orderFall
     ELSE /\ a' = IF last /\ maxC # minC THEN popByte(r.a) ELSE r.a
          /\ ctx' = r.k
          /\ newC' = r.c
          /\ succ' = IF last THEN r.c ELSE p
          /\ orderFall' = IF s = 0 THEN orderFall ELSE orderFall - 1
          /\ ec' = maxC
          /\ pc' = "expand"
          /\ UNCHANGED <<maxC, minC, found, want, fault>>

Learn ==
  LET push == pushByte(a, text, found)
      s == StateOf(ctx, minC, found).succ
  IN /\ pc = "update" /\ orderFall # 0
     /\ MaskWraps
     /\ text' = push.text
     /\ Grows(NextContext(CountInSuffix(ctx), s, push), s, push.succ)
     /\ UNCHANGED <<maxOrder, initEsc, calls, wentOn>>

\* seeded bug: no room for the escape
SummFreqNoEscape(st, summ, n) == IF Len(st) = 1 THEN st[1].freq ELSE summ
\* the sum of context ec before the new symbol, n the states of minC
SummFreqBefore(st, summ, n) ==
  LET ns == Len(st)
  IN IF ns = 1 THEN st[1].freq + initEsc + (IF n > 3 THEN 1 ELSE 0)
     ELSE summ + (IF 4 * ns <= n /\ summ <= 8 * ns THEN 2 ELSE 0)
               + (IF 2 * ns < n THEN 1 ELSE 0)

\* the count a new symbol starts with
NewFreq(cf, sf) ==
  IF cf >= 6 * sf
  THEN 4 + Cardinality({f \in {9, 12, 15} : cf >= f * sf})
  ELSE 1 + (IF cf > sf THEN 1 ELSE 0) + (IF cf >= 4 * sf THEN 1 ELSE 0)

\* context ec, whose states move to the block of r, learns the symbol
Learns(r) ==
  LET n == Ns(ctx, minC)
      t == StateOf(ctx, minC, found)
      s0 == ctx[minC].summFreq - n - (t.freq - 1)
      ns == Ns(ctx, ec)
      one == [ctx[ec].states EXCEPT ![1].freq =
                IF @ < maxFreq \div 4 - 1 THEN 2 * @ ELSE maxFreq - 4]
      st == IF ns = 1 THEN one ELSE ctx[ec].states
      summ == SummFreqBefore(st, ctx[ec].summFreq, n)
      freq == NewFreq(2 * t.freq * (summ + 6), s0 + summ)
  IN /\ a' = r.a
     /\ IF r.n = nil THEN Returns(nil) /\ UNCHANGED ctx
        ELSE /\ ctx' = [ctx EXCEPT ![ec].at = r.n,
                                   ![ec].states = Append(st, [sym |-> found, freq |-> freq, succ |-> succ]),
                                   ![ec].summFreq = summ + IF freq > 3 THEN freq ELSE 3]
             /\ ec' = contextSuffix(ctx, ec)
             /\ UNCHANGED <<maxC, minC, found, want, newC, succ, pc>>

Expand ==
  /\ pc = "expand" /\ ec # minC
  /\ Learns(expandStates(a, ctx[ec].at, Ns(ctx, ec)))
  /\ UNCHANGED <<text, maxOrder, orderFall, initEsc, charMask, escCount, calls, wentOn, fault>>

Learnt ==
  /\ pc = "expand" /\ ec = minC
  /\ Returns(newC)
  /\ UNCHANGED <<a, text, ctx, maxOrder, orderFall, initEsc, charMask, escCount, calls, wentOn,
                 fault>>
-----------------------------------------------------------------------------
\* newPPM29Decoder: order 2 and the smallest memory
Init ==
  /\ a = init(Min({f.bytes : f \in Formats}))
  /\ text = <<>> /\ ctx = <<>> /\ maxC = nil /\ minC = nil /\ found = 0
  /\ maxOrder = 2 /\ orderFall = 0 /\ initEsc = 0
  /\ charMask = [y \in Syms |-> 0] /\ escCount = 0
  /\ pc = "ready" /\ newC = nil /\ succ = 0 /\ ec = nil
  /\ calls = 0 /\ want = 0 /\ wentOn = FALSE /\ fault = FALSE

Next ==
  \/ Restart
  \/ \E f \in Formats : InitModel(f)
  \/ ReadByte
  \/ Escape
  \/ SourceFails
  \/ GoesOn
  \/ Follow
  \/ LearnLongest
  \/ Learn
  \/ Expand
  \/ Learnt

Spec == Init /\ [][Next]_vars
-----------------------------------------------------------------------------
(* Properties.                                                             *)

Contexts == DOMAIN ctx
ArrayUnits(x) ==
  IF ctx[x].at = nil THEN {}
  ELSE ctx[x].at .. ctx[x].at + index2Units[StatesIndex(Ns(ctx, x))] - 1

(* Every unit above the text is a context, part of one array of states,    *)
(* part of one free block or not yet used, and only one of these, as long  *)
(* as no old bytes look like a free block; also when a stream goes on      *)
(* after an error.                                                         *)
ModelPartition ==
  Contexts # {} =>
    Partition(a, {<<"context", x, {x}>> : x \in Contexts}
                 \cup {<<"states", x, ArrayUnits(x)>> : x \in Contexts})

(* A context's symbols are different ones, and its suffix, one order       *)
(* shorter, has them all; order and orderFall add up to maxOrder.  So the  *)
(* loops of update and decodeSymbol2 that look a symbol up by its index    *)
(* find it.  Not so when a stream goes on after an error, which leaves     *)
(* orderFall where it was.                                                 *)
SuffixClosed ==
  wentOn \/
  /\ \A x \in Contexts \ {ec} :
       LET syms == {t.sym : t \in ToSet(ctx[x].states)}
           y == contextSuffix(ctx, x)
       IN /\ Cardinality(syms) = Ns(ctx, x)
          /\ IF y = nil THEN syms = Syms
             ELSE y \in Contexts
                  /\ (pc = "ready" /\ maxC # nil => syms \subseteq {t.sym : t \in ToSet(ctx[y].states)})
  /\ pc = "ready" /\ maxC # nil => orderFall + Len(SuffixChain(ctx, maxC)) = maxOrder

(* The counts of a context stay within a byte's share of the tables they   *)
(* index, and a context of several states leaves room for the escape, so   *)
(* that its sum is not zero and createSuccessors divides by no zero; also  *)
(* when a stream goes on after an error.  What is counted is taken to stay *)
(* as it was written, which it does while the memory is partitioned and    *)
(* maxC is a context: the zero that decodeSymbol1 guards against ("look    *)
(* at why this happens") is not ruled out for memory that overlaps, nor    *)
(* after the order 1 was refused.                                          *)
CountsInRange ==
  \A x \in Contexts :
    LET st == ctx[x].states
    IN /\ \A i \in 1 .. Len(st) : st[i].freq \in 1 .. (IF Len(st) = 1 THEN BinMax ELSE maxFreq)
       /\ Len(st) > 1 => ctx[x].summFreq > Total(st)

(* Between two symbols no symbol is masked, also after escCount has gone   *)
(* round, and no index has been out of range; unless the stream goes on    *)
(* after an error, which leaves the masks of the symbol it could not read. *)
MasksFresh == wentOn \/
              /\ ~fault
              /\ pc = "ready" /\ maxC # nil => \A y \in Syms : charMask[y] # escCount

(* The symbol ReadByte returns is the one that was decoded, although       *)
(* rescale sorts the states and returns the first of them.                 *)
ReturnsDecoded == pc \in {"update", "expand"} => found = want
=============================================================================
