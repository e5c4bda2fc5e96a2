-------------------------- MODULE ArchiveReaderProofs --------------------------
(***************************************************************************)
(* What a caller of Reader and File.Open can rely on, for any archives, any *)
(* sizes of reads and any mix of calls: an end without an error is the end *)
(* the header promises, of the data its checksum is of, and a checksum is  *)
(* dropped only when it was right.                                         *)
(*                                                                         *)
(* What a file is read through has five counters of its own (the source,   *)
(* the limit, the hash, its result and the caller).  The properties follow *)
(* from how they are tied to each other, which holds also after nextFile   *)
(* has run the source to its end and failed, and after Seek, which moves   *)
(* the source and the caller but not the limit.                            *)
(***************************************************************************)
EXTENDS ArchiveReader, DataFacts

TypeInv ==
  /\ mode \in Modes /\ arc \in mode.archives
  /\ cur \in 0 .. Len(arc) /\ nosum \subseteq 1 .. Len(arc)
  /\ top = "file" => cur >= 1
  /\ chk \in BOOLEAN

(* The counters of the current file. *)
FileInv ==
  /\ src \in 0 .. Len(File.data) /\ lim \in Nat /\ pos \in Int
  /\ ~Seeker => /\ lim = pos /\ pos <= Len(File.data)
                /\ src = pos \/ src = Len(File.data)
  /\ Limited => lim <= File.size
  /\ op = "read" /\ ret = "EOF" /\ Limited => lim = File.size

(* The checksum of the current file. *)
HashInv ==
  /\ File.sum # NoSum
  /\ hashed = Part(File.data, 1, pos)
  /\ eofErr # "nil" => src = Len(File.data) \/ (Limited /\ lim = File.size)
  /\ eofErr = "EOF" => hashed = File.sum

IInv == /\ TypeInv
        /\ top = "file" => FileInv /\ (chk => HashInv)
        /\ TrustIsEarned
-----------------------------------------------------------------------------
(* The current file.                                                       *)

LEMMA FileIs ==
  ASSUME TypeInv, top = "file"
  PROVE  /\ cur \in 1 .. Len(arc) /\ Len(arc) \in Nat
         /\ \E S : File.data \in Seq(S) /\ (File.sum # NoSum => File.sum \in Seq(S))
         /\ Len(File.data) \in Nat /\ File.size \in Int
<1>1. Sequence(arc) /\ Len(arc) \in Nat
  BY FileAssumption DEF TypeInv, Sequence
<1>2. cur \in 1 .. Len(arc)
  BY <1>1 DEF TypeInv
<1>3. /\ File.size \in Int /\ Sequence(File.data)
      /\ File.sum = NoSum \/ Sequence(File.sum)
  BY <1>2, FileAssumption DEF TypeInv, File
<1>4. PICK d, s : d = File.data /\ s = File.sum
  OBVIOUS
<1> DEFINE S == {d[k] : k \in DOMAIN d} \cup {s[k] : k \in DOMAIN s}
<1>5. d \in Seq(S) /\ (s # NoSum => s \in Seq(S)) /\ Len(d) \in Nat
  BY <1>3, <1>4, SeqMonotonic DEF Sequence
<1>6. QED
  BY <1>1, <1>2, <1>3, <1>4, <1>5

(* What a reader below checksumReader gives: no more bytes than there are, *)
(* none beyond the size, and its clean end where one of them is reached.   *)
Given(k, e) ==
  /\ k \in 0 .. Left
  /\ Limited => lim + k <= File.size
  /\ e = "EOF" => src + k = Len(File.data) \/ (Limited /\ lim + k = File.size)

LEMMA LimitedReadIs ==
  ASSUME TypeInv, top = "file", FileInv, NEW p \in Nat, NEW x \in LimitedRead(p)
  PROVE  Given(x.n, x.err) /\ (x.err = "EOF" /\ Limited => lim + x.n = File.size)
<1>1. /\ Len(File.data) \in Nat /\ File.size \in Int /\ lim \in Nat /\ src \in Nat
      /\ src <= Len(File.data) /\ (Limited => lim <= File.size)
  BY FileIs DEF FileInv
<1>2. PICK d, m : d = Len(File.data) /\ m = File.size
  OBVIOUS
<1>3. /\ d \in Nat /\ m \in Int /\ src <= d /\ (m >= 0 => lim <= m)
  BY <1>1, <1>2 DEF Limited
<1>4. CASE Limited /\ lim >= File.size
  <2>1. x = [n |-> 0, err |-> "EOF"]
    BY <1>4 DEF LimitedRead
  <2>2. QED
    BY <1>1, <1>4, <2>1 DEF Given, Left
<1>5. CASE ~(Limited /\ lim >= File.size)
  <2>1. PICK q : q = IF Limited THEN Smaller(p, File.size - lim) ELSE p
    OBVIOUS
  <2>2. q \in Int /\ (Limited => q <= File.size - lim)
    BY <1>1, <1>5, <2>1 DEF Smaller
  <2>3. PICK y \in SourceRead(q) : x = [n |-> y.n, err |-> LimitedError(y.err)]
    BY <1>5, <2>1 DEF LimitedRead
  <2>4. CASE Left > 0
    <3>1. PICK k \in 1 .. Smaller(q, Left) : y = [n |-> k, err |-> "nil"]
      BY <2>3, <2>4 DEF SourceRead
    <3>2. x.n = k /\ x.err = "nil"
      BY <2>3, <3>1 DEF LimitedError
    <3>3. k \in 0 .. Left /\ k <= q
      BY <1>1, <2>2, <2>4, <3>1 DEF Smaller, Left
    <3>4. QED
      BY <1>1, <2>2, <3>2, <3>3 DEF Given, Left
  <2>5. CASE ~(Left > 0)
    <3>1. x.n = 0 /\ x.err = LimitedError(File.fails)
      BY <2>3, <2>5 DEF SourceRead
    <3>2. x.err = "EOF" => ~Limited
      BY <3>1 DEF LimitedError
    <3>3. QED
      BY <1>1, <2>5, <3>1, <3>2 DEF Given, Left
  <2>6. QED
    BY <2>4, <2>5
<1>6. QED
  BY <1>4, <1>5

LEMMA LimitedWriteIs ==
  ASSUME TypeInv, top = "file", FileInv
  PROVE  Given(LimitedWriteTo.n, "EOF")
<1>1. /\ Len(File.data) \in Nat /\ File.size \in Int /\ lim \in Nat /\ src \in Nat
      /\ src <= Len(File.data) /\ (Limited => lim <= File.size)
  BY FileIs DEF FileInv
<1>2. PICK want : want = IF Limited THEN File.size - lim ELSE -1
  OBVIOUS
<1>3. want \in Int /\ (Limited => want = File.size - lim /\ want >= 0) /\ (~Limited => want < 0)
  BY <1>1, <1>2
<1>4. LimitedWriteTo = SourceWrite(want)
  BY <1>2 DEF LimitedWriteTo
<1>5. Left \in Nat /\ src + Left = Len(File.data)
  BY <1>1 DEF Left
<1>6. CASE want < 0
  <2>1. LimitedWriteTo.n = Left /\ ~Limited
    BY <1>3, <1>4, <1>6 DEF SourceWrite
  <2>2. QED
    BY <1>5, <2>1 DEF Given
<1>7. CASE want >= 0 /\ want <= Left
  <2>1. LimitedWriteTo.n = want /\ Limited
    BY <1>3, <1>4, <1>7 DEF SourceWrite
  <2>2. QED
    BY <1>1, <1>3, <1>5, <1>7, <2>1 DEF Given
<1>8. CASE want >= 0 /\ want > Left
  <2>1. LimitedWriteTo.n = Left /\ Limited
    BY <1>3, <1>4, <1>5, <1>8 DEF SourceWrite
  <2>2. QED
    BY <1>1, <1>3, <1>5, <1>8, <2>1 DEF Given
<1>9. QED
  BY <1>3, <1>5, <1>6, <1>7, <1>8
-----------------------------------------------------------------------------
(* Calls that take bytes.                                                  *)

(* The hash goes on where the caller is. *)
LEMMA HashNext ==
  ASSUME TypeInv, top = "file", FileInv, chk, HashInv, NEW k \in 0 .. Left
  PROVE  HashWith(k) = Part(File.data, 1, pos + k)
<1>1. PICK S : File.data \in Seq(S)
  BY FileIs
<1>2. PICK d : d = File.data
  OBVIOUS
<1>3. ~Seeker
  BY DEF Seeker
<1>4. /\ d \in Seq(S) /\ Len(d) \in Nat /\ pos \in 0 .. Len(d) /\ src \in 0 .. Len(d)
      /\ src = pos \/ src = Len(d)
      /\ hashed = Part(d, 1, pos)
  BY <1>1, <1>2, <1>3, FileIs DEF FileInv, HashInv
<1>5. HashWith(k) = Cat(Part(d, 1, pos), Part(d, src + 1, src + k))
  BY <1>2, <1>4 DEF HashWith, Bytes, Cat, Part
<1>6. CASE k = 0
  <2>1. PICK x : x = Part(d, 1, pos)
    OBVIOUS
  <2>2. Part(d, src + 1, src + k) = <<>>
    BY <1>4, <1>6 DEF Part
  <2>3. x \in Seq(S)
    BY <1>4, <2>1, PartType
  <2>4. Cat(x, <<>>) = x
    BY <2>3, CatEmpty
  <2>5. QED
    BY <1>2, <1>4, <1>5, <1>6, <2>1, <2>2, <2>4
<1>7. CASE k # 0
  <2>1. src = pos /\ k \in 0 .. Len(d) - pos
    BY <1>2, <1>4, <1>7 DEF Left
  <2>2. QED
    BY <1>2, <1>4, <1>5, <2>1, PartNext
<1>8. QED
  BY <1>6, <1>7

(* Finish keeps the invariant for what a reader may be given.  For Read    *)
(* and ReadByte the checksum is due at EOF.                                *)
LEMMA FinishStep ==
  ASSUME IInv, top = "file", NEW k, NEW o, NEW e, NEW end \in BOOLEAN,
         Given(k, IF end THEN "EOF" ELSE "nil"), Finish(o, k, e, end),
         o = "read" => (end <=> e = "EOF") /\ (end /\ Limited => lim + k = File.size)
  PROVE  IInv'
<1>1. /\ Len(File.data) \in Nat /\ File.size \in Int /\ lim \in Nat /\ pos \in Int
      /\ src \in Nat /\ src <= Len(File.data) /\ (Limited => lim <= File.size)
      /\ cur \in 1 .. Len(arc)
  BY FileIs DEF IInv, FileInv
<1>2. /\ k \in 0 .. Left /\ k \in Nat /\ src + k <= Len(File.data)
      /\ Limited => lim + k <= File.size
      /\ end => src + k = Len(File.data) \/ (Limited /\ lim + k = File.size)
  BY <1>1 DEF Given, Left
<1>3. /\ UNCHANGED <<mode, arc, cur, top, chk>>
      /\ src' = src + k /\ lim' = lim + k /\ pos' = pos + k /\ op' = o
      /\ File' = File /\ Limited' = Limited /\ Seeker' = Seeker
  BY DEF Finish, File, Limited, Seeker
<1>4. PICK c : c = IF chk /\ end THEN eofError(HashWith(k)) ELSE e
  OBVIOUS
<1>5. /\ hashed' = (IF chk THEN HashWith(k) ELSE hashed)
      /\ eofErr' = (IF chk /\ end THEN c ELSE eofErr)
      /\ nosum' = (IF Verified(end, c) THEN nosum \cup {cur} ELSE nosum)
      /\ ret' = (IF o = "write" /\ chk /\ c = "EOF" THEN "nil" ELSE c)
  BY <1>4 DEF Finish
<1>6. TypeInv'
  BY <1>1, <1>3, <1>5 DEF IInv, TypeInv
<1>7. FileInv'
  <2>1. src' \in 0 .. Len(File.data) /\ lim' \in Nat /\ pos' \in Int
    BY <1>1, <1>2, <1>3
  <2>2. ~Seeker => /\ lim' = pos' /\ pos' <= Len(File.data)
                   /\ src' = pos' \/ src' = Len(File.data)
    BY <1>1, <1>2, <1>3 DEF IInv, FileInv
  <2>3. Limited => lim' <= File.size
    BY <1>1, <1>2, <1>3
  <2>4. op' = "read" /\ ret' = "EOF" /\ Limited => lim' = File.size
    <3> SUFFICES ASSUME o = "read", ret' = "EOF", Limited PROVE lim' = File.size
      BY <1>3
    <3>1. c = "EOF"
      BY <1>5
    <3>2. end
      BY <1>4, <3>1
    <3>3. QED
      BY <1>3, <3>2
  <2>5. QED
    BY <1>3, <2>1, <2>2, <2>3, <2>4 DEF FileInv
<1>8. ASSUME chk PROVE HashInv' /\ (Verified(end, c) => /\ Len(File.sum) <= Len(File.data)
                                      /\ File.sum = SubSeq(File.data, 1, Len(File.sum)))
  <2>1. /\ File.sum # NoSum /\ hashed = Part(File.data, 1, pos) /\ ~Seeker
        /\ eofErr # "nil" => src = Len(File.data) \/ (Limited /\ lim = File.size)
        /\ eofErr = "EOF" => hashed = File.sum
    BY <1>8 DEF IInv, HashInv, Seeker
  <2>2. hashed' = Part(File.data, 1, pos + k) /\ hashed' = HashWith(k)
    BY <1>2, <1>5, <1>8, HashNext DEF IInv
  <2>3. eofErr # "nil" => k = 0
    BY <1>1, <1>2, <2>1 DEF Left
  <2>4. eofErr' # "nil" => src' = Len(File.data) \/ (Limited /\ lim' = File.size)
    <3>1. CASE end
      BY <1>2, <1>3, <3>1
    <3>2. CASE ~end
      <4>1. eofErr' = eofErr
        BY <1>5, <3>2
      <4>2. QED
        BY <1>1, <1>3, <2>1, <2>3, <4>1
    <3>3. QED
      BY <3>1, <3>2
  <2>5. eofErr # "nil" => eofErr' = eofErr
    BY <1>4, <1>5 DEF eofError
  <2>6. eofErr = "nil" /\ eofErr' = "EOF" => HashWith(k) = File.sum
    BY <1>4, <1>5 DEF eofError
  <2>7. k = 0 => hashed' = hashed
    BY <1>1, <2>1, <2>2
  <2>8. eofErr' = "EOF" => hashed' = File.sum
    BY <2>1, <2>2, <2>3, <2>5, <2>6, <2>7
  <2>9. HashInv'
    BY <1>3, <2>1, <2>2, <2>4, <2>8 DEF HashInv
  <2>10. ASSUME Verified(end, c)
         PROVE  /\ Len(File.sum) <= Len(File.data)
                /\ File.sum = SubSeq(File.data, 1, Len(File.sum))
    <3>1. HashWith(k) = File.sum
      BY <1>4, <1>5, <2>10 DEF Verified, eofError
    <3>2. PICK S : File.data \in Seq(S)
      BY FileIs DEF IInv
    <3>3. PICK d, n : d = File.data /\ n = pos + k
      OBVIOUS
    <3>4. pos' <= Len(File.data) /\ pos' = lim' /\ lim' \in Nat
      BY <1>3, <1>7, <2>1 DEF FileInv
    <3>5. d \in Seq(S) /\ n \in 0 .. Len(d) /\ 1 \in 1 .. Len(d) + 1 /\ 1 <= n + 1
      BY <1>1, <1>3, <3>2, <3>3, <3>4
    <3>6. Len(Part(d, 1, n)) = n - 1 + 1
      BY <3>5, PartType
    <3>7. File.sum = Part(d, 1, n)
      BY <2>2, <3>1, <3>3
    <3>8. Len(File.sum) = n
      BY <3>5, <3>6, <3>7
    <3>9. QED
      BY <3>3, <3>5, <3>7, <3>8 DEF Part
  <2>11. QED
    BY <2>9, <2>10
<1>9. TrustIsEarned'
  <2> SUFFICES ASSUME NEW i \in nosum'
               PROVE  /\ Len(arc[i].sum) <= Len(arc[i].data)
                      /\ arc[i].sum = SubSeq(arc[i].data, 1, Len(arc[i].sum))
    BY <1>3 DEF TrustIsEarned
  <2>1. CASE i \in nosum
    BY <2>1 DEF IInv, TrustIsEarned
  <2>2. CASE i \notin nosum
    <3>1. i = cur /\ Verified(end, c) /\ chk
      BY <1>5, <2>2 DEF Verified
    <3>2. QED
      BY <1>8, <3>1 DEF File
  <2>3. QED
    BY <2>1, <2>2
<1>10. QED
  BY <1>3, <1>6, <1>7, <1>8, <1>9 DEF IInv

LEMMA ReadStep ==
  ASSUME IInv, NEW p \in Nat, Read(p)
  PROVE  IInv'
<1>1. top = "file"
  BY DEF Read
<1>2. PICK x \in LimitedRead(p) : Finish("read", x.n, x.err, x.err = "EOF")
  BY DEF Read
<1>3. PICK k, e : k = x.n /\ e = x.err
  OBVIOUS
<1>4. Given(k, e) /\ (e = "EOF" /\ Limited => lim + k = File.size)
  BY <1>1, <1>3, LimitedReadIs DEF IInv
<1>5. PICK end \in BOOLEAN : end <=> e = "EOF"
  OBVIOUS
<1>6. Given(k, IF end THEN "EOF" ELSE "nil")
  BY <1>4, <1>5 DEF Given
<1>7. Finish("read", k, e, end)
  <2>1. end = (e = "EOF")
    BY <1>5
  <2>2. QED
    BY <1>2, <1>3, <2>1
<1>8. QED
  BY <1>1, <1>4, <1>5, <1>6, <1>7, FinishStep

LEMMA WriteStep ==
  ASSUME IInv, WriteTo
  PROVE  IInv'
<1>1. PICK k, e : k = LimitedWriteTo.n /\ e = LimitedWriteTo.err
  OBVIOUS
<1>2. PICK end \in BOOLEAN : end <=> e \in {"nil", "EOF"}
  OBVIOUS
<1>3. top = "file" /\ Finish("write", k, e, e \in {"nil", "EOF"})
  BY <1>1 DEF WriteTo
<1>4. Finish("write", k, e, end)
  <2>1. end = (e \in {"nil", "EOF"})
    BY <1>2
  <2>2. QED
    BY <1>3, <2>1
<1>5. Given(k, IF end THEN "EOF" ELSE "nil")
  BY <1>1, <1>3, LimitedWriteIs DEF IInv, Given
<1>6. QED
  BY <1>3, <1>4, <1>5, FinishStep
-----------------------------------------------------------------------------
(* Calls that go to another file, or to another place.                     *)

LEMMA NewFileStep ==
  ASSUME IInv, NEW i \in 1 .. Len(arc), newArchiveFile(i), UNCHANGED <<mode, arc, nosum>>
  PROVE  IInv'
<1>1. Len(arc[i].data) \in Nat /\ arc[i].size \in Int /\ Sequence(arc[i].data)
  <2>1. arc[i].size \in Int /\ Sequence(arc[i].data)
    BY FileAssumption DEF IInv, TypeInv
  <2>2. QED
    BY <2>1 DEF Sequence
<1>2. /\ cur' = i /\ src' = 0 /\ lim' = 0 /\ pos' = 0 /\ hashed' = <<>> /\ eofErr' = "nil"
      /\ chk' = (arc[i].sum # NoSum /\ ~mode.skipCheck /\ i \notin nosum)
      /\ ret' # "EOF" /\ File' = arc[i] /\ (Limited' <=> arc[i].size >= 0)
      /\ mode' = mode /\ arc' = arc /\ nosum' = nosum
  <2>1. /\ cur' = i /\ arc' = arc /\ File' = arc[i]
    BY DEF newArchiveFile, File
  <2>2. Limited' <=> arc[i].size >= 0
    BY <2>1 DEF Limited
  <2>3. ret' # "EOF"
    BY Zenon DEF newArchiveFile
  <2>4. QED
    BY <2>1, <2>2, <2>3, Zenon DEF newArchiveFile
<1>3. TypeInv'
  <2>1. chk' \in BOOLEAN
    BY <1>2
  <2>2. QED
    BY <1>2, <2>1 DEF IInv, TypeInv
<1>4. FileInv'
  <2>1. PICK d, m : d = Len(arc[i].data) /\ m = arc[i].size
    OBVIOUS
  <2>2. d \in Nat /\ m \in Int /\ Len(File'.data) = d /\ File'.size = m
        /\ (Limited' <=> m >= 0)
    BY <1>1, <1>2, <2>1
  <2>3. QED
    BY <1>2, <2>2 DEF FileInv
<1>5. chk' => HashInv'
  <2>1. PICK d : d = arc[i].data
    OBVIOUS
  <2>2. Part(d, 1, 0) = <<>>
    BY <1>1, <2>1 DEF Part, Sequence
  <2>3. QED
    BY <1>2, <2>1, <2>2 DEF HashInv
<1>6. TrustIsEarned'
  BY DEF IInv, TrustIsEarned
<1>7. QED
  BY <1>3, <1>4, <1>5, <1>6 DEF IInv

(* A call that leaves the counters and the checksum as they are. *)
LEMMA Stays ==
  ASSUME IInv, UNCHANGED <<mode, arc, cur, top, stack, nosum, pos>>,
         op' # "read" \/ ret' # "EOF" \/ (op' = op /\ ret' = ret)
  PROVE  IInv'
<1>1. File' = File /\ Limited' = Limited /\ Seeker' = Seeker
  BY DEF File, Limited, Seeker, stack
<1>2. TypeInv' /\ TrustIsEarned'
  BY DEF IInv, TypeInv, TrustIsEarned, stack
<1>3. top = "file" => FileInv'
  BY <1>1 DEF IInv, FileInv, stack
<1>4. top = "file" /\ chk => HashInv'
  BY <1>1 DEF IInv, HashInv, stack
<1>5. QED
  BY <1>2, <1>3, <1>4 DEF IInv, stack

(* nextFile has run the source of a solid file to its end. *)
LEMMA DrainStep ==
  ASSUME IInv, top = "file", ~mode.opened, src' = Len(File.data), op' = "next",
         UNCHANGED <<mode, arc, cur, top, lim, hashed, eofErr, chk, nosum, pos>>
  PROVE  IInv'
<1>1. File' = File /\ Limited' = Limited /\ Seeker' = Seeker /\ ~Seeker
  BY DEF File, Limited, Seeker
<1>2. TypeInv' /\ TrustIsEarned'
  BY DEF IInv, TypeInv, TrustIsEarned
<1>3. FileInv'
  <2>1. Len(File.data) \in Nat
    BY FileIs DEF IInv
  <2>2. QED
    BY <1>1, <2>1 DEF IInv, FileInv
<1>4. chk => HashInv'
  BY <1>1 DEF IInv, HashInv
<1>5. QED
  BY <1>2, <1>3, <1>4 DEF IInv

LEMMA NextFileStep ==
  ASSUME IInv, NextFile
  PROVE  IInv'
<1>1. CASE /\ top = "nil" /\ op' = "next"
           /\ UNCHANGED <<mode, arc, cur, top, stack, decoded, nosum, pos>>
  BY <1>1, Stays
<1>2. CASE /\ Drains /\ ~mode.opened /\ src' = Len(File.data) /\ op' = "next"
           /\ UNCHANGED <<mode, arc, cur, top, lim, hashed, eofErr, chk, nosum, pos>>
  BY <1>2, DrainStep DEF Drains
<1>3. CASE /\ cur < Len(arc) /\ newArchiveFile(cur + 1) /\ UNCHANGED <<mode, arc, nosum>>
  <2>1. Len(arc) \in Nat
    BY FileAssumption DEF IInv, TypeInv, Sequence
  <2>2. cur + 1 \in 1 .. Len(arc)
    BY <1>3, <2>1 DEF IInv, TypeInv
  <2>3. QED
    BY <1>3, <2>2, NewFileStep
<1>4. CASE /\ ~Drains /\ op' = "next"
           /\ UNCHANGED <<mode, arc, cur, top, src, lim, hashed, eofErr, chk, nosum, pos>>
  BY <1>4, Stays DEF stack
<1>5. QED
  BY <1>1, <1>2, <1>3, <1>4 DEF NextFile

LEMMA OpenStep ==
  ASSUME IInv, NEW i \in 1 .. Len(arc), Open(i)
  PROVE  IInv'
<1>1. CASE arc[i].open = "dict"
  BY <1>1, Stays DEF Open, stack
<1>2. CASE arc[i].open # "dict"
  BY <1>2, NewFileStep DEF Open
<1>3. QED
  BY <1>1, <1>2

LEMMA SeekStep ==
  ASSUME IInv, NEW o \in Int, NEW w \in Whences, Seek(o, w)
  PROVE  IInv'
<1>1. /\ top = "file" /\ Seeker /\ Limited /\ ~chk /\ op' = "seek"
      /\ UNCHANGED <<mode, arc, cur, top, lim, hashed, eofErr, chk, nosum>>
  BY DEF Seek, Seeker
<1>2. File' = File /\ Limited' = Limited /\ Seeker' = Seeker
  BY <1>1 DEF File, Limited, Seeker
<1>3. TypeInv' /\ TrustIsEarned'
  BY <1>1 DEF IInv, TypeInv, TrustIsEarned
<1>4. /\ Len(File.data) \in Nat /\ File.size \in Int /\ lim \in Nat /\ pos \in Int
      /\ src \in 0 .. Len(File.data) /\ lim <= File.size
  BY <1>1, FileIs DEF IInv, FileInv
<1>5. src' \in 0 .. Len(File.data) /\ pos' \in Int
  <2>1. SeekBase(w) \in Int /\ w \in {"start", "current", "end"}
    BY <1>4, ModeAssumption DEF SeekBase
  <2>2. PICK t : t = SeekBase(w) + o
    OBVIOUS
  <2>3. CASE t < 0 \/ t > File.size \/ t > Len(File.data)
    BY <1>4, <2>2, <2>3 DEF Seek
  <2>4. CASE ~(t < 0 \/ t > File.size \/ t > Len(File.data))
    <3>1. src' = t
      BY <2>2, <2>4 DEF Seek
    <3>2. pos' \in Int
      BY <1>4, <2>1, <2>2, <2>4 DEF Seek
    <3>3. QED
      BY <1>4, <2>1, <2>2, <2>4, <3>1, <3>2
  <2>5. QED
    BY <2>3, <2>4
<1>6. FileInv'
  BY <1>1, <1>2, <1>4, <1>5 DEF FileInv
<1>7. QED
  BY <1>1, <1>3, <1>6 DEF IInv
-----------------------------------------------------------------------------
LEMMA InitIInv == Init => IInv
<1> SUFFICES ASSUME Init PROVE IInv
  OBVIOUS
<1>1. Len(arc) \in Nat
  BY FileAssumption DEF Init, Sequence
<1>2. mode \in Modes /\ arc \in mode.archives /\ cur = 0 /\ nosum = {} /\ chk = FALSE
      /\ top = "packed"
  BY Zenon DEF Init
<1>3. TypeInv
  <2>1. cur \in 0 .. Len(arc)
    BY <1>1, <1>2
  <2>2. chk \in BOOLEAN /\ nosum \subseteq 1 .. Len(arc) /\ top # "file"
    BY <1>2, Zenon
  <2>3. QED
    BY <1>2, <2>1, <2>2, Zenon DEF TypeInv
<1>4. TrustIsEarned
  BY <1>2, Zenon DEF TrustIsEarned
<1>5. top # "file"
  BY <1>2
<1>6. QED
  BY <1>3, <1>4, <1>5, Zenon DEF IInv

LEMMA NextIInv == IInv /\ [Next]_vars => IInv'
<1> SUFFICES ASSUME IInv, [Next]_vars PROVE IInv'
  OBVIOUS
<1>1. ASSUME NEW p \in ReadSizes, Read(p) PROVE IInv'
  BY <1>1, ModeAssumption, ReadStep
<1>2. CASE ReadByte
  BY <1>2, ReadStep DEF ReadByte
<1>3. CASE ReadError
  BY <1>3, Stays DEF ReadError
<1>4. ASSUME NEW i \in 1 .. Len(arc), Open(i) PROVE IInv'
  BY <1>4, OpenStep
<1>5. ASSUME NEW o \in -2 .. 3, NEW w \in Whences, Seek(o, w) PROVE IInv'
  BY <1>5, SeekStep
<1>6. CASE UNCHANGED vars
  BY <1>6, Stays DEF vars
<1>7. QED
  BY <1>1, <1>2, <1>3, <1>4, <1>5, <1>6, WriteStep, NextFileStep DEF Next

(* The counters and the checksum of the current file stay as IInv says,    *)
(* whatever is called: the strengthening the properties follow from.       *)
THEOREM Invariance == Spec => []IInv
BY InitIInv, NextIInv, PTL DEF Spec

(* checksumReader.eofError, limitedReader.Read: a clean end is one of a    *)
(* whole file with the right checksum, for any archive and mix of calls.   *)
THEOREM EndsVerified == Spec => []CleanEndIsVerified
<1>1. ASSUME IInv PROVE CleanEndIsVerified
  <2>1. ASSUME top = "file", chk, eofErr = "EOF" PROVE SubSeq(File.data, 1, pos) = File.sum
    BY <1>1, <2>1 DEF IInv, HashInv, Part
  <2>2. ASSUME top = "file", op = "read", ret = "EOF", Limited, ~Seeker
        PROVE  pos = File.size
    BY <1>1, <2>2 DEF IInv, FileInv
  <2>3. QED
    BY <2>1, <2>2 DEF CleanEndIsVerified
<1>2. QED
  BY <1>1, Invariance, PTL

(* fileBlockList.removeFileHash: only a checksum that was right is dropped *)
(* for later opens of the file.                                            *)
THEOREM TrustEarned == Spec => []TrustIsEarned
<1>1. IInv => TrustIsEarned
  BY DEF IInv
<1>2. QED
  BY <1>1, Invariance, PTL
-----------------------------------------------------------------------------
(* The bytes.  A file that can be sought in is at the caller's place if    *)
(* Seek is not asked to go on from the current position, which it takes    *)
(* from the limit (see README, deviations), and it ends where its header   *)
(* says: what keeps it in its limits is not limitedReader, whose position  *)
(* Seek leaves behind.                                                     *)
SeeksInside ==
  /\ "current" \notin Whences
  /\ \A m \in Modes : m.opened =>
       \A a \in m.archives : \A i \in 1 .. Len(a) :
         ~a[i].comp => a[i].size < 0 \/ Len(a[i].data) <= a[i].size

DInv == /\ top = "file" /\ Seeker => src = pos
        /\ DeliveredExact

LEMMA FinishExact ==
  ASSUME SeeksInside, IInv, DInv, top = "file", NEW k, NEW o, NEW e, NEW end,
         k \in 0 .. Left, Limited => lim + k <= File.size, Finish(o, k, e, end)
  PROVE  DInv'
<1>1. /\ Len(File.data) \in Nat /\ File.size \in Int /\ lim \in Nat /\ pos \in Int
      /\ src \in 0 .. Len(File.data) /\ cur \in 1 .. Len(arc) /\ k \in Nat
      /\ src + k <= Len(File.data)
  BY FileIs DEF IInv, FileInv, Left
<1>2. /\ UNCHANGED <<mode, arc, cur, top, chk>> /\ src' = src + k /\ pos' = pos + k
      /\ got' = [at |-> pos, data |-> Bytes(k)]
      /\ File' = File /\ Limited' = Limited /\ Seeker' = Seeker
  BY DEF Finish, File, Limited, Seeker
<1>3. k # 0 => src = pos
  BY <1>1 DEF IInv, FileInv, DInv, Left
<1>4. k # 0 /\ Limited => pos + k <= File.size
  <2>1. CASE Seeker
    <3>1. Len(File.data) <= File.size
      BY <1>1, <2>1 DEF SeeksInside, Seeker, IInv, TypeInv, File, Limited
    <3>2. QED
      BY <1>1, <1>3, <3>1
  <2>2. CASE ~Seeker
    BY <2>2 DEF IInv, FileInv
  <2>3. QED
    BY <2>1, <2>2
<1>5. DeliveredExact'
  <2>1. PICK d, n, b : d = File.data /\ n = src + k /\ b = Bytes(k)
    OBVIOUS
  <2>2. PICK S : d \in Seq(S)
    BY <2>1, FileIs DEF IInv
  <2>3. PICK m : m = src + 1
    OBVIOUS
  <2>4. /\ m \in 1 .. Len(d) + 1 /\ n \in 0 .. Len(d) /\ m <= n + 1 /\ n - m + 1 = k
    BY <1>1, <2>1, <2>3
  <2>5. b = Part(d, m, n)
    BY <2>1, <2>3 DEF Bytes, Part
  <2>6. Len(b) = n - m + 1 /\ \A j \in 1 .. n - m + 1 : b[j] = d[m + j - 1]
    BY <2>2, <2>4, <2>5, PartType
  <2>7. Len(b) = k /\ \A j \in 1 .. k : b[j] = d[src + j]
    BY <1>1, <2>3, <2>4, <2>6
  <2>8. got'.at = pos /\ got'.data = b
    BY <1>2, <2>1
  <2>9. \A j \in 1 .. k :
           /\ pos + j <= Len(File'.data) /\ b[j] = File'.data[pos + j]
           /\ Limited' => pos + j <= File'.size
    <3>1. File' = File /\ (Limited' => Limited)
      BY <1>2 DEF Limited
    <3>2. SUFFICES ASSUME NEW j \in 1 .. k
                   PROVE  /\ pos + j <= Len(File'.data) /\ b[j] = File'.data[pos + j]
                          /\ Limited' => pos + j <= File'.size
      OBVIOUS
    <3>3. File'.data = d /\ File'.size = File.size
      BY <2>1, <3>1
    <3>4. /\ k # 0 /\ src = pos /\ j \in Nat /\ j <= k
      BY <1>1, <1>3
    <3>5. pos + j <= Len(d) /\ (Limited => pos + j <= File.size)
      BY <1>1, <1>4, <2>1, <3>4
    <3>6. b[j] = d[pos + j]
      BY <1>1, <2>7, <3>4
    <3>7. QED
      BY <3>1, <3>3, <3>5, <3>6
  <2>10. QED
    BY <2>7, <2>8, <2>9, Zenon DEF DeliveredExact
<1>6. QED
  BY <1>1, <1>2, <1>5 DEF DInv

\* a call that gives no bytes
LEMMA NoBytes ==
  ASSUME got' = Nothing, top' = "file" /\ Seeker' => src' = pos'
  PROVE  DInv'
BY DEF DInv, DeliveredExact, Nothing

LEMMA NextDInv == SeeksInside /\ IInv /\ DInv /\ [Next]_vars => DInv'
<1> SUFFICES ASSUME SeeksInside, IInv, DInv, [Next]_vars PROVE DInv'
  OBVIOUS
<1>1. ASSUME NEW p \in Nat, Read(p) PROVE DInv'
  <2>1. PICK x \in LimitedRead(p) : top = "file" /\ Finish("read", x.n, x.err, x.err = "EOF")
    BY <1>1 DEF Read
  <2>2. x.n \in 0 .. Left /\ (Limited => lim + x.n <= File.size)
    BY <2>1, LimitedReadIs DEF Given, IInv
  <2>3. QED
    BY <2>1, <2>2, FinishExact
<1>2. CASE WriteTo
  <2>1. PICK x : x = LimitedWriteTo
    OBVIOUS
  <2>2. top = "file" /\ Finish("write", x.n, x.err, x.err \in {"nil", "EOF"})
    BY <1>2, <2>1 DEF WriteTo
  <2>3. x.n \in 0 .. Left /\ (Limited => lim + x.n <= File.size)
    BY <2>1, <2>2, LimitedWriteIs DEF Given, IInv
  <2>4. QED
    BY <2>2, <2>3, FinishExact
<1>3. ASSUME got' = Nothing, UNCHANGED <<mode, arc, cur, top, stack, pos>> PROVE DInv'
  <2>1. (Seeker' <=> Seeker) /\ src' = src
    BY <1>3 DEF Seeker, Limited, File, stack
  <2>2. QED
    BY <1>3, <2>1, NoBytes DEF DInv
<1>4. ASSUME NEW i, newArchiveFile(i) PROVE DInv'
  BY <1>4, NoBytes DEF newArchiveFile
<1>5. CASE NextFile
  <2>1. got' = Nothing
    BY <1>5 DEF NextFile, newArchiveFile
  <2>2. CASE ~mode.opened /\ mode' = mode
    <3>1. ~Seeker'
      BY <2>2 DEF Seeker
    <3>2. QED
      BY <2>1, <3>1, NoBytes
  <2>3. QED
    BY <1>5, <2>2 DEF NextFile
<1>6. ASSUME NEW i \in 1 .. Len(arc), Open(i) PROVE DInv'
  BY <1>3, <1>4, <1>6 DEF Open
<1>7. ASSUME NEW o \in -2 .. 3, NEW w \in Whences, Seek(o, w) PROVE DInv'
  <2>1. /\ got' = Nothing /\ Seeker /\ top = "file" /\ top' = top
        /\ w \in {"start", "end"} /\ File.size \in Int /\ src = pos
    BY <1>7, ModeAssumption, FileIs DEF Seek, SeeksInside, Seeker, IInv, DInv
  <2>2. PICK t : t = SeekBase(w) + o
    OBVIOUS
  <2>3. CASE t < 0 \/ t > File.size \/ t > Len(File.data)
    <3>1. src' = src /\ pos' = pos
      BY <1>7, <2>2, <2>3 DEF Seek
    <3>2. QED
      BY <2>1, <3>1, NoBytes
  <2>4. CASE ~(t < 0 \/ t > File.size \/ t > Len(File.data))
    <3>1. src' = t /\ pos' = IF w = "start" THEN o ELSE File.size + o
      BY <1>7, <2>1, <2>2, <2>4 DEF Seek
    <3>2. t = IF w = "start" THEN o ELSE File.size + o
      BY <2>1, <2>2 DEF SeekBase
    <3>3. QED
      BY <2>1, <3>1, <3>2, NoBytes
  <2>5. QED
    BY <2>3, <2>4
<1>8. CASE UNCHANGED vars
  <2>1. (Seeker' <=> Seeker) /\ (DeliveredExact' <=> DeliveredExact)
    BY <1>8 DEF vars, stack, Seeker, Limited, File, DeliveredExact
  <2>2. QED
    BY <1>8, <2>1 DEF vars, stack, DInv
<1>9. ReadSizes \subseteq Nat
  BY ModeAssumption
<1>10. CASE ReadError
  BY <1>3, <1>10 DEF ReadError
<1>11. CASE ReadByte
  BY <1>1, <1>11 DEF ReadByte
<1>12. QED
  BY <1>1, <1>2, <1>5, <1>6, <1>7, <1>8, <1>9, <1>10, <1>11 DEF Next

(* Read, ReadByte, WriteTo of limitedReader and checksumReader: callers    *)
(* get the bytes of the file in their order and none beyond its size, for  *)
(* any archives in which Seek stays inside.                                *)
THEOREM Delivered ==
  ASSUME SeeksInside
  PROVE  Spec => []DeliveredExact
<1>1. Init => DInv
  BY DEF Init, DInv, DeliveredExact, Nothing
<1>2. IInv /\ DInv /\ [Next]_vars => DInv'
  BY NextDInv
<1>3. DInv => DeliveredExact
  BY DEF DInv
<1>4. QED
  BY <1>1, <1>2, <1>3, Invariance, PTL DEF Spec
-----------------------------------------------------------------------------
(* Solid archives.  Files are decoded on top of the ones before them only  *)
(* where the archive says that it is solid, and if each of them can be     *)
(* decoded (a password that is missing leaves a hole in the window).       *)
Decodable ==
  \A m \in Modes : ~m.opened =>
    \A a \in m.archives : \A i \in 1 .. Len(a) :
      a[i].comp => (a[i].solid => m.solid) /\ (m.solid => a[i].open # "errs")

(* The files a file c would be decoded on top of, were it a solid one. *)
Needs(c) == {k \in 1 .. c - 1 :
               arc[k].comp /\ \A m \in k + 1 .. c : arc[m].comp => arc[m].solid}

SInv == /\ cur \in 1 .. Len(arc) => (top = "error" => arc[cur].open = "errs")
        /\ cur = 0 => top = "packed"
        /\ cur > 0 => top \in {"file", "error", "nil"}
        /\ mode.opened => cur = 0 \/ ~arc[cur].solid
        /\ ~mode.opened /\ mode.solid => Needs(cur) \subseteq decoded

(* What the next file needs is what this one does, and this one. *)
LEMMA NeedsNext ==
  ASSUME NEW c \in Nat, NEW k \in Needs(c + 1)
  PROVE  k \in Needs(c) \/ (k = c /\ c >= 1 /\ arc[c].comp)
BY DEF Needs

LEMMA NextSInv == Decodable /\ IInv /\ SInv /\ [Next]_vars => SInv'
<1> SUFFICES ASSUME Decodable, IInv, SInv, [Next]_vars PROVE SInv'
  OBVIOUS
<1>0. Len(arc) \in Nat /\ cur \in 0 .. Len(arc)
  BY FileAssumption DEF IInv, TypeInv, Sequence
<1>1. ASSUME UNCHANGED <<mode, arc, cur, top>>, decoded \subseteq decoded' PROVE SInv'
  <2>1. Needs(cur)' = Needs(cur)
    BY <1>1 DEF Needs
  <2>2. QED
    BY <1>1, <2>1 DEF SInv
<1>2. ASSUME NEW k, NEW o, NEW e, NEW end, Finish(o, k, e, end) PROVE SInv'
  BY <1>1, <1>2 DEF Finish
<1>3. ASSUME NEW p, Read(p) PROVE SInv'
  BY <1>2, <1>3 DEF Read
<1>4. CASE WriteTo
  BY <1>2, <1>4 DEF WriteTo
<1>5. CASE ReadError
  BY <1>1, <1>5 DEF ReadError
<1>6. ASSUME NEW i \in 1 .. Len(arc), newArchiveFile(i), UNCHANGED <<mode, arc>>,
             mode.opened => ~arc[i].solid,
             ~mode.opened /\ mode.solid => Needs(i) \subseteq decoded'
      PROVE  SInv'
  <2>1. /\ cur' = i /\ top' \in {"file", "error", "nil"}
        /\ top' = "error" => arc[i].open = "errs"
    BY <1>6 DEF newArchiveFile
  <2>2. Needs(cur)' = Needs(i)
    BY <1>6, <2>1 DEF Needs
  <2>3. QED
    BY <1>0, <1>6, <2>1, <2>2 DEF SInv
<1>7. ASSUME NEW i \in 1 .. Len(arc), Open(i) PROVE SInv'
  <2>1. CASE arc[i].open = "dict"
    BY <1>1, <1>7, <2>1 DEF Open
  <2>2. CASE arc[i].open # "dict"
    BY <1>6, <1>7, <2>2 DEF Open
  <2>3. QED
    BY <2>1, <2>2
<1>8. ASSUME NEW o, NEW w, Seek(o, w) PROVE SInv'
  BY <1>1, <1>8 DEF Seek
<1>9. CASE NextFile
  <2>1. CASE UNCHANGED <<mode, arc, cur, top>>
    <3>1. decoded \subseteq decoded'
      <4>1. CASE UNCHANGED decoded
        BY <4>1
      <4>2. CASE decoded' = decoded \cup {cur}
        BY <4>2
      <4>3. ASSUME NEW i, newArchiveFile(i),
                   decoded' = IF Drains THEN decoded \cup {cur} ELSE decoded
            PROVE  decoded \subseteq decoded'
        BY <4>3
      <4>4. QED
        BY <1>9, <4>1, <4>2, <4>3 DEF NextFile
    <3>2. QED
      BY <1>1, <2>1, <3>1
  <2>2. CASE /\ ~mode.opened /\ top # "nil" /\ cur < Len(arc) /\ newArchiveFile(cur + 1)
             /\ decoded' = IF Drains THEN decoded \cup {cur} ELSE decoded
             /\ UNCHANGED <<mode, arc>>
    <3>1. cur + 1 \in 1 .. Len(arc)
      BY <1>0, <2>2
    <3>2. ASSUME mode.solid, NEW k \in Needs(cur + 1) PROVE k \in decoded'
      <4>1. CASE k \in Needs(cur)
        BY <2>2, <3>2, <4>1 DEF SInv
      <4>2. CASE k = cur /\ cur >= 1 /\ arc[cur].comp
        <5>1. top # "error"
          BY <1>0, <2>2, <3>2, <4>2 DEF Decodable, SInv, IInv, TypeInv
        <5>2. top = "file"
          BY <1>0, <2>2, <4>2, <5>1 DEF SInv
        <5>3. Drains
          BY <3>2, <4>2, <5>2 DEF Drains, File
        <5>4. QED
          BY <2>2, <4>2, <5>3
      <4>3. QED
        BY <1>0, <3>2, <4>1, <4>2, NeedsNext
    <3>3. QED
      BY <1>6, <2>2, <3>1, <3>2
  <2>3. QED
    BY <1>9, <2>1, <2>2 DEF NextFile
<1>10. CASE UNCHANGED vars
  BY <1>1, <1>10 DEF vars
<1>11. QED
  BY <1>3, <1>4, <1>5, <1>7, <1>8, <1>9, <1>10 DEF Next, ReadByte

(* decodeReader.nextFile, newArchiveFileFrom: a solid file is decoded on   *)
(* top of all the packed files it goes on from, read by the caller or not, *)
(* in any archive that says so and can be decoded.                         *)
THEOREM SolidFilesInStep ==
  ASSUME Decodable
  PROVE  Spec => []SolidInStep
<1>1. Init => SInv
  BY DEF Init, SInv, Needs
<1>2. Decodable /\ IInv /\ SInv /\ [Next]_vars => SInv'
  BY NextSInv
<1>3. ASSUME IInv, SInv PROVE SolidInStep
  <2> SUFFICES ASSUME top = "file", cur > 0, File.comp, File.solid,
                      NEW k \in 1 .. cur - 1, arc[k].comp,
                      \A m \in k + 1 .. cur : arc[m].comp => arc[m].solid
               PROVE  k \in decoded
    BY Zenon DEF SolidInStep
  <2>1. cur \in 1 .. Len(arc)
    BY <1>3, FileIs DEF IInv
  <2>2. ~mode.opened
    BY <1>3, <2>1 DEF SInv, File
  <2>3. mode.solid
    BY <1>3, <2>1, <2>2 DEF Decodable, IInv, TypeInv, File
  <2>4. k \in Needs(cur)
    BY DEF Needs
  <2>5. QED
    BY <1>3, <2>2, <2>3, <2>4 DEF SInv
<1>4. QED
  BY <1>1, <1>2, <1>3, Invariance, PTL DEF Spec
=============================================================================
