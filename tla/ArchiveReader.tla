---------------------------- MODULE ArchiveReader ----------------------------
(***************************************************************************)
(* Reader and what newArchiveFileFrom puts together for a file (reader.go):*)
(* the source of its data (a packedFileReader for a stored file, a         *)
(* decodeReader for a packed one), limitedReader or limitedReadSeeker, and *)
(* checksumReader; errorFile in place of them.                             *)
(*                                                                         *)
(* A file is what its header says and what its source delivers:            *)
(*   size   UnPackedSize, -1 if it is not known (UnKnownSize)              *)
(*   sum    the data its checksum is of, or NoSum                          *)
(*   comp   it is packed;  solid  it goes on with the window before it     *)
(*   open   "ok", "errs" (h.errs, or encrypted without a password) or      *)
(*          "dict" (the dictionary is too large)                           *)
(*   data   the bytes of the source;  fails  the error behind them         *)
(***************************************************************************)
EXTENDS Integers, Sequences

CONSTANTS
  Modes,       \* the ways an archive is read, records of
               \*   archives: the archives read this way, sequences of files
               \*   solid: they are solid;  skipCheck: opt.skipCheck
               \*   opened: files are opened with File.Open, or read in turn
               \*     with Next
  NoSum,       \* a file without a checksum
  Whences,     \* whence of Seek
  ReadSizes    \* lengths of the slices given to Read

ASSUME ModeAssumption ==
  /\ \A m \in Modes : {m.solid, m.opened, m.skipCheck} \subseteq BOOLEAN
  /\ Whences \subseteq {"start", "current", "end"} /\ ReadSizes \subseteq Nat \ {0}

Sequence(s) == s \in Seq({s[k] : k \in DOMAIN s})
ASSUME FileAssumption ==
  \A m \in Modes : \A a \in m.archives :
    /\ Sequence(a)
    /\ \A i \in 1 .. Len(a) :
         /\ a[i].size \in Int /\ Sequence(a[i].data)
         /\ a[i].sum = NoSum \/ Sequence(a[i].sum)
         /\ {a[i].comp, a[i].solid} \subseteq BOOLEAN

VARIABLES
  mode, arc,   \* how it is read, and the archive
  cur,         \* the current file, 0 before the first
  top,         \* r.f: "packed", "file", "error", or "nil"
  src,         \* bytes taken from the source
  lim,         \* l.offset
  hashed,      \* bytes that were written to cr.hash
  eofErr,      \* cr.eofErr
  chk,         \* there is a checksumReader
  decoded,     \* packed files whose data has gone through the window
  nosum,       \* files whose checksum was removed from the block list
  pos,         \* position callers are at, to compare with
  op, got, ret \* the last call, its bytes and its error

stack == <<src, lim, hashed, eofErr, chk>>
vars == <<mode, arc, cur, top, stack, decoded, nosum, pos, op, got, ret>>

Smaller(a, b) == IF a < b THEN a ELSE b
File == arc[cur]
Nothing == [at |-> 0, data |-> <<>>]
Limited == File.size >= 0
-----------------------------------------------------------------------------
(* The source, from what packedFileReader and decodeReader do: Read gives  *)
(* some bytes or an error; writeToN gives all that are asked for, or the   *)
(* bytes there are and the error behind them.                              *)

Left == Len(File.data) - src
Bytes(k) == SubSeq(File.data, src + 1, src + k)

SourceRead(p) ==
  IF Left > 0 THEN {[n |-> k, err |-> "nil"] : k \in 1 .. Smaller(p, Left)}
  ELSE {[n |-> 0, err |-> File.fails]}

\* writeToN(want); WriteTo for want < 0
SourceWrite(want) ==
  CASE want < 0 -> [n |-> Left, err |-> IF File.fails = "EOF" THEN "nil" ELSE File.fails]
    [] want >= 0 /\ want <= Left -> [n |-> want, err |-> "nil"]
    [] OTHER -> [n |-> Left, err |-> File.fails]
-----------------------------------------------------------------------------
(* limitedReader.                                                          *)

\* seeded bug: the end of the source is the end of the file
LimitedErrorPlain(e) == e

\* the error of Read and ReadByte, for the source's error e
LimitedError(e) == IF e = "EOF" /\ Limited THEN "ErrShortFile" ELSE e

\* seeded bug: the size is no limit
LimitedReadUnlimited(p) ==
  {[n |-> x.n, err |-> LimitedError(x.err)] : x \in SourceRead(p)}

LimitedRead(p) ==
  IF Limited /\ lim >= File.size THEN {[n |-> 0, err |-> "EOF"]}
  ELSE LET q == IF Limited THEN Smaller(p, File.size - lim) ELSE p
       IN {[n |-> x.n, err |-> LimitedError(x.err)] : x \in SourceRead(q)}

LimitedWriteTo ==
  SourceWrite(IF Limited THEN File.size - lim ELSE -1)
-----------------------------------------------------------------------------
(* checksumReader.                                                         *)

\* seeded bug: no bytes, no checksum
EofErrorIfAny(bytes) ==
  IF eofErr # "nil" THEN eofErr
  ELSE IF bytes = <<>> \/ bytes = File.sum THEN "EOF" ELSE "ErrBadFileChecksum"

\* eofError, with the bytes that have been hashed
eofError(bytes) ==
  IF eofErr # "nil" THEN eofErr
  ELSE IF bytes = File.sum THEN "EOF" ELSE "ErrBadFileChecksum"

\* seeded bug: the checksum is removed whatever came of it
VerifiedAnyway(end, c) == chk /\ end /\ eofErr = "nil"

\* eofError has just found that the checksum is right, and removes it
Verified(end, c) == chk /\ end /\ eofErr = "nil" /\ c = "EOF"

HashWith(k) == hashed \o Bytes(k)

(* A call that takes k bytes from the source, where the reader below       *)
(* checksumReader returned e; end says whether e calls for the checksum.   *)
(* WriteTo, unlike Read and ReadByte, has no error for the end of a file   *)
(* whose checksum is right.                                                *)
Finish(o, k, e, end) ==
  LET bytes == HashWith(k)
      c == IF chk /\ end THEN eofError(bytes) ELSE e
  IN /\ got' = [at |-> pos, data |-> Bytes(k)]
     /\ src' = src + k /\ lim' = lim + k /\ pos' = pos + k
     /\ hashed' = IF chk THEN bytes ELSE hashed
     /\ eofErr' = IF chk /\ end THEN c ELSE eofErr
     /\ nosum' = IF Verified(end, c) THEN nosum \cup {cur} ELSE nosum
     /\ op' = o /\ ret' = IF o = "write" /\ chk /\ c = "EOF" THEN "nil" ELSE c
     /\ decoded' = IF File.comp /\ src + k = Len(File.data) THEN decoded \cup {cur}
                   ELSE decoded
     /\ UNCHANGED <<mode, arc, cur, top, chk>>
-----------------------------------------------------------------------------
(* Reader, fileCloser and fileSeekCloser.                                  *)

Usable == ret # "panic"

ReadError ==
  /\ Usable /\ top = "error"
  /\ op' = "read" /\ ret' = "fileError" /\ got' = Nothing
  /\ UNCHANGED <<mode, arc, cur, top, stack, decoded, nosum, pos>>

Read(p) ==
  /\ Usable /\ top = "file"
  /\ \E x \in LimitedRead(p) :
       Finish("read", x.n, x.err, x.err = "EOF")

ReadByte == Read(1)

WriteTo ==
  /\ Usable /\ top = "file"
  /\ LET x == LimitedWriteTo IN
     Finish("write", x.n, x.err, x.err \in {"nil", "EOF"})

(* The next file's readers: newArchiveFileFrom. *)
newArchiveFile(i) ==
  /\ cur' = i
  /\ top' = CASE arc[i].open = "errs" -> "error"
              [] arc[i].open = "dict" -> "nil"
              [] OTHER -> "file"
  /\ ret' = IF arc[i].open = "dict" THEN "ErrDictionaryTooLarge" ELSE "nil"
  /\ src' = 0 /\ lim' = 0 /\ hashed' = <<>> /\ eofErr' = "nil" /\ pos' = 0
  /\ chk' = (arc[i].sum # NoSum /\ ~mode.skipCheck /\ i \notin nosum)
  /\ got' = Nothing

\* seeded bug: the rest of a file is not decoded when the next one is asked for
DrainsNever == FALSE

\* decodeReader.nextFile reads the rest of the file
Drains == mode.solid /\ IF top = "file" THEN File.comp ELSE FALSE

(* Next: nextFile of whatever r.f is, then newArchiveFile. *)
NextFile ==
  /\ ~mode.opened /\ Usable /\ op' = "next"
  /\ \/ /\ top = "nil"
        /\ ret' = "panic" /\ got' = Nothing
        /\ UNCHANGED <<mode, arc, cur, top, stack, decoded, nosum, pos>>
     \/ /\ Drains /\ File.fails # "EOF"
        /\ ret' = File.fails /\ src' = Len(File.data) /\ got' = Nothing
        /\ UNCHANGED <<mode, arc, cur, top, lim, hashed, eofErr, chk, decoded, nosum, pos>>
     \/ /\ top # "nil" /\ (Drains => File.fails = "EOF") /\ cur < Len(arc)
        /\ newArchiveFile(cur + 1)
        /\ decoded' = IF Drains THEN decoded \cup {cur} ELSE decoded
        /\ UNCHANGED <<mode, arc, nosum>>
     \/ /\ top # "nil" /\ (Drains => File.fails = "EOF") /\ cur = Len(arc)
        /\ ret' = "EOF" /\ got' = Nothing
        /\ IF Drains THEN src' = Len(File.data) /\ decoded' = decoded \cup {cur}
                     ELSE UNCHANGED <<src, decoded>>
        /\ UNCHANGED <<mode, arc, cur, top, lim, hashed, eofErr, chk, nosum, pos>>

(* File.Open: any file but a solid one, any number of times. *)
Open(i) ==
  /\ mode.opened /\ Usable /\ ~arc[i].solid /\ op' = "open"
  /\ IF arc[i].open = "dict"
     THEN /\ ret' = "ErrDictionaryTooLarge" /\ got' = Nothing
          /\ UNCHANGED <<cur, top, stack, decoded, pos>>
     ELSE newArchiveFile(i) /\ decoded' = {}
  /\ UNCHANGED <<mode, arc, nosum>>

Seeker == mode.opened /\ top = "file" /\ ~File.comp /\ ~chk /\ Limited

\* what the offset is added to, as limitedReadSeeker has it
SeekBase(whence) ==
  CASE whence = "start" -> 0 [] whence = "current" -> lim [] whence = "end" -> File.size

(* limitedReadSeeker.Seek: the source is moved, l.offset is not. *)
Seek(o, whence) ==
  /\ Usable /\ Seeker
  /\ op' = "seek" /\ got' = Nothing
  /\ LET t == SeekBase(whence) + o IN
     IF t < 0 \/ t > File.size \/ t > Len(File.data)
     THEN ret' = "ErrInvalid" /\ UNCHANGED <<src, pos>>
     ELSE /\ ret' = "nil" /\ src' = t
          /\ pos' = CASE whence = "start" -> o [] whence = "current" -> pos + o
                      [] whence = "end" -> File.size + o
  /\ UNCHANGED <<mode, arc, cur, top, lim, hashed, eofErr, chk, decoded, nosum>>

Init ==
  /\ mode \in Modes /\ arc \in mode.archives /\ cur = 0 /\ top = "packed"
  /\ src = 0 /\ lim = 0 /\ hashed = <<>> /\ eofErr = "nil" /\ chk = FALSE
  /\ decoded = {} /\ nosum = {} /\ pos = 0 /\ op = "next" /\ got = Nothing /\ ret = "nil"

Next ==
  \/ \E p \in ReadSizes : Read(p)
  \/ ReadByte
  \/ WriteTo
  \/ ReadError
  \/ NextFile
  \/ \E i \in 1 .. Len(arc) : Open(i)
  \/ \E o \in -2 .. 3, w \in Whences : Seek(o, w)

Spec == Init /\ [][Next]_vars
-----------------------------------------------------------------------------
(* Bytes reach the caller in the order of the file, from where he is, and  *)
(* never more of them than the header says.                                *)
DeliveredExact ==
  \A k \in 1 .. Len(got.data) :
    /\ got.at + k <= Len(File.data) /\ got.data[k] = File.data[got.at + k]
    /\ Limited => got.at + k <= File.size

(* A file with a checksum ends cleanly (EOF from Read or ReadByte, no      *)
(* error from WriteTo) only if the caller was given exactly the data the   *)
(* checksum is of, in whichever mix of calls; and Read and ReadByte come   *)
(* to no clean end of a file that is shorter than its header says (where   *)
(* there is no Seek, which leaves the limit's position behind).            *)
CleanEndIsVerified ==
  /\ (top = "file" /\ chk /\ eofErr = "EOF") => SubSeq(File.data, 1, pos) = File.sum
  /\ (top = "file" /\ op = "read" /\ ret = "EOF" /\ Limited /\ ~Seeker) => pos = File.size

(* A checksum is dropped from the block list, so that later opens of the   *)
(* file do without it, only when the data has been compared with it.       *)
TrustIsEarned ==
  \A i \in nosum : /\ Len(arc[i].sum) <= Len(arc[i].data)
                    /\ arc[i].sum = SubSeq(arc[i].data, 1, Len(arc[i].sum))

(* A solid file is decoded on top of every packed file since the last one  *)
(* that cleared the window, each decoded to its end, read or not.          *)
SolidInStep ==
  (top = "file" /\ cur > 0) =>
    (File.comp /\ File.solid =>
      \A k \in 1 .. cur - 1 :
        (arc[k].comp /\ \A m \in k + 1 .. cur : arc[m].comp => arc[m].solid) => k \in decoded)
=============================================================================
