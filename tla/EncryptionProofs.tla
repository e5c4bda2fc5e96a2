-------------------------- MODULE EncryptionProofs --------------------------
(***************************************************************************)
(* What is encrypted in an archive: its headers, the keys of its files,    *)
(* and their data.                                                         *)
(*                                                                         *)
(* First the headers (ArchiveHeaders): whatever the cache of keys holds    *)
(* and has lost, a file gets the keys of its own salt and count; and an    *)
(* archive that comes to an end has given all of its files, whatever is    *)
(* cut off or missing at the end of a volume.                              *)
(*                                                                         *)
(* Then the data (CipherBlockReader): what callers of cipherBlockReader    *)
(* get is the plaintext, for every block size, every length of the input   *)
(* and however it arrives, as long as no call fills outbuf while inbuf     *)
(* holds a part of a block: fillOutbuf would decrypt it and leave it in    *)
(* inbuf, to be decrypted again.  Callers that keep to reads shorter than  *)
(* a block, or to reads of a block and more, never do.                     *)
(***************************************************************************)
EXTENDS ArchiveHeaders, CipherBlockReader, DataFacts

IsSeq(s) == \E S : s \in Seq(S)

(* Every entry of the cache is what is calculated from its salt and count. *)
CacheSound(c) ==
  IsSeq(c) /\ \A i \in 1 .. Len(c) : c[i] = KeyOf(pass, c[i].salt, c[i].kdf)

(* The keys and the lock of the file f are those of its header h. *)
KeyRight(f, h) ==
  LET its == KeyOf(pass, h.enc.salt, IF IsV5 THEN h.enc.kdf ELSE 0)
      refuted == IsV5 /\ h.enc.check \notin {None, pass}
  IN h.enc # None /\ h.enc.known /\ pass # None =>
       /\ h.first => f.key = IF refuted THEN None ELSE its
       /\ IsV5 /\ h.enc.mac /\ (h.first \/ h.last) =>
            f.hashKey = IF refuted THEN None ELSE its
       /\ (h.first /\ refuted) => f.locked = "ErrBadPassword"

Here == <<num + 1, pos>>
Ends(us) == IF IsV5 THEN Marked(us) ELSE ~CutInHeader(us)

(* The files so far, in order and none of what is still to come. *)
GotInv ==
  /\ IsSeq(got) /\ KeysRight /\ \A i \in 1 .. Len(got) : got[i].at \in Nat \X Nat
  /\ \A i, j \in 1 .. Len(got) : i < j => Earlier(got[i].at, got[j].at)
  /\ ~Over => \A i \in 1 .. Len(got) : Earlier(got[i].at, Here)

(* A header that is whole and does not end its volume. *)
GoesOnBehind(x) == x.u = "head" => ~x.cut /\ x.type # "end"

(* Nothing of the archive up to here has been passed over but data and     *)
(* what is no file.                                                        *)
AllRead ==
  \A n \in 1 .. num + 1 : \A k \in 1 .. Len(vols[n].units) :
    Earlier(<<n, k>>, Here) /\ IsFile(vols[n].units[k]) =>
      \E i \in 1 .. Len(got) : got[i].at = <<n, k>>
PassedInv ==
  ~Over /\ WellWritten =>
    /\ AllRead
    /\ \A n \in 1 .. num : Ends(vols[n].units)
    /\ pos > 1 => Units[pos - 1].u # "salt" /\ GoesOnBehind(Units[pos - 1])
    /\ rest => pos > 1 /\ Units[pos - 1].u = "head" /\ Units[pos - 1].data
    /\ status = "next" => \E k \in 1 .. pos - 1 :
         Units[k].u = "head" /\ Units[k].type = "arc" /\ Units[k].multi = multi

PlaceInv ==
  /\ vols \in Archives
  /\ num \in Nat /\ num < Len(vols) /\ pos \in Nat
  /\ ~Over => pos \in 1 .. Len(Units) + 1
  /\ status = "open" => pos = 1 /\ ~rest

HeadersInv == PlaceInv /\ CacheSound(keyCache) /\ GotInv /\ PassedInv /\ CleanEndIsWhole
-----------------------------------------------------------------------------
(* The cache.                                                              *)

LEMMA FirstIs ==
  ASSUME NEW S, S # {}, S \subseteq Nat
  PROVE  First(S) \in S
<1>1. \E i \in S : \A j \in S : i <= j
  BY Least
<1>2. QED
  BY <1>1 DEF First

\* one more in front, and the last one dropped if there is no room
LEMMA CacheTakes ==
  ASSUME NEW c, CacheSound(c), NEW salt, NEW kdf,
         NEW d, d = IF Len(c) = CacheSize THEN Front(c) ELSE c
  PROVE  CacheSound(<<KeyOf(pass, salt, kdf)>> \o d)
<1>1. PICK S : c \in Seq(S)
  BY DEF CacheSound, IsSeq
<1>2. PICK q : q = KeyOf(pass, salt, kdf)
  OBVIOUS
<1>3. d \in Seq(S) /\ Len(d) \in Nat /\ Len(d) <= Len(c) /\ \A i \in 1 .. Len(d) : d[i] = c[i]
  <2>1. CacheSize \in Nat \ {0} /\ Len(c) \in Nat
    BY <1>1, HeadersAssumption, LenProperties
  <2>2. CASE Len(c) # CacheSize
    BY <1>1, <2>1, <2>2
  <2>3. CASE Len(c) = CacheSize
    BY <1>1, <2>1, <2>3 DEF Front
  <2>4. QED
    BY <2>2, <2>3
<1>4. <<q>> \in Seq(S \cup {q}) /\ d \in Seq(S \cup {q})
  BY <1>3, SeqMonotonic
<1>5. PICK e : e = <<q>> \o d
  OBVIOUS
<1>6. /\ e \in Seq(S \cup {q}) /\ Len(e) = Len(d) + 1
      /\ \A i \in 1 .. Len(e) : e[i] = IF i = 1 THEN q ELSE d[i - 1]
  BY <1>3, <1>4, <1>5
<1>7. q = KeyOf(pass, q.salt, q.kdf)
  BY <1>2 DEF KeyOf
<1>8. \A i \in 1 .. Len(e) : e[i] = KeyOf(pass, e[i].salt, e[i].kdf)
  <2>1. TAKE i \in 1 .. Len(e)
  <2>2. CASE i = 1
    BY <1>6, <1>7, <2>2
  <2>3. CASE i # 1
    <3>1. i - 1 \in 1 .. Len(d) /\ i - 1 \in 1 .. Len(c)
      BY <1>3, <1>6, <2>3
    <3>2. e[i] = c[i - 1]
      BY <1>3, <1>6, <2>3, <3>1
    <3>3. QED
      BY <3>1, <3>2 DEF CacheSound
  <2>4. QED
    BY <2>2, <2>3
<1>9. QED
  BY <1>2, <1>5, <1>6, <1>8 DEF CacheSound, IsSeq

(* Whatever the cache holds, the key that is looked up is the one that is  *)
(* calculated.                                                             *)
LEMMA LookUpIs ==
  ASSUME NEW c, CacheSound(c), NEW salt, NEW kdf
  PROVE  /\ LookUp(c, salt, kdf).key = KeyOf(pass, salt, kdf)
         /\ CacheSound(LookUp(c, salt, kdf).cache)
<1> DEFINE hits == {i \in 1 .. Len(c) : c[i].salt = salt /\ c[i].kdf = kdf}
           kept == IF Len(c) = CacheSize THEN Front(c) ELSE c
           new == KeyOf(pass, salt, kdf)
<1>1. LookUp(c, salt, kdf) = IF hits # {} THEN [key |-> c[First(hits)], cache |-> c]
                             ELSE [key |-> new, cache |-> <<new>> \o kept]
  BY DEF LookUp
<1>2. CASE hits # {}
  <2>1. PICK i : i = First(hits)
    OBVIOUS
  <2>2. i \in 1 .. Len(c) /\ c[i].salt = salt /\ c[i].kdf = kdf
    BY <1>2, <2>1, FirstIs
  <2>3. c[i] = new
    BY <2>2 DEF CacheSound
  <2>4. QED
    BY <1>1, <1>2, <2>1, <2>3
<1>3. CASE hits = {}
  <2>1. CacheSound(<<new>> \o kept)
    BY CacheTakes
  <2>2. LookUp(c, salt, kdf) = [key |-> new, cache |-> <<new>> \o kept]
    BY <1>1, <1>3
  <2>3. QED
    BY <2>1, <2>2
<1>4. QED
  BY <1>2, <1>3
-----------------------------------------------------------------------------
(* Reading a header.                                                       *)

(* If r says that a header was read from p on, there is one, behind no     *)
(* more than salts; and the end is reported only behind the last unit.     *)
Header(r, p) ==
  /\ r.err = "ok" =>
       /\ r.pos - 1 \in p .. Len(Units) /\ r.pos \in Nat
       /\ r.head = Units[r.pos - 1]
       /\ Units[r.pos - 1].u = "head" /\ ~Units[r.pos - 1].cut
       /\ \A k \in p .. r.pos - 2 : Units[k].u = "salt"
  /\ r.err = "EOF" => p > Len(Units)
  /\ r.err \notin {"open", "next"} /\ r.pos \in Nat /\ CacheSound(r.cache)

LEMMA UnitRead ==
  ASSUME NEW p \in Nat \ {0}, Len(Units) \in Nat, NEW u
  PROVE  /\ ReadUnit(p, u) = "ok" => p \in 1 .. Len(Units) /\ ~Units[p].cut /\ Units[p].u = u
         /\ ReadUnit(p, u) = "EOF" => p > Len(Units)
         /\ ReadUnit(p, u) \in {"ok", "EOF", "ErrUnexpectedEOF", "other"}
BY DEF ReadUnit

LEMMA HeadRead ==
  ASSUME NEW p \in Nat \ {0}, Len(Units) \in Nat, NEW key, NEW c, CacheSound(c),
         NEW r, r = HeadAt(p, key, c)
  PROVE  Header(r, p) /\ (r.err = "ok" => r.pos = p + 1)
<1> DEFINE q == ReadUnit(p, "head")
           h == Units[p]
<1>1. r = IF q \in {"EOF", "ErrUnexpectedEOF"} THEN Fails(q, p, c)
          ELSE IF q = "other" \/ h.key # key \/ ~h.good THEN Fails("ErrBadHeaderCRC", p, c)
          ELSE IF ~h.fits THEN Fails("ErrCorruptBlockHeader", p, c)
          ELSE [err |-> "ok", head |-> h, pos |-> p + 1, cache |-> c]
  BY DEF HeadAt
<1>2. /\ q = "ok" => p \in 1 .. Len(Units) /\ ~h.cut /\ h.u = "head"
      /\ q = "EOF" => p > Len(Units)
      /\ q \in {"ok", "EOF", "ErrUnexpectedEOF", "other"}
  BY UnitRead
<1> HIDE DEF q
<1>3. CASE r = [err |-> "ok", head |-> h, pos |-> p + 1, cache |-> c] /\ q = "ok"
  <2>1. /\ r.err = "ok" /\ r.head = h /\ r.pos = p + 1 /\ r.cache = c
    BY <1>3
  <2>2. r.pos - 1 = p /\ \A k \in p .. r.pos - 2 : FALSE
    BY <2>1
  <2>3. QED
    BY <1>2, <1>3, <2>1, <2>2 DEF Header
<1>4. ASSUME NEW e \in {"EOF", "ErrUnexpectedEOF", "ErrBadHeaderCRC", "ErrCorruptBlockHeader"},
             r = Fails(e, p, c), e = "EOF" => q = "EOF"
      PROVE  Header(r, p) /\ r.err # "ok"
  <2>1. r.err = e /\ r.pos = p /\ r.cache = c
    BY <1>4 DEF Fails
  <2>2. QED
    BY <1>2, <1>4, <2>1 DEF Header
<1>5. CASE q \in {"EOF", "ErrUnexpectedEOF"}
  BY <1>1, <1>4, <1>5
<1>6. CASE q \notin {"EOF", "ErrUnexpectedEOF"} /\ (q = "other" \/ h.key # key \/ ~h.good)
  BY <1>1, <1>4, <1>6
<1>7. CASE q \notin {"EOF", "ErrUnexpectedEOF"} /\ ~(q = "other" \/ h.key # key \/ ~h.good) /\ ~h.fits
  BY <1>1, <1>4, <1>7
<1>8. CASE q \notin {"EOF", "ErrUnexpectedEOF"} /\ ~(q = "other" \/ h.key # key \/ ~h.good) /\ h.fits
  BY <1>1, <1>2, <1>3, <1>8
<1>9. QED
  BY <1>5, <1>6, <1>7, <1>8

\* a salt in front of the header
LEMMA BehindSalt ==
  ASSUME NEW p \in Nat \ {0}, Len(Units) \in Nat, ReadUnit(p, "salt") = "ok",
         NEW r, Header(r, p + 1), r.err # "EOF"
  PROVE  Header(r, p)
<1>1. p \in 1 .. Len(Units) /\ Units[p].u = "salt"
  BY UnitRead
<1>2. ASSUME r.err = "ok" PROVE \A k \in p .. r.pos - 2 : Units[k].u = "salt"
  <2>1. TAKE k \in p .. r.pos - 2
  <2>2. r.pos \in Nat /\ \A i \in p + 1 .. r.pos - 2 : Units[i].u = "salt"
    BY <1>2 DEF Header
  <2>3. CASE k = p
    BY <1>1, <2>3
  <2>4. CASE k # p
    BY <2>2, <2>4
  <2>5. QED
    BY <2>3, <2>4
<1>3. QED
  BY <1>2 DEF Header

LEMMA Read15 ==
  ASSUME NEW b, pos \in Nat \ {0}, Len(Units) \in Nat, CacheSound(keyCache)
  PROVE  Header(readBlockHeader15(b), pos)
<1> DEFINE r == ReadUnit(pos, "salt")
           k == getKeys15(keyCache, Units[pos].salt)
           h == HeadAt(pos + 1, k.key, k.cache)
           all == readBlockHeader15(b)
<1>1. all = IF ~b THEN HeadAt(pos, None, keyCache)
            ELSE IF r \in {"EOF", "ErrUnexpectedEOF"} THEN Fails(r, pos, keyCache)
            ELSE IF r = "other" THEN Fails("ErrBadHeaderCRC", pos, keyCache)
            ELSE IF h.err = "EOF" THEN [h EXCEPT !.err = "ErrUnexpectedEOF"] ELSE h
  BY DEF readBlockHeader15
<1>2. CacheSound(k.cache)
  BY LookUpIs DEF getKeys15
<1>3. Header(h, pos + 1)
  BY <1>2, HeadRead
<1>4. /\ r = "EOF" => pos > Len(Units)
      /\ r \in {"ok", "EOF", "ErrUnexpectedEOF", "other"}
  BY UnitRead
<1>5. CASE ~b
  BY <1>1, <1>5, HeadRead
<1>6. ASSUME NEW e, e \in {"ErrUnexpectedEOF", "ErrBadHeaderCRC"} \/ (e = "EOF" /\ r = "EOF"),
             all = Fails(e, pos, keyCache)
      PROVE  Header(all, pos)
  <2>1. all.err = e /\ all.pos = pos /\ all.cache = keyCache
    BY <1>6 DEF Fails
  <2>2. QED
    BY <1>4, <1>6, <2>1 DEF Header
<1>7. CASE b /\ r # "ok"
  BY <1>1, <1>4, <1>6, <1>7
<1> HIDE DEF k, h
<1>8. CASE b /\ r = "ok" /\ h.err # "EOF"
  <2>1. all = h
    BY <1>1, <1>8
  <2>2. QED
    BY <1>3, <1>8, <2>1, BehindSalt
<1>9. CASE b /\ r = "ok" /\ h.err = "EOF"
  <2>1. all = [h EXCEPT !.err = "ErrUnexpectedEOF"]
    BY <1>1, <1>9
  <2>2. all.pos = h.pos /\ all.cache = h.cache
    BY <2>1
  <2>3. all.err = "ErrUnexpectedEOF"
    <3>1. "err" \in DOMAIN h
      BY DEF h, HeadAt, Fails
    <3>2. QED
      BY <2>1, <3>1
  <2>4. QED
    BY <1>3, <2>2, <2>3 DEF Header
<1>10. QED
  BY <1>4, <1>5, <1>7, <1>8, <1>9

LEMMA MustRead ==
  ASSUME NEW p \in Nat \ {0}, NEW key, Len(Units) \in Nat, CacheSound(keyCache)
  PROVE  /\ Header(mustReadBlockHeader(p, key), p)
         /\ mustReadBlockHeader(p, key).err # "EOF"
<1> DEFINE r == ReadUnit(p, "salt")
           h == IF key = None THEN HeadAt(p, None, keyCache)
                ELSE IF r # "ok"
                THEN Fails(IF r = "other" THEN "ErrBadHeaderCRC" ELSE r, p, keyCache)
                ELSE HeadAt(p + 1, key, keyCache)
           all == mustReadBlockHeader(p, key)
<1>1. all = IF h.err = "EOF" THEN [h EXCEPT !.err = "ErrUnexpectedEOF"] ELSE h
  BY DEF mustReadBlockHeader
<1>2. /\ r = "EOF" => p > Len(Units)
      /\ r \in {"ok", "EOF", "ErrUnexpectedEOF", "other"}
  BY UnitRead
<1>3. "err" \in DOMAIN h
  BY DEF HeadAt, Fails
<1>4. h.err # "EOF" => Header(h, p)
  <2>1. CASE key = None
    BY <2>1, HeadRead
  <2>2. CASE key # None /\ r # "ok"
    <3>1. PICK e : e = IF r = "other" THEN "ErrBadHeaderCRC" ELSE r
      OBVIOUS
    <3>2. h = Fails(e, p, keyCache) /\ e \notin {"ok", "open", "next"}
      BY <1>2, <2>2, <3>1
    <3>3. h.err = e /\ h.pos = p /\ h.cache = keyCache
      BY <3>2 DEF Fails
    <3>4. QED
      BY <3>2, <3>3 DEF Header
  <2>3. CASE key # None /\ r = "ok"
    <3>1. h = HeadAt(p + 1, key, keyCache)
      BY <2>3
    <3>2. Header(h, p + 1)
      BY <3>1, HeadRead
    <3> HIDE DEF h
    <3>3. QED
      BY <2>3, <3>2, BehindSalt
  <2>4. QED
    BY <2>1, <2>2, <2>3
<1>5. h.pos \in Nat /\ CacheSound(h.cache)
  <2>1. CASE key = None
    BY <2>1, HeadRead DEF Header
  <2>2. CASE key # None /\ r # "ok"
    BY <2>2 DEF Fails
  <2>3. CASE key # None /\ r = "ok"
    BY <2>3, HeadRead DEF Header
  <2>4. QED
    BY <2>1, <2>2, <2>3
<1> HIDE DEF h
<1>6. CASE h.err # "EOF"
  BY <1>1, <1>4, <1>6
<1>7. CASE h.err = "EOF"
  <2>1. all = [h EXCEPT !.err = "ErrUnexpectedEOF"]
    BY <1>1, <1>7
  <2>2. all.pos = h.pos /\ all.cache = h.cache /\ all.err = "ErrUnexpectedEOF"
    BY <1>3, <2>1
  <2>3. QED
    BY <1>5, <2>2 DEF Header
<1>8. QED
  BY <1>6, <1>7
-----------------------------------------------------------------------------
(* The file headers.                                                       *)

(* What is made of the file header that r has read.                        *)
FileRight(f, r) ==
  /\ f.file.at = <<num + 1, r.pos - 1>> /\ KeyRight(f.file, r.head)
  /\ CacheSound(f.cache)
  /\ f.err \in {"ok", "ErrUnsupportedDecoder", "ErrUnknownDecoder"}

LEMMA DecoderErrorIs ==
  ASSUME NEW h
  PROVE  DecoderError(h) \in {"ok", "ErrUnsupportedDecoder", "ErrUnknownDecoder"}
BY DEF DecoderError

LEMMA File15 ==
  ASSUME NEW r, CacheSound(r.cache), ~IsV5
  PROVE  FileRight(parseFileHeader15(r), r)
<1> DEFINE h == r.head
           wanted == h.first /\ h.enc # None /\ pass # None
           k == getKeys15(r.cache, h.enc.salt)
           f == parseFileHeader15(r)
           key == IF wanted THEN k.key ELSE None
<1>1. f = [err |-> DecoderError(h), file |-> FileOf(r, key, None, "no"),
           cache |-> IF wanted THEN k.cache ELSE r.cache]
  BY DEF parseFileHeader15
<1>2. k.key = KeyOf(pass, h.enc.salt, 0) /\ CacheSound(k.cache)
  BY LookUpIs DEF getKeys15
<1> HIDE DEF k
<1>3. CacheSound(f.cache)
  BY <1>1, <1>2
<1>4. f.file = FileOf(r, key, None, "no") /\ f.err = DecoderError(h)
  BY <1>1
<1>5. f.file.at = <<num + 1, r.pos - 1>> /\ f.file.key = key
  BY <1>4 DEF FileOf
<1>6. KeyRight(f.file, h)
  BY <1>2, <1>5 DEF KeyRight
<1>7. QED
  BY <1>3, <1>4, <1>5, <1>6, DecoderErrorIs DEF FileRight

LEMMA File50 ==
  ASSUME NEW r, CacheSound(r.cache), IsV5
  PROVE  FileRight(parseFileHeader50(r), r)
<1> DEFINE h == r.head
           k == LookUp(r.cache, h.enc.salt, h.enc.kdf)
           unknown == h.enc # None /\ ~h.enc.known
           refused == Wanted(h) /\ Refuses(h.enc.check, k.key)
           has == Wanted(h) /\ ~refused
           f == parseFileHeader50(r)
           key == IF has THEN k.key ELSE None
           hashKey == IF has /\ h.enc.mac THEN k.key ELSE None
           locked == IF unknown THEN "ErrUnknownEncryptMethod"
                     ELSE IF refused THEN "ErrBadPassword" ELSE "no"
<1>1. f = [err |-> DecoderError(h), file |-> FileOf(r, key, hashKey, locked),
           cache |-> IF Wanted(h) /\ DecoderError(h) = "ok" THEN k.cache ELSE r.cache]
  BY DEF parseFileHeader50
<1>2. k.key = KeyOf(pass, h.enc.salt, h.enc.kdf) /\ CacheSound(k.cache)
  BY LookUpIs
<1> HIDE DEF k
<1>3. CacheSound(f.cache)
  BY <1>1, <1>2
<1>4. f.file = FileOf(r, key, hashKey, locked) /\ f.err = DecoderError(h)
  BY <1>1
<1>5. /\ f.file.at = <<num + 1, r.pos - 1>> /\ f.file.key = key
      /\ f.file.hashKey = hashKey /\ f.file.locked = locked
  BY <1>4 DEF FileOf
<1>6. KeyRight(f.file, h)
  <2>1. SUFFICES ASSUME h.enc # None, h.enc.known, pass # None
                 PROVE  LET its == KeyOf(pass, h.enc.salt, h.enc.kdf)
                            refuted == h.enc.check \notin {None, pass}
                        IN /\ h.first => f.file.key = IF refuted THEN None ELSE its
                           /\ h.enc.mac /\ (h.first \/ h.last) =>
                                f.file.hashKey = IF refuted THEN None ELSE its
                           /\ (h.first /\ refuted) => f.file.locked = "ErrBadPassword"
    BY DEF KeyRight
  <2>2. k.key.p = pass
    BY <1>2 DEF KeyOf
  <2>3. Refuses(h.enc.check, k.key) <=> h.enc.check \notin {None, pass}
    BY <2>2 DEF Refuses
  <2>4. Wanted(h) <=> h.first \/ (h.last /\ h.enc.mac)
    BY <2>1 DEF Wanted
  <2>5. ~unknown
    BY <2>1
  <2>6. QED
    BY <1>2, <1>5, <2>3, <2>4, <2>5
<1>7. QED
  BY <1>3, <1>4, <1>5, <1>6, DecoderErrorIs DEF FileRight
-----------------------------------------------------------------------------
(* The first headers of a volume.                                          *)

LEMMA PlaceIs ==
  ASSUME PlaceInv
  PROVE  num + 1 \in 1 .. Len(vols) /\ Len(Units) \in Nat /\ Len(vols) \in Nat
BY HeadersAssumption DEF PlaceInv, Units

LEMMA OpenedIs ==
  ASSUME NEW err, NEW h, NEW key, NEW c, Opened(err, h, key, c), CacheSound(c), h.pos \in Nat,
         err \notin {"EOF", "open", "next"}, err = "ok" => h.err = "ok" /\ h.head.type = "arc"
  PROVE  /\ keyCache' = c /\ pos' = h.pos /\ status' \notin {"EOF", "open"}
         /\ status' = "next" => h.err = "ok" /\ h.head.type = "arc" /\ multi' = h.head.multi
BY DEF Opened

(* What an opened volume has read: its archive block, and no file.         *)
Opens ==
  /\ status' \notin {"EOF", "open"} /\ pos' \in Nat /\ CacheSound(keyCache')
  /\ status' = "next" =>
       /\ pos' - 1 \in pos .. Len(Units)
       /\ Units[pos' - 1].u = "head" /\ ~Units[pos' - 1].cut
       /\ Units[pos' - 1].type = "arc" /\ Units[pos' - 1].multi = multi'
       /\ \A k \in pos .. pos' - 1 : ~IsFile(Units[k])

LEMMA Open15 ==
  ASSUME PlaceInv, CacheSound(keyCache), pos = 1, init15
  PROVE  Opens
<1> DEFINE h == readBlockHeader15(FALSE)
           isArc == h.err = "ok" /\ h.head.type = "arc"
           locked == isArc /\ h.head.encrypted /\ pass = None
           err == IF h.err = "EOF" THEN "ErrUnexpectedEOF"
                  ELSE IF h.err # "ok" THEN h.err
                  ELSE IF ~isArc THEN "ErrNoArchiveBlock"
                  ELSE IF locked THEN "ErrArchiveEncrypted" ELSE "ok"
<1>1. Opened(err, h, None, h.cache)
  BY DEF init15
<1>2. Header(h, pos)
  <2>1. pos \in Nat \ {0} /\ Len(Units) \in Nat
    BY PlaceIs
  <2>2. QED
    BY ONLY <2>1, CacheSound(keyCache), Read15
<1> HIDE DEF h
<1>3. err \notin {"EOF", "open", "next"} /\ (err = "ok" => isArc)
  BY <1>2 DEF Header
<1>4. /\ keyCache' = h.cache /\ pos' = h.pos /\ status' \notin {"EOF", "open"}
      /\ status' = "next" => isArc /\ multi' = h.head.multi
  BY <1>1, <1>2, <1>3, OpenedIs DEF Header
<1>5. ASSUME status' = "next" PROVE \A k \in pos .. pos' - 1 : ~IsFile(Units[k])
  <2>1. TAKE k \in pos .. pos' - 1
  <2>2. CASE k = pos' - 1
    BY <1>2, <1>4, <1>5, <2>2 DEF Header, IsFile
  <2>3. CASE k # pos' - 1
    <3>1. k \in pos .. h.pos - 2
      BY <1>2, <1>4, <2>3 DEF Header
    <3>2. QED
      BY <1>2, <1>4, <1>5, <3>1 DEF Header, IsFile
  <2>4. QED
    BY <2>2, <2>3
<1>6. QED
  BY <1>2, <1>4, <1>5 DEF Header, Opens

LEMMA OpenArc ==
  ASSUME PlaceInv, CacheSound(keyCache), NEW p \in Nat \ {0}, NEW key, NEW c, CacheSound(c),
         ArcBlock(p, key, c)
  PROVE  /\ status' \notin {"EOF", "open"} /\ pos' \in Nat /\ keyCache' = c
         /\ status' = "next" =>
              /\ pos' - 1 \in p .. Len(Units)
              /\ Units[pos' - 1].u = "head" /\ ~Units[pos' - 1].cut
              /\ Units[pos' - 1].type = "arc" /\ Units[pos' - 1].multi = multi'
              /\ \A k \in p .. pos' - 1 : ~IsFile(Units[k])
<1> DEFINE h == mustReadBlockHeader(p, key)
           err == IF h.err # "ok" THEN h.err
                  ELSE IF h.head.type # "arc" THEN "ErrNoArchiveBlock" ELSE "ok"
<1>1. Opened(err, h, key, c)
  BY DEF ArcBlock
<1>2. Header(h, p) /\ h.err # "EOF"
  BY PlaceIs, MustRead
<1> HIDE DEF h
<1>3. err \notin {"EOF", "open", "next"} /\ (err = "ok" => h.err = "ok" /\ h.head.type = "arc")
  BY <1>2 DEF Header
<1>4. /\ keyCache' = c /\ pos' = h.pos /\ status' \notin {"EOF", "open"}
      /\ status' = "next" => h.err = "ok" /\ h.head.type = "arc" /\ multi' = h.head.multi
  BY <1>1, <1>2, <1>3, OpenedIs DEF Header
<1>5. ASSUME status' = "next" PROVE \A k \in p .. pos' - 1 : ~IsFile(Units[k])
  <2>1. TAKE k \in p .. pos' - 1
  <2>2. CASE k = pos' - 1
    BY <1>2, <1>4, <1>5, <2>2 DEF Header, IsFile
  <2>3. CASE k # pos' - 1
    <3>1. k \in p .. h.pos - 2
      BY <1>2, <1>4, <2>3 DEF Header
    <3>2. QED
      BY <1>2, <1>4, <1>5, <3>1 DEF Header, IsFile
  <2>4. QED
    BY <2>2, <2>3
<1>6. QED
  BY <1>2, <1>4, <1>5 DEF Header

LEMMA Open50 ==
  ASSUME PlaceInv, CacheSound(keyCache), pos = 1, init50
  PROVE  Opens
<1> DEFINE h == mustReadBlockHeader(pos, None)
           k == LookUp(keyCache, h.head.salt, h.head.kdf)
           err == EncryptionError(h.head, k.key)
           tried == pass # None /\ h.head.known
<1>1. IF h.err # "ok" \/ h.head.type # "encrypt" THEN ArcBlock(pos, None, keyCache)
      ELSE IF err # "ok" THEN Opened(err, h, None, IF tried THEN k.cache ELSE keyCache)
      ELSE ArcBlock(h.pos, k.key, k.cache)
  BY DEF init50
<1>2. Header(h, pos) /\ CacheSound(k.cache)
  BY PlaceIs, MustRead, LookUpIs
<1> HIDE DEF h, k
<1>3. err \in {"ok", "ErrArchiveEncrypted", "ErrUnknownEncryptMethod", "ErrBadPassword"}
  BY DEF EncryptionError
<1> HIDE DEF err, tried
<1>4. CASE h.err # "ok" \/ h.head.type # "encrypt"
  <2>1. ArcBlock(pos, None, keyCache)
    BY <1>1, <1>4
  <2>2. QED
    BY <2>1, OpenArc DEF Opens
<1>5. CASE ~(h.err # "ok" \/ h.head.type # "encrypt") /\ err # "ok"
  <2>1. PICK c : c = IF tried THEN k.cache ELSE keyCache
    OBVIOUS
  <2>2. Opened(err, h, None, c) /\ CacheSound(c)
    BY <1>1, <1>2, <1>5, <2>1
  <2>3. /\ keyCache' = c /\ pos' = h.pos /\ status' \notin {"EOF", "open"}
        /\ status' = "next" => h.err = "ok" /\ h.head.type = "arc" /\ multi' = h.head.multi
    BY <1>2, <1>3, <1>5, <2>2, OpenedIs DEF Header
  <2>4. QED
    BY <1>2, <1>5, <2>2, <2>3 DEF Header, Opens
<1>6. CASE ~(h.err # "ok" \/ h.head.type # "encrypt") /\ err = "ok"
  <2>1. ArcBlock(h.pos, k.key, k.cache) /\ h.pos \in Nat \ {0} /\ h.pos > pos
    BY <1>1, <1>2, <1>6 DEF Header
  <2>2. /\ status' \notin {"EOF", "open"} /\ pos' \in Nat /\ keyCache' = k.cache
        /\ status' = "next" =>
             /\ pos' - 1 \in h.pos .. Len(Units)
             /\ Units[pos' - 1].u = "head" /\ ~Units[pos' - 1].cut
             /\ Units[pos' - 1].type = "arc" /\ Units[pos' - 1].multi = multi'
             /\ \A i \in h.pos .. pos' - 1 : ~IsFile(Units[i])
    BY <1>2, <2>1, OpenArc
  <2>3. ASSUME status' = "next" PROVE \A i \in pos .. pos' - 1 : ~IsFile(Units[i])
    <3>1. TAKE i \in pos .. pos' - 1
    <3>2. h.head = Units[h.pos - 1] /\ \A j \in pos .. h.pos - 2 : Units[j].u = "salt"
      BY <1>2, <1>6 DEF Header
    <3>3. i \in pos .. h.pos - 2 \/ i = h.pos - 1 \/ i \in h.pos .. pos' - 1
      BY <2>1, <2>2
    <3>4. QED
      BY <1>6, <2>2, <2>3, <3>2, <3>3 DEF IsFile
  <2>4. QED
    BY <1>2, <2>1, <2>2, <2>3 DEF Opens
<1>7. QED
  BY <1>4, <1>5, <1>6
-----------------------------------------------------------------------------
(* Steps.                                                                  *)

LEMMA EarlierThan ==
  ASSUME NEW a \in Nat \X Nat, NEW n \in Nat, NEW p \in Nat, NEW n2 \in Nat, NEW p2 \in Nat,
         Earlier(a, <<n, p>>), n < n2 \/ (n = n2 /\ p <= p2)
  PROVE  Earlier(a, <<n2, p2>>)
BY DEF Earlier

Same == vols' = vols /\ pass' = pass /\ seekable' = seekable

LEMMA Constants ==
  ASSUME Same
  PROVE  /\ IsV5' <=> IsV5
         /\ WellWritten' <=> WellWritten
         /\ \A c : CacheSound(c)' <=> CacheSound(c)
         /\ \A us : Ends(us)' <=> Ends(us)
         /\ \A f, h : KeyRight(f, h)' <=> KeyRight(f, h)
<1>1. vols' = vols /\ pass' = pass
  BY DEF Same
<1>2. IsV5' <=> IsV5
  BY <1>1 DEF IsV5
<1>3. WellWritten' <=> WellWritten
  BY <1>1 DEF WellWritten
<1>4. \A c : CacheSound(c)' <=> CacheSound(c)
  BY <1>1 DEF CacheSound
<1>5. \A us : Ends(us)' <=> Ends(us)
  BY <1>2 DEF Ends
<1>6. \A f, h : KeyRight(f, h)' <=> KeyRight(f, h)
  BY <1>1, <1>2 DEF KeyRight
<1>7. QED
  BY <1>2, <1>3, <1>4, <1>5, <1>6

(* KeysRight, by its members. *)
LEMMA KeysAre ==
  KeysRight <=> \A i \in 1 .. Len(got) :
                  KeyRight(got[i], vols[got[i].at[1]].units[got[i].at[2]])
BY DEF KeysRight, KeyRight

LEMMA CacheKept ==
  ASSUME Same, NEW c, CacheSound(c), keyCache' = c
  PROVE  CacheSound(keyCache)'
BY DEF Same, CacheSound

(* No file is added, and the place does not move back. *)
LEMMA GotStays ==
  ASSUME PlaceInv, GotInv, Same, got' = got, num' \in Nat, pos' \in Nat,
         Over \/ num < num' \/ (num = num' /\ pos <= pos'), Over => Over'
  PROVE  GotInv'
<1>1. IsSeq(got)' /\ (\A i \in 1 .. Len(got) : got[i].at \in Nat \X Nat)'
  BY DEF GotInv, IsSeq
<1>2. KeysRight'
  <2>1. \A i \in 1 .. Len(got) : KeyRight(got[i], vols[got[i].at[1]].units[got[i].at[2]])
    BY KeysAre DEF GotInv
  <2>2. vols' = vols
    BY DEF Same
  <2>3. (\A i \in 1 .. Len(got) : KeyRight(got[i], vols[got[i].at[1]].units[got[i].at[2]]))'
    <3>1. (IsV5' <=> IsV5) /\ pass' = pass /\ got' = got
      BY Constants DEF Same
    <3>2. QED
      BY ONLY <2>1, <2>2, <3>1 DEF KeyRight
  <2>4. QED
    BY <2>3, KeysAre, PTL
<1>3. (\A i, j \in 1 .. Len(got) : i < j => Earlier(got[i].at, got[j].at))'
  BY DEF GotInv, Earlier
<1>4. (~Over => \A i \in 1 .. Len(got) : Earlier(got[i].at, Here))'
  <2>1. SUFFICES ASSUME ~Over', NEW i \in 1 .. Len(got)'
                 PROVE  Earlier(got[i].at, Here)'
    OBVIOUS
  <2>2. i \in 1 .. Len(got) /\ ~Over
    BY <2>1
  <2>3. got[i].at \in Nat \X Nat /\ Earlier(got[i].at, <<num + 1, pos>>)
    BY <2>2 DEF GotInv, Here
  <2>4. num \in Nat /\ pos \in Nat
    BY DEF PlaceInv
  <2>5. num < num' \/ (num = num' /\ pos <= pos')
    BY <2>2
  <2>6. /\ num + 1 \in Nat /\ num' + 1 \in Nat
        /\ num + 1 < num' + 1 \/ (num + 1 = num' + 1 /\ pos <= pos')
    <3>1. PICK m : m = num'
      OBVIOUS
    <3>2. PICK p : p = pos'
      OBVIOUS
    <3>3. m \in Nat /\ p \in Nat /\ (num < m \/ (num = m /\ pos <= p))
      BY ONLY <2>5, <3>1, <3>2, num' \in Nat, pos' \in Nat
    <3>4. /\ num + 1 \in Nat /\ m + 1 \in Nat
          /\ num + 1 < m + 1 \/ (num + 1 = m + 1 /\ pos <= p)
      BY ONLY <2>4, <3>3
    <3>5. QED
      BY ONLY <3>1, <3>2, <3>4
  <2>7. Earlier(got[i].at, <<num' + 1, pos'>>)
    BY ONLY <2>3, <2>4, <2>6, pos' \in Nat, EarlierThan
  <2>8. QED
    BY <2>7 DEF Here, Earlier
<1>5. QED
  BY <1>1, <1>2, <1>3, <1>4 DEF GotInv

Returned(n, k) == \E i \in 1 .. Len(got) : got[i].at = <<n, k>>

(* Further in the same volume: what is passed and is a file is returned.   *)
LEMMA ReadOn ==
  ASSUME PlaceInv, AllRead, vols' = vols, num' = num, NEW p \in Nat, p = pos', pos <= p,
         \A n, k : Returned(n, k) => Returned(n, k)',
         \A k \in pos .. p - 1 : IsFile(Units[k]) =>
           \E i \in 1 .. Len(got') : got'[i].at = <<num + 1, k>>
  PROVE  AllRead'
<1>1. SUFFICES ASSUME NEW n \in 1 .. num' + 1, NEW k \in 1 .. Len(vols'[n].units),
                      Earlier(<<n, k>>, Here'), IsFile(vols'[n].units[k])
               PROVE  Returned(n, k)'
  BY DEF AllRead, Returned
<1>2. num \in Nat /\ pos \in Nat
  BY DEF PlaceInv
<1>3. n \in 1 .. num + 1 /\ k \in 1 .. Len(vols[n].units) /\ IsFile(vols[n].units[k])
      /\ Here' = <<num + 1, p>>
  BY <1>1 DEF Here
<1>4. /\ n \in Nat /\ k \in Int /\ n <= num + 1
      /\ n < num + 1 \/ (n = num + 1 /\ k < p)
  BY <1>1, <1>2, <1>3 DEF Earlier
<1>5. CASE n < num + 1 \/ (n = num + 1 /\ k < pos)
  <2>1. Earlier(<<n, k>>, Here)
    BY <1>5 DEF Earlier, Here
  <2>2. Returned(n, k)
    BY <1>3, <2>1 DEF AllRead, Returned
  <2>3. QED
    BY <2>2
<1>6. CASE n = num + 1 /\ k \in pos .. p - 1
  <2>1. \E i \in 1 .. Len(got') : got'[i].at = <<num + 1, k>>
    BY <1>3, <1>6 DEF Units
  <2>2. QED
    BY ONLY <1>6, <2>1 DEF Returned
<1>7. \/ n < num + 1 \/ (n = num + 1 /\ k < pos)
      \/ n = num + 1 /\ k \in pos .. p - 1
  BY ONLY <1>2, <1>4, p \in Nat
<1>8. QED
  BY ONLY Zenon, <1>5, <1>6, <1>7

(* The first m volumes have been read. *)
Finished(m) ==
  \A n \in 1 .. m : /\ Ends(vols[n].units)
                    /\ \A k \in 1 .. Len(vols[n].units) :
                         IsFile(vols[n].units[k]) => Returned(n, k)

LEMMA VolumeRead ==
  ASSUME PlaceInv, AllRead, \A n \in 1 .. num : Ends(vols[n].units), Ends(Units),
         \A k \in pos .. Len(Units) : ~IsFile(Units[k])
  PROVE  Finished(num + 1)
<1>1. num \in Nat /\ pos \in Nat /\ Len(Units) \in Nat
  BY PlaceIs DEF PlaceInv
<1>2. SUFFICES ASSUME NEW n \in 1 .. num + 1
               PROVE  /\ Ends(vols[n].units)
                      /\ \A k \in 1 .. Len(vols[n].units) :
                           IsFile(vols[n].units[k]) => Returned(n, k)
  BY ONLY <1>2 DEF Finished
<1>3. Ends(vols[n].units)
  <2>1. n \in 1 .. num \/ n = num + 1
    BY <1>1
  <2>2. QED
    BY <2>1 DEF Units
<1>4. ASSUME NEW k \in 1 .. Len(vols[n].units), IsFile(vols[n].units[k])
      PROVE  Returned(n, k)
  <2>1. n \in Nat /\ k \in Int /\ (n < num + 1 \/ n = num + 1)
    BY <1>1
  <2>2. n = num + 1 => ~(k \in pos .. Len(Units))
    BY <1>4 DEF Units
  <2>3. n = num + 1 => k < pos
    BY <1>1, <2>1, <2>2 DEF Units
  <2>4. Earlier(<<n, k>>, Here)
    BY <2>1, <2>3 DEF Earlier, Here
  <2>5. QED
    BY <1>4, <2>4 DEF AllRead, Returned
<1>5. QED
  BY <1>3, <1>4

(* After the last volume the archive is whole. *)
LEMMA AllVolumesRead ==
  ASSUME PlaceInv, GotInv, Same, got' = got,
         WellWritten => Finished(Len(vols)) /\ ~SaysMore(vols[Len(vols)].units)
  PROVE  CleanEndIsWhole'
<1>1. vols' = vols /\ got' = got
  BY DEF Same
<1>2. ASSUME WellWritten
      PROVE  /\ \A n \in 1 .. Len(vols) : \A k \in 1 .. Len(vols[n].units) :
                  IsFile(vols[n].units[k]) => \E i \in 1 .. Len(got) : got[i].at = <<n, k>>
             /\ \A i, j \in 1 .. Len(got) : i < j => Earlier(got[i].at, got[j].at)
             /\ \A n \in 1 .. Len(vols) :
                  IF IsV5 THEN Marked(vols[n].units) ELSE ~CutInHeader(vols[n].units)
             /\ ~SaysMore(vols[Len(vols)].units)
  BY <1>2 DEF Finished, Returned, Ends, GotInv
<1>3. (WellWritten' <=> WellWritten) /\ (IsV5' <=> IsV5)
  BY Constants
<1>4. QED
  BY ONLY <1>1, <1>2, <1>3 DEF CleanEndIsWhole

(* On to the next volume. *)
LEMMA VolumeNext ==
  ASSUME PlaceInv, Same, got' = got, num' = num + 1, pos' = 1, ~rest', status' = "open",
         WellWritten => Finished(num + 1)
  PROVE  PassedInv'
<1>1. SUFFICES ASSUME WellWritten
               PROVE  /\ AllRead'
                      /\ (\A n \in 1 .. num : Ends(vols[n].units))'
  BY Constants DEF PassedInv, Same
<1>2. vols' = vols /\ num \in Nat /\ Finished(num + 1) /\ Here' = <<num + 1 + 1, 1>>
  BY <1>1 DEF PlaceInv, Same, Here
<1>3. (\A n \in 1 .. num : Ends(vols[n].units))'
  <2>1. \A n \in 1 .. num + 1 : Ends(vols[n].units)
    BY <1>2 DEF Finished
  <2>2. IsV5' <=> IsV5
    BY Constants
  <2>3. QED
    BY <1>2, <2>1, <2>2 DEF Ends
<1>4. AllRead'
  <2>1. SUFFICES ASSUME NEW n \in 1 .. num' + 1, NEW k \in 1 .. Len(vols[n].units),
                        Earlier(<<n, k>>, <<num + 1 + 1, 1>>), IsFile(vols[n].units[k])
                 PROVE  Returned(n, k)
    BY <1>2 DEF AllRead, Returned
  <2>2. n \in 1 .. num + 1 + 1 /\ k \in Int /\ k >= 1
    OBVIOUS
  <2>3. n < num + 1 + 1
    BY <2>1, <2>2 DEF Earlier
  <2>4. n \in 1 .. num + 1
    BY <1>2, <2>2, <2>3
  <2>5. QED
    BY <1>2, <2>1, <2>4 DEF Finished
<1>5. QED
  BY <1>3, <1>4

(* A step that ends in an error. *)
LEMMA StepFails ==
  ASSUME PlaceInv, GotInv, Same, num' = num, got' = got, pos' \in Nat,
         Over', ~Over, status' \notin {"EOF", "open"}, NEW c, CacheSound(c), keyCache' = c
  PROVE  HeadersInv'
<1>1. PlaceInv'
  BY DEF PlaceInv, Same
<1>2. CacheSound(keyCache)'
  BY CacheKept
<1>3. GotInv'
  <2>1. IsSeq(got)' /\ (\A i \in 1 .. Len(got) : got[i].at \in Nat \X Nat)'
    BY DEF GotInv, IsSeq
  <2>2. KeysRight'
    <3>1. vols' = vols /\ pass' = pass
      BY DEF Same
    <3>2. IsV5' <=> IsV5
      BY Constants
    <3>3. KeysRight
      BY DEF GotInv
    <3>4. QED
      BY ONLY got' = got, <3>1, <3>2, <3>3 DEF KeysRight
  <2>3. (\A i, j \in 1 .. Len(got) : i < j => Earlier(got[i].at, got[j].at))'
    BY DEF GotInv, Earlier
  <2>4. QED
    BY <2>1, <2>2, <2>3 DEF GotInv
<1>4. PassedInv' /\ CleanEndIsWhole'
  BY DEF PassedInv, CleanEndIsWhole
<1>5. QED
  BY <1>1, <1>2, <1>3, <1>4 DEF HeadersInv

LEMMA OpenStep ==
  ASSUME HeadersInv, OpenVolume
  PROVE  HeadersInv'
<1>1. /\ status = "open" /\ Same /\ num' = num /\ rest' = rest /\ got' = got
      /\ PlaceInv /\ CacheSound(keyCache) /\ GotInv /\ PassedInv
  BY DEF OpenVolume, Same, HeadersInv
<1>2. ~Over /\ pos = 1 /\ ~rest
      /\ (WellWritten => AllRead /\ \A n \in 1 .. num : Ends(vols[n].units))
  BY <1>1 DEF Over, PassedInv, PlaceInv
<1>3. CASE vols[num + 1].ver # vols[1].ver
  <2>1. status' = "ErrVerMismatch" /\ pos' = pos /\ keyCache' = keyCache
    BY <1>3 DEF OpenVolume, arc
  <2>2. Over'
    BY <2>1 DEF Over
  <2>3. QED
    BY <1>1, <1>2, <2>1, <2>2, StepFails
<1>4. CASE vols[num + 1].ver = vols[1].ver
  <2>1. Opens
    <3>1. CASE IsV5
      BY <1>1, <1>2, <1>4, <3>1, Open50 DEF OpenVolume
    <3>2. CASE ~IsV5
      BY <1>1, <1>2, <1>4, <3>2, Open15 DEF OpenVolume
    <3>3. QED
      BY <3>1, <3>2
  <2>2. CASE status' # "next"
    <3>1. Over' /\ pos' \in Nat /\ CacheSound(keyCache')
      BY <2>1, <2>2 DEF Opens, Over
    <3>2. QED
      BY <1>1, <1>2, <2>1, <2>2, <3>1, StepFails DEF Opens
  <2>3. CASE status' = "next"
    <3>1. PICK p : p = pos'
      OBVIOUS
    <3>2. /\ p - 1 \in pos .. Len(Units) /\ p \in Nat /\ CacheSound(keyCache')
          /\ Units[p - 1].u = "head" /\ ~Units[p - 1].cut
          /\ Units[p - 1].type = "arc" /\ Units[p - 1].multi = multi'
          /\ \A k \in pos .. p - 1 : ~IsFile(Units[k])
      BY <2>1, <2>3, <3>1 DEF Opens
    <3>3. Len(Units) \in Nat /\ num \in Nat /\ Units' = Units
      BY <1>1, PlaceIs DEF PlaceInv, Same, Units
    <3>4. PlaceInv'
      <4>1. p \in 1 .. Len(Units) + 1
        BY <1>2, <3>2, <3>3
      <4>2. QED
        BY <1>1, <2>3, <3>1, <3>3, <4>1 DEF PlaceInv, Same
    <3>5. CacheSound(keyCache)'
      BY <1>1, <3>2, CacheKept
    <3>6. GotInv'
      <4>1. pos <= p
        BY ONLY <1>2, <3>2, <3>3
      <4>2. num' \in Nat /\ pos' \in Nat /\ num = num' /\ pos <= pos'
        BY ONLY <1>1, <3>1, <3>2, <3>3, <4>1
      <4>3. QED
        BY ONLY <1>1, <1>2, <4>2, GotStays
    <3>7. PassedInv'
      <4>1. SUFFICES ASSUME WellWritten
                     PROVE  /\ AllRead' /\ (\A n \in 1 .. num : Ends(vols[n].units))'
                            /\ Units[p - 1].u # "salt" /\ GoesOnBehind(Units[p - 1])
                            /\ \E k \in 1 .. p - 1 :
                                 Units[k].u = "head" /\ Units[k].type = "arc" /\ Units[k].multi = multi'
        BY <1>1, <1>2, <2>3, <3>1, <3>2, <3>3, Constants DEF PassedInv, Over
      <4>2. AllRead'
        <5>1. vols' = vols /\ pos <= p /\ \A n, k : Returned(n, k) => Returned(n, k)'
          BY <1>1, <1>2, <3>2, <3>3 DEF Same, Returned
        <5>2. QED
          BY ONLY <1>1, <1>2, <3>1, <3>2, <4>1, <5>1, ReadOn
      <4>3. (\A n \in 1 .. num : Ends(vols[n].units))'
        BY <1>1, <1>2, <4>1, Constants DEF Ends, Same
      <4>4. p - 1 \in 1 .. p - 1
        BY <1>2, <3>2, <3>3
      <4>5. QED
        BY <3>2, <4>2, <4>3, <4>4 DEF GoesOnBehind
    <3>8. CleanEndIsWhole'
      BY <2>3 DEF CleanEndIsWhole
    <3>9. QED
      BY <3>4, <3>5, <3>6, <3>7, <3>8 DEF HeadersInv
  <2>4. QED
    BY <2>2, <2>3
<1>5. QED
  BY <1>3, <1>4

(* A step within a volume. *)
LEMMA StaysNext ==
  ASSUME PlaceInv, PassedInv, status = "next", status' = "next", Same, num' = num,
         multi' = multi, NEW p \in Nat, p = pos', pos <= p,
         \A n, k : Returned(n, k) => Returned(n, k)',
         ASSUME WellWritten
         PROVE  /\ \A k \in pos .. p - 1 : IsFile(Units[k]) =>
                     \E i \in 1 .. Len(got') : got'[i].at = <<num + 1, k>>
                /\ p > 1 => Units[p - 1].u # "salt" /\ GoesOnBehind(Units[p - 1])
                /\ rest' => p > 1 /\ Units[p - 1].u = "head" /\ Units[p - 1].data
  PROVE  PassedInv'
<1>1. /\ vols' = vols /\ num \in Nat /\ pos \in Nat /\ Units' = Units /\ ~Over
      /\ status' # "open" /\ (WellWritten' <=> WellWritten)
  BY Constants DEF PlaceInv, Same, Units, Over
<1>2. SUFFICES ASSUME WellWritten
               PROVE  /\ AllRead'
                      /\ (\A n \in 1 .. num : Ends(vols[n].units))'
                      /\ \E k \in 1 .. p - 1 :
                           Units[k].u = "head" /\ Units[k].type = "arc" /\ Units[k].multi = multi
  BY <1>1 DEF PassedInv
<1>3. AllRead /\ (\A n \in 1 .. num : Ends(vols[n].units))
      /\ \E k \in 1 .. pos - 1 :
           Units[k].u = "head" /\ Units[k].type = "arc" /\ Units[k].multi = multi
  BY <1>1, <1>2 DEF PassedInv
<1>4. AllRead'
  <2>1. \A k \in pos .. p - 1 : IsFile(Units[k]) =>
          \E i \in 1 .. Len(got') : got'[i].at = <<num + 1, k>>
    BY <1>2
  <2>2. \A n, k : Returned(n, k) => Returned(n, k)'
    OBVIOUS
  <2>3. QED
    BY ONLY PlaceInv, <1>1, <1>3, <2>1, <2>2, num' = num, p \in Nat, p = pos', pos <= p, ReadOn
<1>5. (\A n \in 1 .. num : Ends(vols[n].units))'
  BY <1>1, <1>3, Constants DEF Ends
<1>6. \E k \in 1 .. p - 1 :
        Units[k].u = "head" /\ Units[k].type = "arc" /\ Units[k].multi = multi
  <2>1. 1 .. pos - 1 \subseteq 1 .. p - 1
    BY ONLY <1>1, p \in Nat, pos <= p
  <2>2. QED
    BY <1>3, <2>1
<1>7. QED
  BY <1>4, <1>5, <1>6

LEMMA DiscardStep ==
  ASSUME HeadersInv, Discard
  PROVE  HeadersInv'
<1>1. /\ status = "next" /\ rest /\ ~Over /\ PlaceInv /\ CacheSound(keyCache) /\ GotInv /\ PassedInv
      /\ Same /\ num' = num /\ got' = got /\ ~rest' /\ multi' = multi /\ keyCache' = keyCache
  BY DEF Discard, Same, HeadersInv, Over, arc
<1>2. /\ pos \in 1 .. Len(Units) + 1 /\ Len(Units) \in Nat /\ num \in Nat /\ pos \in Nat
      /\ Units' = Units
  BY <1>1, PlaceIs DEF PlaceInv, Units, Same
<1> DEFINE whole == pos <= Len(Units) /\ ~Units[pos].cut
<1>3. /\ pos' = IF whole THEN pos + 1 ELSE Len(Units) + 1
      /\ status' = IF whole \/ seekable THEN status ELSE "EOF"
  BY DEF Discard
<1>4. PICK p : p = pos'
  OBVIOUS
<1>5. /\ p \in Nat /\ pos <= p /\ p \in 1 .. Len(Units) + 1
      /\ whole => p = pos + 1
      /\ ~whole => p = Len(Units) + 1
  BY <1>2, <1>3, <1>4
<1>6. ASSUME WellWritten
      PROVE  /\ p > 1 /\ \A k \in pos .. p - 1 : k = p - 1 /\ Units[k].u = "data"
             /\ ~whole => LacksData(Units)
             /\ Units[p - 1].u # "salt" /\ GoesOnBehind(Units[p - 1])
  <2>1. /\ pos > 1 /\ Units[pos - 1].u = "head" /\ Units[pos - 1].data
        /\ GoesOnBehind(Units[pos - 1]) /\ ~Units[pos - 1].cut
    BY <1>1, <1>6 DEF PassedInv, GoesOnBehind
  <2>2. Written(Units, num + 1 = Len(vols))
    BY <1>1, <1>6, PlaceIs DEF WellWritten, Units
  <2>3. CASE pos <= Len(Units)
    <3>1. pos - 1 \in 1 .. Len(Units) /\ pos \in 1 .. Len(Units) /\ pos - 1 < Len(Units)
          /\ pos - 1 + 1 = pos
      BY <1>2, <2>1, <2>3
    <3>2. Units[pos].u = "data" /\ (Units[pos].cut => pos = Len(Units))
      BY <2>1, <2>2, <3>1 DEF Written
    <3>3. p = pos + 1
      BY <1>2, <1>5, <2>3, <3>2
    <3>4. p > 1 /\ \A k \in pos .. p - 1 : k = pos
      BY <1>2, <3>3
    <3>5. ~whole => LacksData(Units)
      <4>1. SUFFICES ASSUME Units[pos].cut PROVE LacksData(Units)
        BY <2>3
      <4>2. Last(Units) = Units[pos] /\ Units # <<>>
        <5>1. Len(Units) # 0
          BY <1>2, <2>1, <2>3
        <5>2. QED
          BY <3>2, <4>1, <5>1 DEF Last
      <4>3. QED
        BY <3>2, <4>1, <4>2 DEF LacksData
    <3>6. p - 1 = pos
      BY <1>2, <3>3
    <3>7. QED
      BY <3>2, <3>4, <3>5, <3>6 DEF GoesOnBehind
  <2>4. CASE pos > Len(Units)
    <3>1. pos = Len(Units) + 1 /\ p = pos /\ Len(Units) # 0 /\ pos - 1 = Len(Units)
      BY <1>2, <1>5, <2>1, <2>4
    <3>2. Last(Units) = Units[pos - 1] /\ Units # <<>>
      BY <3>1 DEF Last
    <3>3. LacksData(Units)
      BY <2>1, <3>2 DEF LacksData
    <3>4. \A k \in pos .. p - 1 : FALSE
      BY <1>2, <3>1
    <3>5. QED
      BY <2>1, <3>1, <3>3, <3>4
  <2>5. QED
    BY <1>2, <2>3, <2>4
<1>7. PlaceInv'
  <2>1. p \in 1 .. Len(Units) + 1 /\ p \in Nat /\ status' # "open"
    BY <1>1, <1>3, <1>5
  <2>2. QED
    BY <1>1, <1>2, <1>4, <2>1 DEF PlaceInv, Same
<1>8. CacheSound(keyCache)'
  BY <1>1, CacheKept
<1>9. GotInv'
  BY <1>1, <1>2, <1>4, <1>5, GotStays
<1>10. PassedInv'
  <2>1. CASE status' = "next"
    <3>1. \A n, k : Returned(n, k) => Returned(n, k)'
      BY <1>1 DEF Returned
    <3>2. ASSUME WellWritten
          PROVE  \A k \in pos .. p - 1 : IsFile(Units[k]) =>
                     \E i \in 1 .. Len(got') : got'[i].at = <<num + 1, k>>
      BY <1>6, <3>2 DEF IsFile
    <3>3. QED
      BY <1>1, <1>4, <1>5, <1>6, <2>1, <3>1, <3>2, StaysNext
  <2>2. CASE status' # "next"
    BY <1>1, <1>3, <2>2 DEF PassedInv, Over
  <2>3. QED
    BY <2>1, <2>2
<1>11. CleanEndIsWhole'
  <2>1. SUFFICES ASSUME status' = "EOF", WellWritten,
                        seekable \/ ~\E n \in 1 .. Len(vols) : LacksData(vols[n].units)
                 PROVE  FALSE
    <3>1. (WellWritten' <=> WellWritten) /\ seekable' = seekable /\ vols' = vols
      BY <1>1, Constants DEF Same
    <3>2. QED
      BY ONLY Zenon, <2>1, <3>1 DEF CleanEndIsWhole
  <2>2. ~whole /\ ~seekable
    BY <1>1, <1>3, <2>1
  <2>3. LacksData(Units) /\ num + 1 \in 1 .. Len(vols)
    BY <1>1, <1>6, <2>1, <2>2, PlaceIs
  <2>4. QED
    BY <2>1, <2>2, <2>3 DEF Units
<1>12. QED
  BY <1>7, <1>8, <1>9, <1>10, <1>11 DEF HeadersInv

(* One file more, read from behind all the others. *)
LEMMA GotGrows ==
  ASSUME PlaceInv, GotInv, Same, ~Over, num' = num, NEW f, got' = Append(got, f),
         NEW p \in Nat, p = pos', pos <= p - 1, f.at = <<num + 1, p - 1>>,
         KeyRight(f, Units[p - 1])
  PROVE  GotInv' /\ \A n, k : Returned(n, k) => Returned(n, k)'
<1>1. PICK S : got \in Seq(S)
  BY DEF GotInv, IsSeq
<1>2. PICK g : g = got'
  OBVIOUS
<1>3. PICK n : n = Len(got)
  OBVIOUS
<1>4. /\ n \in Nat /\ Len(g) = n + 1 /\ g[n + 1] = f
      /\ \A i \in 1 .. n : g[i] = got[i]
  <2>1. got \in Seq(S \cup {f}) /\ f \in S \cup {f}
    BY <1>1, SeqMonotonic
  <2>2. g = Append(got, f)
    BY <1>2
  <2>3. QED
    BY ONLY <1>3, <2>1, <2>2
<1>5. IsSeq(g)
  <2>1. got \in Seq(S \cup {f}) /\ f \in S \cup {f}
    BY <1>1, SeqMonotonic
  <2>2. g \in Seq(S \cup {f})
    BY <1>2, <2>1
  <2>3. QED
    BY <2>2 DEF IsSeq
<1>6. /\ vols' = vols /\ num \in Nat /\ pos \in Nat /\ num + 1 \in Nat /\ p - 1 \in Nat /\ pos <= p
      /\ \A i \in 1 .. n : Earlier(got[i].at, <<num + 1, pos>>) /\ got[i].at \in Nat \X Nat
  <2>1. vols' = vols /\ num \in Nat /\ pos \in Nat
    BY DEF PlaceInv, Same
  <2>2. num + 1 \in Nat /\ p - 1 \in Nat /\ pos <= p
    BY ONLY <2>1, p \in Nat, pos <= p - 1
  <2>3. \A i \in 1 .. n : Earlier(got[i].at, <<num + 1, pos>>) /\ got[i].at \in Nat \X Nat
    BY <1>3 DEF GotInv, Here
  <2>4. QED
    BY ONLY <2>1, <2>2, <2>3
<1>7. \A i \in 1 .. n : Earlier(g[i].at, f.at)
  <2>1. TAKE i \in 1 .. n
  <2>2. Earlier(got[i].at, <<num + 1, p - 1>>)
    BY ONLY <1>6, pos <= p - 1, EarlierThan
  <2>3. QED
    BY <1>4, <2>2
<1>8. \A i \in 1 .. n + 1 : g[i].at \in Nat \X Nat /\ Earlier(g[i].at, <<num + 1, p>>)
  <2>1. TAKE i \in 1 .. n + 1
  <2>2. CASE i = n + 1
    <3>1. g[i].at = <<num + 1, p - 1>>
      BY <1>4, <2>2
    <3>2. p - 1 < p /\ <<num + 1, p - 1>> \in Nat \X Nat
      <4>1. p - 1 < p
        BY ONLY p \in Nat
      <4>2. QED
        BY ONLY <1>6, <4>1
    <3>3. Earlier(<<num + 1, p - 1>>, <<num + 1, p>>)
      BY ONLY <3>2 DEF Earlier
    <3>4. QED
      BY ONLY Zenon, <3>1, <3>2, <3>3
  <2>3. CASE i # n + 1
    <3>1. i \in 1 .. n
      BY <1>4, <2>3
    <3>2. Earlier(got[i].at, <<num + 1, p>>) /\ got[i].at \in Nat \X Nat
      BY ONLY <1>6, <3>1, p \in Nat, EarlierThan
    <3>3. QED
      BY <1>4, <3>1, <3>2
  <2>4. QED
    BY <2>2, <2>3
<1>9. \A i, j \in 1 .. n + 1 : i < j => Earlier(g[i].at, g[j].at)
  <2>1. SUFFICES ASSUME NEW i \in 1 .. n + 1, NEW j \in 1 .. n + 1, i < j
                 PROVE  Earlier(g[i].at, g[j].at)
    OBVIOUS
  <2>2. CASE j = n + 1
    <3>1. i \in 1 .. n
      BY <1>4, <2>1, <2>2
    <3>2. QED
      BY <1>4, <1>7, <2>2, <3>1
  <2>3. CASE j # n + 1
    <3>1. i \in 1 .. n /\ j \in 1 .. n
      BY <1>4, <2>1, <2>3
    <3>2. Earlier(got[i].at, got[j].at)
      BY <1>3, <2>1, <3>1 DEF GotInv
    <3>3. QED
      BY <1>4, <3>1, <3>2
  <2>4. QED
    BY <2>2, <2>3
<1>10. \A i \in 1 .. n + 1 : KeyRight(g[i], vols[g[i].at[1]].units[g[i].at[2]])
  <2>1. TAKE i \in 1 .. n + 1
  <2>2. CASE i = n + 1
    <3>1. g[i] = f /\ g[i].at[1] = num + 1 /\ g[i].at[2] = p - 1
      BY <1>4, <2>2
    <3>2. QED
      BY <3>1 DEF Units
  <2>3. CASE i # n + 1
    <3>1. i \in 1 .. n
      BY <1>4, <2>3
    <3>2. KeyRight(got[i], vols[got[i].at[1]].units[got[i].at[2]])
      BY <1>3, <3>1, KeysAre DEF GotInv
    <3>3. QED
      BY <1>4, <3>1, <3>2
  <2>4. QED
    BY <2>2, <2>3
<1>11. KeysRight'
  <2>1. (\A i \in 1 .. Len(got) : KeyRight(got[i], vols[got[i].at[1]].units[got[i].at[2]]))'
    <3>1. (IsV5' <=> IsV5) /\ pass' = pass
      BY Constants DEF Same
    <3>2. \A i \in 1 .. Len(g) : KeyRight(g[i], vols[g[i].at[1]].units[g[i].at[2]])
      BY ONLY <1>4, <1>10
    <3>3. QED
      BY ONLY <1>2, <1>6, <3>1, <3>2 DEF KeyRight
  <2>2. QED
    BY <2>1, KeysAre, PTL
<1>12. GotInv'
  <2>1. Here' = <<num + 1, p>>
    BY DEF Here
  <2>2. IsSeq(got)'
    BY <1>2, <1>5 DEF IsSeq
  <2>3. (\A i \in 1 .. Len(got) : got[i].at \in Nat \X Nat)'
    BY ONLY <1>2, <1>4, <1>8
  <2>4. (\A i, j \in 1 .. Len(got) : i < j => Earlier(got[i].at, got[j].at))'
    BY ONLY <1>2, <1>4, <1>9 DEF Earlier
  <2>5. (\A i \in 1 .. Len(got) : Earlier(got[i].at, Here))'
    BY ONLY <1>2, <1>4, <1>8, <2>1 DEF Earlier
  <2>6. QED
    BY <1>11, <2>2, <2>3, <2>4, <2>5 DEF GotInv
<1>13. ASSUME NEW m, NEW k, Returned(m, k) PROVE Returned(m, k)'
  <2>1. PICK i \in 1 .. n : got[i].at = <<m, k>>
    BY <1>3, <1>13 DEF Returned
  <2>2. i \in 1 .. Len(g) /\ g[i].at = <<m, k>>
    BY <1>4, <2>1
  <2>3. QED
    BY <1>2, <2>2 DEF Returned
<1>14. QED
  BY <1>12, <1>13

(* The end of the last volume. *)
LEMMA ArchiveEnds ==
  ASSUME PlaceInv, GotInv, Same, num' = num, pos' = pos, got' = got, status' = "EOF",
         NEW c, CacheSound(c), keyCache' = c,
         WellWritten => Finished(Len(vols)) /\ ~SaysMore(vols[Len(vols)].units)
  PROVE  HeadersInv'
<1>1. Over'
  BY DEF Over
<1>2. PlaceInv'
  BY <1>1 DEF PlaceInv, Same
<1>3. GotInv'
  <2>1. num' \in Nat /\ pos' \in Nat /\ num = num' /\ pos <= pos'
    BY DEF PlaceInv
  <2>2. QED
    BY ONLY PlaceInv, GotInv, Same, got' = got, <1>1, <2>1, GotStays
<1>4. CacheSound(keyCache)'
  BY CacheKept
<1>5. PassedInv' /\ CleanEndIsWhole'
  BY <1>1, AllVolumesRead DEF PassedInv
<1>6. QED
  BY <1>2, <1>3, <1>4, <1>5 DEF HeadersInv

(* The end of a volume of which everything has been read. *)
LEMMA VolumeEnds ==
  ASSUME PlaceInv, GotInv, Same, ~Over, ~rest, rest' = rest, got' = got,
         NEW end, NextVolume(end), NEW c, CacheSound(c), keyCache' = c,
         WellWritten => Finished(num + 1) /\ (end => ~SaysMore(Units))
  PROVE  HeadersInv'
<1>1. num \in Nat /\ num < Len(vols) /\ Len(vols) \in Nat /\ pos \in Nat
  BY PlaceIs DEF PlaceInv
<1>2. CASE num + 1 < Len(vols)
  <2>1. num' = num + 1 /\ pos' = 1 /\ status' = "open"
    BY <1>2 DEF NextVolume
  <2>2. PlaceInv'
    <3>1. vols' = vols /\ num' \in Nat /\ num' < Len(vols') /\ num' + 1 \in 1 .. Len(vols')
      BY <1>1, <1>2, <2>1 DEF Same
    <3>2. vols' \in Archives
      BY <3>1 DEF PlaceInv
    <3>3. Len(Units') \in Nat
      BY <3>1, <3>2, HeadersAssumption DEF Units
    <3>4. 1 \in 1 .. Len(Units') + 1
      BY ONLY <3>3
    <3>5. QED
      BY <2>1, <3>1, <3>2, <3>4 DEF PlaceInv
  <2>3. GotInv'
    <3>1. num' \in Nat /\ pos' \in Nat /\ num < num'
      BY <1>1, <2>1
    <3>2. QED
      BY ONLY PlaceInv, GotInv, Same, got' = got, ~Over, <3>1, GotStays
  <2>4. PassedInv'
    <3>1. WellWritten => Finished(num + 1)
      OBVIOUS
    <3>2. QED
      BY <2>1, <3>1, VolumeNext
  <2>5. CacheSound(keyCache)' /\ CleanEndIsWhole'
    BY <2>1, CacheKept DEF CleanEndIsWhole
  <2>6. QED
    BY <2>2, <2>3, <2>4, <2>5 DEF HeadersInv
<1>3. CASE ~(num + 1 < Len(vols))
  <2>1. status' = (IF end THEN "EOF" ELSE "ErrNotExist") /\ num' = num /\ pos' = pos
    BY <1>3 DEF NextVolume
  <2>2. num + 1 = Len(vols)
    BY <1>1, <1>3
  <2>3. CASE end
    <3>1. WellWritten => Finished(Len(vols)) /\ ~SaysMore(vols[Len(vols)].units)
      BY <2>2, <2>3 DEF Units
    <3>2. QED
      BY <2>1, <2>3, <3>1, ArchiveEnds
  <2>4. CASE ~end
    <3>1. status' = "ErrNotExist" /\ Over' /\ pos' \in Nat
      BY <1>1, <2>1, <2>4 DEF Over
    <3>2. QED
      BY <2>1, <3>1, StepFails
  <2>5. QED
    BY <2>3, <2>4
<1>4. QED
  BY <1>2, <1>3

(* A volume of RAR 1.5 that has no end block. *)
LEMMA UnmarkedEnd ==
  ASSUME PlaceInv, PassedInv, status = "next", pos > Len(Units), ~IsV5, WellWritten
  PROVE  Finished(num + 1) /\ ~SaysMore(Units)
<1>1. ~Over /\ pos \in Nat /\ Len(Units) \in Nat
  BY PlaceIs DEF PlaceInv, Over
<1>2. AllRead /\ (\A n \in 1 .. num : Ends(vols[n].units))
  BY <1>1 DEF PassedInv
<1>3. pos > 1 /\ pos = Len(Units) + 1 /\ pos - 1 = Len(Units)
  <2>1. PICK k \in 1 .. pos - 1 : TRUE
    BY <1>1 DEF PassedInv
  <2>2. pos \in 1 .. Len(Units) + 1
    BY <1>1 DEF PlaceInv
  <2>3. QED
    BY <1>1, <2>1, <2>2
<1>4. Units[pos - 1].u # "salt" /\ GoesOnBehind(Units[pos - 1])
  BY <1>1, <1>3 DEF PassedInv
<1>5. Last(Units) = Units[pos - 1]
  BY <1>3 DEF Last
<1>6. Ends(Units) /\ ~SaysMore(Units)
  BY <1>4, <1>5 DEF Ends, CutInHeader, SaysMore, Marked, GoesOnBehind
<1>7. \A k \in pos .. Len(Units) : ~IsFile(Units[k])
  BY <1>1
<1>8. QED
  BY <1>2, <1>6, <1>7, VolumeRead

(* A volume with an end block, which r has read: without more to follow    *)
(* the volume is the last one.                                             *)
LEMMA MarkedEnd ==
  ASSUME PlaceInv, PassedInv, status = "next", WellWritten,
         NEW r, Header(r, pos), r.err = "ok", r.head.type = "end"
  PROVE  /\ Finished(num + 1)
         /\ ~r.head.notLast \/ ~multi => num + 1 = Len(vols) /\ ~SaysMore(Units)
<1>1. ~Over /\ pos \in Nat /\ Len(Units) \in Nat /\ num + 1 \in 1 .. Len(vols)
  BY PlaceIs DEF PlaceInv, Over
<1>2. AllRead /\ (\A n \in 1 .. num : Ends(vols[n].units))
  BY <1>1 DEF PassedInv
<1>3. Written(Units, num + 1 = Len(vols))
  BY <1>1 DEF WellWritten, Units
<1>4. PICK k : k = r.pos - 1
  OBVIOUS
<1>5. /\ k \in pos .. Len(Units) /\ r.head = Units[k] /\ Units[k].u = "head" /\ ~Units[k].cut
      /\ \A i \in pos .. k - 1 : Units[i].u = "salt"
  <2>1. /\ r.pos - 1 \in pos .. Len(Units) /\ r.pos \in Nat
        /\ r.head = Units[r.pos - 1]
        /\ Units[r.pos - 1].u = "head" /\ ~Units[r.pos - 1].cut
        /\ \A i \in pos .. r.pos - 2 : Units[i].u = "salt"
    BY DEF Header
  <2>2. r.pos - 2 = k - 1
    BY <1>4, <2>1
  <2>3. QED
    BY <1>4, <2>1, <2>2
<1>6. pos >= 1
  BY <1>1 DEF PlaceInv
<1>7. k = Len(Units) /\ (Units[k].notLast \/ num + 1 = Len(vols))
  <2>1. k \in 1 .. Len(Units)
    BY <1>1, <1>5, <1>6
  <2>2. QED
    BY <1>3, <1>5, <2>1 DEF Written
<1>8. Ends(Units)
  <2>1. Last(Units) = Units[k] /\ Units[k].type = "end"
    BY <1>5, <1>7 DEF Last
  <2>2. Len(Units) # 0
    BY <1>1, <1>5, <1>6, <1>7
  <2>3. Units # <<>>
    BY <2>2
  <2>4. QED
    BY <1>5, <2>1, <2>3 DEF Ends, Marked, CutInHeader
<1>9. \A i \in pos .. Len(Units) : ~IsFile(Units[i])
  <2>1. TAKE i \in pos .. Len(Units)
  <2>2. i = k \/ i \in pos .. k - 1
    BY <1>1, <1>5, <1>7
  <2>3. QED
    BY <1>5, <2>2 DEF IsFile
<1>10. Finished(num + 1)
  BY <1>2, <1>8, <1>9, VolumeRead
<1>11. ~multi => num + 1 = Len(vols)
  <2>1. PICK a \in 1 .. pos - 1 :
          Units[a].u = "head" /\ Units[a].type = "arc" /\ Units[a].multi = multi
    BY <1>1 DEF PassedInv
  <2>2. a \in 1 .. Len(Units)
    BY <1>1, <1>5
  <2>3. Units[a].multi \/ num + 1 = Len(vols)
    BY <1>3, <2>1, <2>2 DEF Written
  <2>4. QED
    BY <2>1, <2>3
<1>12. ~r.head.notLast \/ ~multi => ~SaysMore(Units)
  <2>1. PICK a \in 1 .. pos - 1 :
          Units[a].u = "head" /\ Units[a].type = "arc" /\ Units[a].multi = multi
    BY <1>1 DEF PassedInv
  <2>2. a \in 1 .. Len(Units)
    BY <1>1, <1>5
  <2>3. Last(Units) = Units[k]
    BY <1>7 DEF Last
  <2>4. QED
    BY <1>5, <2>1, <2>2, <2>3 DEF SaysMore
<1>13. QED
  BY <1>5, <1>7, <1>10, <1>11, <1>12

(* A block that is read on in the same volume: nothing but salts and the   *)
(* header is passed, and the file of a file header is returned.            *)
LEMMA BlockRead ==
  ASSUME PlaceInv, PassedInv, status = "next", status' = "next", Same, num' = num,
         multi' = multi, NEW r, Header(r, pos), r.err = "ok", r.head.type # "end",
         pos' = r.pos, rest' = r.head.data,
         \A n, k : Returned(n, k) => Returned(n, k)',
         r.head.type = "file" => Returned(num + 1, r.pos - 1)'
  PROVE  PlaceInv' /\ PassedInv'
<1>1. PICK p : p = r.pos
  OBVIOUS
<1>2. /\ p \in Nat /\ p - 1 \in pos .. Len(Units) /\ r.head = Units[p - 1]
      /\ Units[p - 1].u = "head" /\ ~Units[p - 1].cut
      /\ \A k \in pos .. p - 2 : Units[k].u = "salt"
  BY <1>1 DEF Header
<1>3. /\ pos \in 1 .. Len(Units) + 1 /\ Len(Units) \in Nat /\ num \in Nat /\ Units' = Units
  BY PlaceIs DEF PlaceInv, Over, Units, Same
<1>4. p > 1 /\ pos <= p /\ p \in 1 .. Len(Units) + 1
  BY <1>2, <1>3
<1>5. PlaceInv'
  <2>1. p = pos' /\ status' # "open"
    BY <1>1
  <2>2. QED
    BY ONLY <1>2, <1>3, <1>4, <2>1, PlaceInv, Same, num' = num DEF PlaceInv, Same
<1>6. \A k \in pos .. p - 1 : IsFile(Units[k]) =>
        \E i \in 1 .. Len(got') : got'[i].at = <<num + 1, k>>
  <2>1. SUFFICES ASSUME NEW k \in pos .. p - 1, IsFile(Units[k])
                 PROVE  Returned(num + 1, k)'
    BY DEF Returned
  <2>2. k = p - 1 \/ k \in pos .. p - 2
    BY <1>2, <1>3
  <2>3. k = p - 1 /\ r.head.type = "file"
    BY <1>2, <2>1, <2>2 DEF IsFile
  <2>4. QED
    BY <1>1, <2>3
<1>7. PassedInv'
  <2>1. Units[p - 1].u # "salt" /\ GoesOnBehind(Units[p - 1])
    BY <1>2 DEF GoesOnBehind
  <2>2. QED
    BY <1>1, <1>2, <1>4, <1>6, <2>1, StaysNext
<1>8. QED
  BY <1>5, <1>7

LEMMA NextBlockStep ==
  ASSUME HeadersInv, NextBlock
  PROVE  HeadersInv'
<1> DEFINE h == ReadBlock
           f == IF IsV5 THEN parseFileHeader50(h) ELSE parseFileHeader15(h)
<1>1. /\ status = "next" /\ ~rest /\ ~Over /\ Same /\ multi' = multi
      /\ PlaceInv /\ CacheSound(keyCache) /\ GotInv /\ PassedInv
  BY DEF NextBlock, Same, HeadersInv, Over
<1>2. /\ pos \in Nat \ {0} /\ Len(Units) \in Nat /\ num \in Nat
  BY <1>1, PlaceIs DEF PlaceInv
<1>3. Header(h, pos) /\ (IsV5 => h.err # "EOF")
  <2>1. CASE IsV5
    BY <1>1, <1>2, <2>1, MustRead DEF ReadBlock
  <2>2. CASE ~IsV5
    BY <1>1, <1>2, <2>2, Read15 DEF ReadBlock
  <2>3. QED
    BY <2>1, <2>2
<1>4. IF h.err # "ok"
      THEN /\ IF ~IsV5 /\ h.err = "EOF" THEN NextVolume(TRUE)
              ELSE status' = h.err /\ UNCHANGED <<num, pos>>
           /\ keyCache' = h.cache
           /\ UNCHANGED <<rest, got>>
      ELSE CASE h.head.type = "file" ->
                  /\ status' = IF f.err = "ok" THEN status ELSE f.err
                  /\ got' = IF f.err = "ok" THEN Append(got, f.file) ELSE got
                  /\ keyCache' = f.cache
                  /\ rest' = h.head.data /\ pos' = h.pos
                  /\ UNCHANGED num
             [] h.head.type = "end" ->
                  /\ IF ~h.head.notLast \/ ~multi
                     THEN status' = "EOF" /\ UNCHANGED <<num, pos>>
                     ELSE NextVolume(FALSE)
                  /\ keyCache' = h.cache
                  /\ UNCHANGED <<rest, got>>
             [] OTHER ->
                  /\ rest' = h.head.data /\ pos' = h.pos
                  /\ keyCache' = h.cache
                  /\ UNCHANGED <<status, num, got>>
  BY DEF NextBlock
<1> HIDE DEF h
<1>5. CacheSound(h.cache) /\ FileRight(f, h) /\ h.err \notin {"open", "next"} /\ h.pos \in Nat
  BY <1>3, File15, File50 DEF Header
<1> HIDE DEF f
<1>6. CASE h.err # "ok" /\ ~IsV5 /\ h.err = "EOF"
  <2>1. NextVolume(TRUE) /\ keyCache' = h.cache /\ rest' = rest /\ got' = got
    BY <1>4, <1>6
  <2>2. pos > Len(Units)
    BY <1>3, <1>6 DEF Header
  <2>3. WellWritten => Finished(num + 1) /\ (TRUE => ~SaysMore(Units))
    BY <1>1, <1>6, <2>2, UnmarkedEnd
  <2>4. QED
    BY ONLY <1>1, <1>5, <2>1, <2>3, VolumeEnds
<1>7. CASE h.err # "ok" /\ h.err # "EOF"
  <2>1. status' = h.err /\ num' = num /\ pos' = pos /\ keyCache' = h.cache /\ got' = got
    BY <1>4, <1>7
  <2>2. Over' /\ pos' \in Nat /\ status' \notin {"EOF", "open"}
    BY <1>2, <1>5, <1>7, <2>1 DEF Over
  <2>3. QED
    BY ONLY <1>1, <1>5, <2>1, <2>2, StepFails
<1>8. CASE h.err = "ok" /\ h.head.type = "file" /\ f.err = "ok"
  <2>1. /\ status' = status /\ got' = Append(got, f.file) /\ keyCache' = f.cache
        /\ rest' = h.head.data /\ pos' = h.pos /\ num' = num
    BY <1>4, <1>8
  <2>2. PICK p : p = h.pos
    OBVIOUS
  <2>3. /\ p \in Nat /\ pos <= p - 1 /\ p = pos' /\ h.head = Units[p - 1]
        /\ f.file.at = <<num + 1, p - 1>> /\ KeyRight(f.file, Units[p - 1]) /\ CacheSound(f.cache)
    BY <1>2, <1>3, <1>5, <1>8, <2>1, <2>2 DEF Header, FileRight
  <2>4. GotInv' /\ \A n, k : Returned(n, k) => Returned(n, k)'
    BY ONLY <1>1, <2>1, <2>3, GotGrows
  <2>5. Returned(num + 1, p - 1)'
    <3>1. PICK S : got \in Seq(S)
      BY <1>1 DEF GotInv, IsSeq
    <3>2. got \in Seq(S \cup {f.file}) /\ f.file \in S \cup {f.file}
      BY <3>1, SeqMonotonic
    <3>3. Len(got) + 1 \in 1 .. Len(got') /\ got'[Len(got) + 1] = f.file
      BY ONLY <2>1, <3>2
    <3>4. QED
      BY ONLY <2>1, <2>3, <3>3 DEF Returned
  <2>6. PlaceInv' /\ PassedInv'
    BY <1>1, <1>3, <1>8, <2>1, <2>2, <2>4, <2>5, BlockRead
  <2>7. CacheSound(keyCache)' /\ CleanEndIsWhole'
    BY <1>1, <2>1, <2>3, CacheKept DEF CleanEndIsWhole
  <2>8. QED
    BY <2>4, <2>6, <2>7 DEF HeadersInv
<1>9. CASE h.err = "ok" /\ h.head.type = "file" /\ f.err # "ok"
  <2>1. status' = f.err /\ num' = num /\ pos' = h.pos /\ keyCache' = f.cache /\ got' = got
    BY <1>4, <1>9
  <2>2. Over' /\ pos' \in Nat /\ status' \notin {"EOF", "open"} /\ CacheSound(f.cache)
    BY <1>5, <1>9, <2>1 DEF Over, FileRight
  <2>3. QED
    BY ONLY <1>1, <2>1, <2>2, StepFails
<1>10. CASE h.err = "ok" /\ h.head.type = "end"
  <2>1. /\ IF ~h.head.notLast \/ ~multi THEN status' = "EOF" /\ UNCHANGED <<num, pos>>
           ELSE NextVolume(FALSE)
        /\ keyCache' = h.cache /\ rest' = rest /\ got' = got
    BY <1>4, <1>10
  <2>2. WellWritten =>
          /\ Finished(num + 1)
          /\ ~h.head.notLast \/ ~multi => num + 1 = Len(vols) /\ ~SaysMore(Units)
    BY <1>1, <1>3, <1>10, MarkedEnd
  <2>3. CASE ~h.head.notLast \/ ~multi
    <3>1. WellWritten => Finished(Len(vols)) /\ ~SaysMore(vols[Len(vols)].units)
      BY <2>2, <2>3 DEF Units
    <3>2. QED
      BY <1>1, <1>5, <2>1, <2>3, <3>1, ArchiveEnds
  <2>4. CASE ~(~h.head.notLast \/ ~multi)
    <3>1. NextVolume(FALSE) /\ (WellWritten => Finished(num + 1) /\ (FALSE => ~SaysMore(Units)))
      BY <2>1, <2>2, <2>4
    <3>2. QED
      BY ONLY <1>1, <1>5, <2>1, <3>1, VolumeEnds
  <2>5. QED
    BY <2>3, <2>4
<1>11. CASE h.err = "ok" /\ h.head.type \notin {"file", "end"}
  <2>1. /\ status' = status /\ got' = got /\ keyCache' = h.cache
        /\ rest' = h.head.data /\ pos' = h.pos /\ num' = num
    BY <1>4, <1>11
  <2>2. \A n, k : Returned(n, k) => Returned(n, k)'
    BY <2>1 DEF Returned
  <2>3. PlaceInv' /\ PassedInv'
    BY <1>1, <1>3, <1>11, <2>1, <2>2, BlockRead
  <2>4. PICK p : p = h.pos
    OBVIOUS
  <2>5. pos <= p /\ p \in Nat
    BY <1>2, <1>3, <1>11, <2>4 DEF Header
  <2>6. num' \in Nat /\ pos' \in Nat /\ num = num' /\ pos <= pos'
    BY ONLY <1>2, <2>1, <2>4, <2>5
  <2>7. GotInv'
    BY ONLY <1>1, <2>1, <2>6, GotStays
  <2>8. CacheSound(keyCache)' /\ CleanEndIsWhole'
    BY <1>1, <1>5, <2>1, CacheKept DEF CleanEndIsWhole
  <2>9. QED
    BY <2>3, <2>7, <2>8 DEF HeadersInv
<1>12. QED
  BY <1>3, <1>6, <1>7, <1>8, <1>9, <1>10, <1>11
-----------------------------------------------------------------------------
(* Theorems.                                                               *)

LEMMA HeadersStart ==
  ASSUME HeadersInit
  PROVE  HeadersInv
<1>1. /\ vols \in Archives /\ num = 0 /\ pos = 1 /\ rest = FALSE /\ keyCache = <<>>
      /\ status = "open" /\ got = <<>>
  BY DEF HeadersInit
<1>2. PlaceInv
  <2>1. Len(vols) \in Nat \ {0} /\ Len(vols[1].units) \in Nat
    BY <1>1, HeadersAssumption
  <2>2. pos \in 1 .. Len(Units) + 1
    BY <1>1, <2>1 DEF Units
  <2>3. QED
    BY <1>1, <2>1, <2>2 DEF PlaceInv
<1>3. CacheSound(keyCache)
  <2>1. <<>> \in Seq({})
    OBVIOUS
  <2>2. QED
    BY <1>1, <2>1 DEF CacheSound, IsSeq
<1>4. GotInv
  <2>1. got \in Seq({}) /\ Len(got) = 0
    BY <1>1
  <2>2. \A i \in 1 .. Len(got) : FALSE
    BY <2>1
  <2>3. QED
    BY <2>1, <2>2 DEF GotInv, IsSeq, KeysRight
<1>5. PassedInv
  <2>1. AllRead
    <3>1. SUFFICES ASSUME NEW n \in 1 .. num + 1, NEW k \in 1 .. Len(vols[n].units),
                          Earlier(<<n, k>>, Here)
                   PROVE  FALSE
      BY DEF AllRead
    <3>2. n = 1 /\ k \in Int /\ k >= 1
      BY <1>1
    <3>3. QED
      BY <1>1, <3>1, <3>2 DEF Earlier, Here
  <2>2. \A n \in 1 .. num : FALSE
    BY <1>1
  <2>3. QED
    BY <1>1, <2>1, <2>2 DEF PassedInv
<1>6. CleanEndIsWhole
  BY <1>1 DEF CleanEndIsWhole
<1>7. QED
  BY <1>2, <1>3, <1>4, <1>5, <1>6 DEF HeadersInv

LEMMA HeadersStep ==
  ASSUME HeadersInv, [HeadersNext]_hdrVars
  PROVE  HeadersInv'
<1>1. CASE OpenVolume
  BY <1>1, OpenStep
<1>2. CASE Discard
  BY <1>2, DiscardStep
<1>3. CASE NextBlock
  BY <1>3, NextBlockStep
<1>4. CASE UNCHANGED hdrVars
  <2>1. /\ vols' = vols /\ pass' = pass /\ seekable' = seekable /\ num' = num /\ pos' = pos
        /\ rest' = rest /\ multi' = multi /\ keyCache' = keyCache /\ status' = status
        /\ got' = got
    BY <1>4 DEF hdrVars, arc
  <2>2. PlaceInv /\ CacheSound(keyCache) /\ GotInv /\ PassedInv /\ CleanEndIsWhole /\ Same
    BY <2>1 DEF HeadersInv, Same
  <2>3. /\ (IsV5' <=> IsV5) /\ (WellWritten' <=> WellWritten) /\ (Over' <=> Over)
        /\ \A us : Ends(us)' <=> Ends(us)
    BY <2>1, <2>2, Constants DEF Over
  <2>4. PlaceInv'
    BY ONLY <2>1, <2>2, <2>3 DEF PlaceInv, Units
  <2>5. CacheSound(keyCache)'
    BY <2>1, <2>2, CacheKept
  <2>6. GotInv'
    <3>1. num' \in Nat /\ pos' \in Nat /\ num = num' /\ pos <= pos'
      BY <2>1, <2>2 DEF PlaceInv
    <3>2. QED
      BY ONLY <2>1, <2>2, <2>3, <3>1, GotStays
  <2>7. PassedInv'
    BY ONLY <2>1, <2>2, <2>3 DEF PassedInv, AllRead, Here, Units, Earlier
  <2>8. CleanEndIsWhole'
    BY ONLY <2>1, <2>2, <2>3 DEF CleanEndIsWhole
  <2>9. QED
    BY <2>4, <2>5, <2>6, <2>7, <2>8 DEF HeadersInv
<1>5. QED
  BY <1>1, <1>2, <1>3, <1>4 DEF HeadersNext, End

(* The whole invariant: the place in the archive, the cache of keys, what  *)
(* has been returned and what has been passed over.                        *)
THEOREM HeadersInvariance == HeadersSpec => []HeadersInv
<1>1. HeadersInit => HeadersInv
  BY HeadersStart
<1>2. HeadersInv /\ [HeadersNext]_hdrVars => HeadersInv'
  BY HeadersStep
<1>3. QED
  BY <1>1, <1>2, PTL DEF HeadersSpec

(* A file has the keys of its own salt and count, in every archive and     *)
(* with a cache of any size (getKeys, parseFileEncryptionRecord).          *)
THEOREM KeysKept == HeadersSpec => []KeysRight
<1>1. HeadersInv => KeysRight
  BY DEF HeadersInv, GotInv
<1>2. QED
  BY <1>1, HeadersInvariance, PTL

(* An archive that is reported to end has given all of its files, however  *)
(* its volumes are cut off (nextBlock, mustReadBlockHeader).               *)
THEOREM EndsWhole == HeadersSpec => []CleanEndIsWhole
<1>1. HeadersInv => CleanEndIsWhole
  BY DEF HeadersInv
<1>2. QED
  BY <1>1, HeadersInvariance, PTL
-----------------------------------------------------------------------------
(* The data of a file: cipherBlockReader.                                  *)

(* The calls that go through outbuf. *)
SmallCall == \/ ReadByte
             \/ WriteStep
             \/ \E p \in caller.reads : p < BlockSize /\ Read(p)

(* None is made while a part of a block is kept. *)
Aligned == inbuf # 0 => ~SmallCall

(* A caller reads in pieces shorter than a block, or not at all. *)
OneKind ==
  \A c \in Callers :
     \/ \A p \in c.reads : p < BlockSize
     \/ c.writes = {} /\ ~c.bytes /\ \A p \in c.reads : p >= BlockSize

Byte == {"c", "p", "x"} \X Int

TypeInv ==
  /\ len \in Nat /\ caller \in Callers
  /\ rpos \in 0 .. len /\ chain \in Nat /\ inbuf \in 0 .. BlockSize - 1
  /\ block \in Seq(Byte) /\ Len(block) = BlockSize
  /\ ret \in {"nil", "EOF", "ErrUnexpectedEOF", "io"} /\ todo \in Int

(* The bytes of c blocks. *)
Blocks(c) == c * BlockSize

(* o handed out and b left over are the plaintext of the first c blocks. *)
OutRun(o, b, c) ==
  \E m, n \in Nat : o = Plain(0, m) /\ b = Plain(m, n) /\ m + n = Blocks(c)

OutInv == OutRun(out, outbuf, chain)

(* The input goes on behind inbuf, which goes on behind that block. *)
InInv ==
  /\ inbuf # 0 => outbuf = <<>>
  /\ ret = "nil" => /\ rpos = Blocks(chain) + inbuf
                    /\ SubSeq(block, 1, inbuf) = Raw(Blocks(chain), inbuf)
  /\ ret = "EOF" => outbuf = <<>> /\ rpos = len /\ Len(out) = Whole(len)
  /\ todo # 0 => ret \in {"nil", "EOF"}

IInv == TypeInv /\ OutInv /\ InInv
-----------------------------------------------------------------------------
(* Runs of bytes. *)

(* A block has a size. *)
LEMMA BlockSizePos == BlockSize \in Nat /\ BlockSize > 0
BY SizeAssumption

(* A number of blocks is a number of bytes. *)
LEMMA BlocksNat ==
  /\ \A c \in Nat : Blocks(c) \in Nat
  /\ \A c, d \in Nat : Blocks(c + d) = Blocks(c) + Blocks(d)
  /\ Blocks(0) = 0 /\ Blocks(1) = BlockSize
BY BlockSizePos DEF Blocks

(* Runs of bytes of either kind are sequences of bytes. *)
LEMMA RunType ==
  ASSUME NEW a \in Int, NEW k \in Nat
  PROVE  /\ Plain(a, k) \in Seq(Byte) /\ Len(Plain(a, k)) = k
         /\ Raw(a, k) \in Seq(Byte) /\ Len(Raw(a, k)) = k
         /\ Garbage(k) \in Seq(Byte) /\ Len(Garbage(k)) = k
BY DEF Plain, Raw, Garbage, Byte

(* Two runs, one behind the other, are one. *)
LEMMA RunConcat ==
  ASSUME NEW a \in Int, NEW k \in Nat, NEW b \in Int, NEW l \in Nat, NEW n \in Nat,
         b = a + k, n = k + l
  PROVE  /\ Cat(Plain(a, k), Plain(b, l)) = Plain(a, n)
         /\ Cat(Raw(a, k), Raw(b, l)) = Raw(a, n)
<1>1. ASSUME NEW x \in Seq(Byte), NEW y \in Seq(Byte), NEW z \in Seq(Byte),
             Len(x) = k, Len(y) = l, Len(z) = n,
             \A j \in 1 .. k : z[j] = x[j],
             \A j \in 1 .. l : z[k + j] = y[j]
      PROVE  Cat(x, y) = z
  <2>1. Len(z) = Len(x) + Len(y)
    BY <1>1
  <2>2. QED
    BY <1>1, <2>1, CatIs
<1>2. /\ Plain(a, k) \in Seq(Byte) /\ Len(Plain(a, k)) = k
      /\ Plain(b, l) \in Seq(Byte) /\ Len(Plain(b, l)) = l
      /\ Plain(a, n) \in Seq(Byte) /\ Len(Plain(a, n)) = n
      /\ Raw(a, k) \in Seq(Byte) /\ Len(Raw(a, k)) = k
      /\ Raw(b, l) \in Seq(Byte) /\ Len(Raw(b, l)) = l
      /\ Raw(a, n) \in Seq(Byte) /\ Len(Raw(a, n)) = n
  BY RunType
<1>3. Cat(Plain(a, k), Plain(b, l)) = Plain(a, n)
  <2>1. /\ \A j \in 1 .. k : Plain(a, n)[j] = Plain(a, k)[j]
        /\ \A j \in 1 .. l : Plain(a, n)[k + j] = Plain(b, l)[j]
    BY DEF Plain
  <2>2. QED
    BY <1>1, <1>2, <2>1
<1>4. Cat(Raw(a, k), Raw(b, l)) = Raw(a, n)
  <2>1. /\ \A j \in 1 .. k : Raw(a, n)[j] = Raw(a, k)[j]
        /\ \A j \in 1 .. l : Raw(a, n)[k + j] = Raw(b, l)[j]
    BY DEF Raw
  <2>2. QED
    BY <1>1, <1>2, <2>1
<1>5. QED
  BY <1>3, <1>4

(* A part of a run is a run. *)
LEMMA RunPart ==
  ASSUME NEW a \in Int, NEW k \in Nat, NEW i \in 1 .. k + 1, NEW j \in 0 .. k,
         i <= j + 1, NEW b \in Int, NEW n \in Nat, b = a + i - 1, n = j - i + 1
  PROVE  /\ Part(Plain(a, k), i, j) = Plain(b, n)
         /\ Part(Raw(a, k), i, j) = Raw(b, n)
BY DEF Plain, Raw, Part

(* The quotient is what one expects: there is only one. *)
LEMMA Quotient ==
  ASSUME NEW q \in Nat, NEW r \in 0 .. BlockSize - 1
  PROVE  (q * BlockSize + r) % BlockSize = r
BY BlockSizePos

(* A number of bytes is whole blocks and less than a block. *)
LEMMA WholeBlocks ==
  ASSUME NEW k \in Nat
  PROVE  /\ Keep(k) \in 0 .. BlockSize - 1
         /\ Whole(k) \in 0 .. k /\ k = Whole(k) + Keep(k)
         /\ Whole(k) \div BlockSize \in Nat
         /\ Blocks(Whole(k) \div BlockSize) = Whole(k)
<1> DEFINE q == k \div BlockSize
           r == k % BlockSize
<1>1. q \in Nat /\ r \in 0 .. BlockSize - 1 /\ k = BlockSize * q + r
  BY BlockSizePos
<1> HIDE DEF q
<1>2. BlockSize * q \in Nat /\ BlockSize * q = q * BlockSize
  BY <1>1, BlockSizePos
<1>3. (BlockSize * q) \div BlockSize = q
  BY <1>1, BlockSizePos
<1> HIDE DEF r
<1>4. Whole(k) = BlockSize * q
  BY <1>1, <1>2 DEF Whole, r
<1>5. QED
  BY <1>1, <1>2, <1>3, <1>4 DEF Keep, r, Blocks

(* A run of whole blocks that is next decrypts to the plaintext that is. *)
LEMMA CryptNext ==
  ASSUME chain \in Nat, NEW k \in Nat
  PROVE  LET s == Raw(Blocks(chain), k) IN
         /\ CryptBlocks(s).data = Plain(Blocks(chain), k)
         /\ CryptBlocks(s).chain = chain + k \div BlockSize
<1>1. chain * BlockSize \in Int
  BY BlockSizePos
<1>2. Len(Raw(Blocks(chain), k)) = k
  BY <1>1, RunType DEF Blocks
<1>3. QED
  BY <1>2 DEF CryptBlocks, InSequence, Blocks

(* What is kept of the input and what comes behind it are a run. *)
LEMMA BlockWithRun ==
  ASSUME TypeInv, InInv, ret = "nil", NEW k \in Nat
  PROVE  BlockWith(inbuf, k) = Raw(Blocks(chain), inbuf + k)
<1>1. Blocks(chain) \in Nat /\ inbuf \in Nat
  <2>1. chain \in Nat /\ inbuf \in Nat
    BY BlockSizePos DEF TypeInv
  <2>2. QED
    BY <2>1, BlocksNat
<1>2. BlockWith(inbuf, k) = Cat(Raw(Blocks(chain), inbuf),
                                Raw(Blocks(chain) + inbuf, k))
  BY DEF BlockWith, InInv, Cat
<1>3. QED
  BY <1>1, <1>2, RunConcat

(* What a fill does: if a whole block arrives, it is the next one. *)
LEMMA Fill ==
  ASSUME IInv, ret \in {"nil", "EOF"}, inbuf = 0, outbuf = <<>>,
         NEW f \in FillOutcomes
  PROVE  /\ f.k \in 0 .. Left /\ f.err \in {"nil", "EOF", "ErrUnexpectedEOF", "io"}
         /\ f.err = "nil" => /\ ret = "nil" /\ f.k = BlockSize
                             /\ f.crypt.data = Plain(Blocks(chain), BlockSize)
                             /\ f.crypt.chain = chain + 1
         /\ f.err = "EOF" => f.k = 0 /\ Left = 0
<1>1. PICK c \in ReadAtLeast(BlockSize - inbuf, BlockSize - inbuf) :
        f = [err |-> c.err, k |-> c.k, crypt |-> CryptBlocks(BlockWith(inbuf, c.k))]
  BY DEF FillOutcomes
<1>2. /\ c.k \in 0 .. Left /\ c.k <= BlockSize
      /\ c.err \in {"nil", "EOF", "ErrUnexpectedEOF", "io"}
      /\ c.err = "nil" <=> c.k >= BlockSize
      /\ c.err = "EOF" => c.k = 0 /\ Left = 0
  BY BlockSizePos DEF ReadAtLeast, Smaller, IInv, TypeInv, Left
<1>3. ASSUME c.err = "nil"
      PROVE  /\ ret = "nil" /\ c.k = BlockSize
             /\ f.crypt.data = Plain(Blocks(chain), BlockSize)
             /\ f.crypt.chain = chain + 1
  <2>1. c.k = BlockSize
    BY <1>2, <1>3, BlockSizePos DEF IInv, TypeInv, Left
  <2>2. ret = "nil"
    BY <1>2, <2>1, BlockSizePos DEF IInv, TypeInv, InInv, Left
  <2>3. f.crypt = CryptBlocks(Raw(Blocks(chain), BlockSize))
    BY <1>1, <2>1, <2>2, BlockWithRun, BlockSizePos DEF IInv
  <2>4. BlockSize \div BlockSize = 1
    BY BlockSizePos
  <2>5. chain \in Nat
    BY DEF IInv, TypeInv
  <2>6. QED
    BY <2>1, <2>2, <2>3, <2>4, <2>5, CryptNext, BlockSizePos
<1>4. QED
  BY <1>1, <1>2, <1>3

(* A piece of what is left over is handed out. *)
LEMMA HandOut ==
  ASSUME NEW o, NEW b, NEW c \in Nat, OutRun(o, b, c), NEW k \in 0 .. Len(b)
  PROVE  OutRun(Cat(o, Part(b, 1, k)), Part(b, k + 1, Len(b)), c)
<1>1. PICK m \in Nat, n \in Nat :
        o = Plain(0, m) /\ b = Plain(m, n) /\ m + n = Blocks(c)
  BY DEF OutRun
<1>2. Len(b) = n
  BY <1>1, RunType
<1>3. Part(b, 1, k) = Plain(m, k)
  BY <1>1, <1>2, RunPart
<1>4. Part(b, k + 1, Len(b)) = Plain(m + k, n - k)
  BY <1>1, <1>2, RunPart
<1>5. Cat(o, Part(b, 1, k)) = Plain(0, m + k)
  BY <1>1, <1>2, <1>3, RunConcat
<1>6. m + k \in Nat /\ n - k \in Nat /\ (m + k) + (n - k) = Blocks(c)
  BY <1>1, <1>2
<1>7. QED
  BY <1>4, <1>5, <1>6 DEF OutRun

(* Nothing is left over: all of the c blocks is handed out. *)
LEMMA AllOut ==
  ASSUME NEW o, NEW c \in Nat, OutRun(o, <<>>, c)
  PROVE  Blocks(c) \in Nat /\ o = Plain(0, Blocks(c))
<1>1. PICK m \in Nat, n \in Nat :
        o = Plain(0, m) /\ <<>> = Plain(m, n) /\ m + n = Blocks(c)
  BY DEF OutRun
<1>2. n = 0
  BY <1>1, RunType
<1>3. QED
  BY <1>1, <1>2

(* The next l bytes of the plaintext come behind what is handed out. *)
LEMMA NextRun ==
  ASSUME NEW o, NEW c \in Nat, OutRun(o, <<>>, c), NEW d \in Nat
  PROVE  /\ OutRun(o, Plain(Blocks(c), Blocks(d)), c + d)
         /\ OutRun(Cat(o, Plain(Blocks(c), Blocks(d))), <<>>, c + d)
<1>1. /\ Blocks(c) \in Nat /\ Blocks(d) \in Nat /\ o = Plain(0, Blocks(c))
      /\ Blocks(c + d) = Blocks(c) + Blocks(d)
  BY AllOut, BlocksNat
<1>2. Cat(o, Plain(Blocks(c), Blocks(d))) = Plain(0, Blocks(c + d))
  BY <1>1, RunConcat
<1>3. <<>> = Plain(Blocks(c + d), 0)
  BY <1>1 DEF Plain
<1>4. Blocks(c + d) \in Nat /\ Blocks(c + d) + 0 = Blocks(c + d)
  BY <1>1
<1>5. QED
  BY <1>1, <1>2, <1>3, <1>4 DEF OutRun

(* What is handed out and left over is plaintext, and how long it is. *)
LEMMA OutRunType ==
  ASSUME NEW o, NEW b, NEW c \in Nat, OutRun(o, b, c)
  PROVE  /\ o \in Seq(Byte) /\ b \in Seq(Byte) /\ Len(o) \in Nat /\ Len(b) \in Nat
         /\ o = Plain(0, Len(o)) /\ Len(o) + Len(b) = Blocks(c)
<1>1. PICK m \in Nat, n \in Nat :
        o = Plain(0, m) /\ b = Plain(m, n) /\ m + n = Blocks(c)
  BY DEF OutRun
<1>2. Len(o) = m /\ Len(b) = n /\ o \in Seq(Byte) /\ b \in Seq(Byte)
  BY <1>1, RunType
<1>3. QED
  BY <1>1, <1>2
-----------------------------------------------------------------------------
(* The calls.                                                              *)

(* What the calls leave of IInv apart from todo. *)
CoreInv ==
  /\ len \in Nat /\ caller \in Callers
  /\ rpos \in 0 .. len /\ chain \in Nat /\ inbuf \in 0 .. BlockSize - 1
  /\ block \in Seq(Byte) /\ Len(block) = BlockSize
  /\ ret \in {"nil", "EOF", "ErrUnexpectedEOF", "io"}
  /\ OutInv
  /\ inbuf # 0 => outbuf = <<>>
  /\ ret = "nil" => /\ rpos = Blocks(chain) + inbuf
                    /\ SubSeq(block, 1, inbuf) = Raw(Blocks(chain), inbuf)
  /\ ret = "EOF" => outbuf = <<>> /\ rpos = len /\ Len(out) = Whole(len)

(* Where the input ends in less than a block, all blocks are handed out. *)
LEMMA EndOfBlocks ==
  ASSUME IInv, ret = "nil", outbuf = <<>>, rpos = len
  PROVE  Len(out) = Whole(len)
<1>1. /\ chain \in Nat /\ inbuf \in 0 .. BlockSize - 1 /\ len = Blocks(chain) + inbuf
      /\ OutRun(out, <<>>, chain)
  BY DEF IInv, TypeInv, InInv, OutInv
<1>2. Len(out) = Blocks(chain) /\ Blocks(chain) \in Nat
  BY <1>1, AllOut, RunType
<1>3. len % BlockSize = inbuf
  BY <1>1, Quotient DEF Blocks
<1>4. QED
  BY <1>1, <1>2, <1>3, BlockSizePos DEF Whole

(* A call that goes through outbuf, with nothing kept in inbuf. *)
LEMMA SmallKeeps ==
  ASSUME IInv, ret \in {"nil", "EOF"}, inbuf = 0, NEW want \in Nat, want > 0,
         FromOutbuf(want), UNCHANGED <<len, caller>>
  PROVE  CoreInv' /\ out' \in Seq(Byte)
<1>1. CASE outbuf # <<>>
  <2> DEFINE k == Smaller(want, Len(outbuf))
  <2>1. /\ out' = Cat(out, Part(outbuf, 1, k))
        /\ outbuf' = Part(outbuf, k + 1, Len(outbuf))
        /\ ret' = "nil" /\ UNCHANGED <<rpos, chain, block, inbuf>>
    BY <1>1 DEF FromOutbuf, Cat, Part
  <2>2. chain \in Nat /\ OutRun(out, outbuf, chain)
    BY DEF IInv, TypeInv, OutInv
  <2>3. k \in 0 .. Len(outbuf)
    BY <2>2, OutRunType DEF Smaller
  <2> HIDE DEF k
  <2>4. OutRun(out', outbuf', chain')
    BY <2>1, <2>2, <2>3, HandOut
  <2>5. ret = "nil"
    BY <1>1 DEF IInv, InInv
  <2>6. QED
    BY <2>1, <2>2, <2>4, <2>5, OutRunType
    DEF IInv, TypeInv, InInv, CoreInv, OutInv
<1>2. CASE outbuf = <<>>
  <2>1. PICK f \in FillOutcomes :
          /\ rpos' = rpos + f.k
          /\ ret' = f.err
          /\ \/ /\ f.err = "nil"
                /\ LET b == f.crypt.data
                       k == Smaller(want, BlockSize) IN
                   /\ out' = out \o SubSeq(b, 1, k)
                   /\ outbuf' = SubSeq(b, k + 1, BlockSize)
                   /\ block' = b
                /\ chain' = f.crypt.chain
             \/ /\ f.err # "nil"
                /\ UNCHANGED <<chain, block, outbuf, out>>
    BY <1>2 DEF FromOutbuf
  <2>2. /\ f.k \in 0 .. Left /\ f.err \in {"nil", "EOF", "ErrUnexpectedEOF", "io"}
        /\ f.err = "nil" => /\ ret = "nil" /\ f.k = BlockSize
                            /\ f.crypt.data = Plain(Blocks(chain), BlockSize)
                            /\ f.crypt.chain = chain + 1
        /\ f.err = "EOF" => f.k = 0 /\ Left = 0
    BY <1>2, Fill
  <2>3. inbuf' = inbuf
    BY <1>2 DEF FromOutbuf
  <2>4. /\ chain \in Nat /\ rpos \in 0 .. len /\ len \in Nat /\ OutRun(out, <<>>, chain)
        /\ rpos' \in 0 .. len
    BY <1>2, <2>1, <2>2 DEF IInv, TypeInv, OutInv, Left
  <2>5. CASE f.err = "nil"
    <3> DEFINE b == Plain(Blocks(chain), BlockSize)
               k == Smaller(want, BlockSize)
    <3>1. /\ out' = Cat(out, Part(b, 1, k)) /\ outbuf' = Part(b, k + 1, BlockSize)
          /\ block' = b /\ chain' = chain + 1
      BY <2>1, <2>2, <2>5 DEF Cat, Part
    <3>2. b \in Seq(Byte) /\ Len(b) = BlockSize /\ k \in 0 .. BlockSize
      <4>1. Blocks(chain) \in Int
        BY <2>4, BlocksNat
      <4>2. b \in Seq(Byte) /\ Len(b) = BlockSize
        BY <4>1, RunType, BlockSizePos
      <4>3. k \in 0 .. BlockSize
        BY BlockSizePos DEF Smaller
      <4>4. QED
        BY <4>2, <4>3
    <3>3. OutRun(out, b, chain + 1)
      BY <2>4, NextRun, BlocksNat
    <3> HIDE DEF b, k
    <3>4. OutRun(out', outbuf', chain')
      BY <2>4, <3>1, <3>2, <3>3, HandOut
    <3>5. rpos' = Blocks(chain') + 0
      <4>1. rpos = Blocks(chain) + 0 /\ ret = "nil"
        BY <2>2, <2>5 DEF IInv, InInv
      <4>2. Blocks(chain + 1) = Blocks(chain) + BlockSize /\ Blocks(chain) \in Nat
        BY <2>4, BlocksNat
      <4>3. QED
        BY <2>1, <2>2, <2>5, <3>1, <4>1, <4>2, BlockSizePos
    <3>6. SubSeq(block', 1, 0) = Raw(Blocks(chain'), 0)
      BY DEF Raw
    <3>7. chain' \in Nat /\ block' \in Seq(Byte) /\ Len(block') = BlockSize
      BY <2>4, <3>1, <3>2
    <3>8. QED
      BY <2>1, <2>3, <2>4, <2>5, <3>4, <3>5, <3>6, <3>7, OutRunType
      DEF IInv, TypeInv, CoreInv, OutInv
  <2>6. CASE f.err # "nil"
    <3>1. UNCHANGED <<chain, block, outbuf, out>> /\ ret' = f.err
      BY <2>1, <2>6
    <3>2. ASSUME f.err = "EOF"
          PROVE  rpos = len /\ Len(out) = Whole(len)
      <4>1. rpos = len
        BY <2>2, <2>4, <3>2 DEF Left
      <4>2. QED
        BY <1>2, <4>1, EndOfBlocks DEF IInv, InInv
    <3>3. rpos' = rpos \/ f.err # "EOF"
      BY <2>1, <2>2, <2>4
    <3>4. QED
      BY <1>2, <2>2, <2>3, <2>4, <2>6, <3>1, <3>2, <3>3, OutRunType
      DEF IInv, TypeInv, CoreInv, OutInv
  <2>7. QED
    BY <2>5, <2>6
<1>3. QED
  BY <1>1, <1>2

(* A read of whole blocks into the caller's slice. *)
LargeRead(p) ==
  /\ outbuf = <<>> /\ p >= BlockSize
  /\ \E c \in ReadAtLeast(BlockSize - inbuf, Whole(p) - inbuf) :
       LET raw   == BlockWith(inbuf, c.k)
           whole == Whole(Len(raw))
           crypt == CryptBlocks(SubSeq(raw, 1, whole))
       IN /\ rpos' = rpos + c.k
          /\ ret' = c.err
          /\ \/ /\ c.err = "nil"
                /\ inbuf' = Keep(Len(raw))
                /\ block' = SubSeq(raw, whole + 1, Len(raw)) \o
                            SubSeq(block, Len(raw) - whole + 1, BlockSize)
                /\ chain' = crypt.chain
                /\ out' = out \o crypt.data
             \/ /\ c.err # "nil"
                /\ inbuf' = 0
                /\ UNCHANGED <<block, chain, out>>
  /\ UNCHANGED outbuf

(* Read goes one way or the other. *)
LEMMA ReadKinds ==
  ASSUME NEW p, Read(p)
  PROVE  \/ (outbuf # <<>> \/ p < BlockSize) /\ FromOutbuf(p)
         \/ LargeRead(p)
BY DEF Read, LargeRead

(* The whole blocks among the bytes at hand, and the rest of them. *)
LEMMA LargeKeeps ==
  ASSUME IInv, ret \in {"nil", "EOF"}, NEW p \in Nat, LargeRead(p),
         UNCHANGED <<len, caller>>
  PROVE  CoreInv'
<1>1. PICK c \in ReadAtLeast(BlockSize - inbuf, Whole(p) - inbuf) :
        LET raw   == BlockWith(inbuf, c.k)
            whole == Whole(Len(raw))
            crypt == CryptBlocks(SubSeq(raw, 1, whole))
        IN /\ rpos' = rpos + c.k
           /\ ret' = c.err
           /\ \/ /\ c.err = "nil"
                 /\ inbuf' = Keep(Len(raw))
                 /\ block' = SubSeq(raw, whole + 1, Len(raw)) \o
                             SubSeq(block, Len(raw) - whole + 1, BlockSize)
                 /\ chain' = crypt.chain
                 /\ out' = out \o crypt.data
              \/ /\ c.err # "nil"
                 /\ inbuf' = 0
                 /\ UNCHANGED <<block, chain, out>>
  BY DEF LargeRead
<1>2. /\ c.k \in 0 .. Left /\ c.err \in {"nil", "EOF", "ErrUnexpectedEOF", "io"}
      /\ c.err = "nil" <=> c.k >= BlockSize - inbuf
      /\ c.err = "EOF" => c.k = 0 /\ Left = 0
  <2>1. Whole(p) \in Nat /\ inbuf \in Nat /\ len \in Nat /\ rpos \in 0 .. len
    BY WholeBlocks, BlockSizePos DEF IInv, TypeInv
  <2>2. c.k \in 0 .. Smaller(Whole(p) - inbuf, Left)
    BY DEF ReadAtLeast
  <2>3. c.k \in 0 .. Left
    BY <2>1, <2>2 DEF Smaller, Left
  <2>4. QED
    BY <2>3 DEF ReadAtLeast
<1>3. /\ chain \in Nat /\ inbuf \in 0 .. BlockSize - 1 /\ inbuf \in Nat
      /\ len \in Nat /\ rpos \in 0 .. len /\ outbuf = <<>> /\ outbuf' = <<>>
      /\ OutRun(out, <<>>, chain) /\ Blocks(chain) \in Nat
      /\ block \in Seq(Byte) /\ Len(block) = BlockSize /\ BlockSize \in Nat
  <2>1. chain \in Nat /\ inbuf \in 0 .. BlockSize - 1 /\ outbuf = <<>>
    BY DEF IInv, TypeInv, LargeRead
  <2>2. QED
    BY <2>1, BlocksNat, BlockSizePos DEF IInv, TypeInv, OutInv, LargeRead
<1>4. rpos' \in 0 .. len
  BY <1>1, <1>2, <1>3 DEF Left
<1>5. CASE c.err = "nil"
  <2> DEFINE n == inbuf + c.k
             raw == Raw(Blocks(chain), n)
             w == Whole(n)
             r == Keep(n)
             d == w \div BlockSize
  <2>1. n \in Nat /\ c.k \in Nat /\ c.k > 0
    BY <1>2, <1>3, <1>5
  <2>2. ret = "nil"
    BY <1>2, <1>3, <2>1 DEF IInv, InInv, Left
  <2>3. BlockWith(inbuf, c.k) = raw
    BY <2>1, <2>2, BlockWithRun DEF IInv
  <2> HIDE DEF n
  <2>4. raw \in Seq(Byte) /\ Len(raw) = n
    <3>1. Blocks(chain) \in Int
      BY <1>3
    <3>2. QED
      BY <2>1, <3>1, RunType
  <2>5. /\ r \in 0 .. BlockSize - 1 /\ w \in 0 .. n /\ n = w + r
        /\ d \in Nat /\ Blocks(d) = w
    BY <2>1, WholeBlocks
  <2>6. /\ inbuf' = r
        /\ block' = Cat(Part(raw, w + 1, n), Part(block, n - w + 1, BlockSize))
        /\ chain' = CryptBlocks(Part(raw, 1, w)).chain
        /\ out' = Cat(out, CryptBlocks(Part(raw, 1, w)).data)
    BY <1>1, <1>5, <2>3, <2>4 DEF Cat, Part
  <2> HIDE DEF raw, w, r, d
  <2>7. Part(raw, 1, w) = Raw(Blocks(chain), w)
    BY <1>3, <2>1, <2>5, RunPart DEF raw
  <2>8. Part(raw, w + 1, n) = Raw(Blocks(chain) + w, r)
    BY <1>3, <2>1, <2>5, RunPart DEF raw
  <2>9. /\ chain' = chain + d
        /\ out' = Cat(out, Plain(Blocks(chain), Blocks(d)))
    <3>1. w \in Nat
      BY <2>1, <2>5
    <3>2. QED
      BY <1>3, <2>5, <2>6, <2>7, <3>1, CryptNext DEF d
  <2>10. OutRun(out', outbuf', chain')
    BY <1>3, <2>5, <2>9, NextRun
  <2>11. chain' \in Nat /\ Blocks(chain') = Blocks(chain) + w
    BY <1>3, <2>5, <2>9, BlocksNat
  <2>12. rpos' = Blocks(chain') + inbuf'
    <3>1. rpos = Blocks(chain) + inbuf
      BY <2>2 DEF IInv, InInv
    <3>2. rpos' = rpos + c.k /\ n = inbuf + c.k
      BY <1>1 DEF n
    <3>3. /\ Blocks(chain) \in Nat /\ inbuf \in Nat /\ c.k \in Nat /\ r \in Nat
          /\ w \in Nat /\ n = w + r /\ inbuf' = r /\ Blocks(chain') = Blocks(chain) + w
      BY <1>3, <2>1, <2>5, <2>6, <2>11
    <3>4. QED
      BY ONLY <3>1, <3>2, <3>3
  <2>13. /\ block' \in Seq(Byte) /\ Len(block') = BlockSize
         /\ SubSeq(block', 1, inbuf') = Raw(Blocks(chain'), inbuf')
    <3> DEFINE a == Raw(Blocks(chain'), r)
               b == Part(block, r + 1, BlockSize)
    <3>1. block' = Cat(a, b)
      BY <2>5, <2>6, <2>8, <2>11
    <3>2. a \in Seq(Byte) /\ Len(a) = r
      <4>1. Blocks(chain') \in Int /\ r \in Nat
        BY <1>3, <2>5, <2>11, BlocksNat
      <4>2. QED
        BY <4>1, RunType
    <3>3. b \in Seq(Byte) /\ Len(b) = BlockSize - r
      <4>1. /\ r + 1 \in 1 .. Len(block) + 1 /\ BlockSize \in 0 .. Len(block)
            /\ r + 1 <= BlockSize + 1 /\ BlockSize - (r + 1) + 1 = BlockSize - r
        BY <1>3, <2>5
      <4>2. QED
        BY <1>3, <4>1, PartType
    <3> HIDE DEF a, b
    <3>4. /\ block' \in Seq(Byte) /\ Len(block') = BlockSize
          /\ \A j \in 1 .. r : block'[j] = a[j]
      <4>1. /\ Cat(a, b) \in Seq(Byte) /\ Len(Cat(a, b)) = Len(a) + Len(b)
            /\ \A j \in 1 .. Len(a) : Cat(a, b)[j] = a[j]
        BY <3>2, <3>3, CatType
      <4>2. r + (BlockSize - r) = BlockSize
        BY <1>3, <2>5
      <4>3. QED
        BY <3>1, <3>2, <3>3, <4>1, <4>2
    <3>5. SubSeq(block', 1, r) = a
      <4> DEFINE s == SubSeq(block', 1, r)
      <4>1. s \in Seq(Byte) /\ Len(s) = r /\ \A j \in 1 .. r : s[j] = block'[j]
        BY <1>3, <2>5, <3>4
      <4> HIDE DEF s
      <4>2. s = a
        BY <3>2, <3>4, <4>1, SeqEqual
      <4>3. QED
        BY <4>2 DEF s
    <3>6. QED
      BY <2>6, <3>4, <3>5 DEF a
  <2>14. ret' = "nil" /\ inbuf' \in 0 .. BlockSize - 1
    BY <1>1, <1>5, <2>5, <2>6
  <2>15. QED
    BY <1>3, <1>4, <2>10, <2>11, <2>12, <2>13, <2>14 DEF IInv, TypeInv, CoreInv, OutInv
<1>6. CASE c.err # "nil"
  <2>1. UNCHANGED <<chain, block, out>> /\ inbuf' = 0 /\ ret' = c.err
    BY <1>1, <1>6
  <2>2. ASSUME c.err = "EOF"
        PROVE  rpos = len /\ rpos' = rpos /\ Len(out) = Whole(len)
    <3>1. rpos = len /\ rpos' = rpos
      BY <1>1, <1>2, <1>3, <2>2 DEF Left
    <3>2. QED
      BY <1>3, <3>1, EndOfBlocks DEF IInv, InInv
  <2>3. QED
    BY <1>2, <1>3, <1>4, <1>6, <2>1, <2>2 DEF IInv, TypeInv, CoreInv, OutInv
<1>7. QED
  BY <1>5, <1>6
-----------------------------------------------------------------------------
(* Initially nothing is read and nothing is out. *)
LEMMA InitIInv == Init => IInv
<1> SUFFICES ASSUME Init PROVE IInv
  OBVIOUS
<1>1. block \in Seq(Byte) /\ Len(block) = BlockSize
  BY BlockSizePos, RunType DEF Init
<1>2. <<>> = Plain(0, 0) /\ SubSeq(block, 1, 0) = Raw(0, 0)
  BY <1>1 DEF Plain, Raw
<1>3. OutRun(out, outbuf, chain)
  <2>1. out = Plain(0, 0) /\ outbuf = Plain(0, 0) /\ 0 + 0 = Blocks(chain)
    BY <1>2, BlocksNat DEF Init
  <2>2. QED
    BY <2>1 DEF OutRun
<1>4. rpos = Blocks(chain) + inbuf
  BY BlocksNat DEF Init
<1>5. SubSeq(block, 1, inbuf) = Raw(Blocks(chain), inbuf)
  BY <1>2, BlocksNat DEF Init
<1>6. len \in Nat /\ caller \in Callers /\ 0 \in 0 .. BlockSize - 1
  BY SizeAssumption DEF Init
<1>7. QED
  BY <1>1, <1>3, <1>4, <1>5, <1>6 DEF Init, IInv, TypeInv, OutInv, InInv

(* No call breaks the invariant unless it fills outbuf behind inbuf. *)
LEMMA NextIInv == IInv /\ [Next]_vars /\ [Aligned]_vars => IInv'
<1> SUFFICES ASSUME IInv, Next, Aligned PROVE IInv'
  <2>1. CASE UNCHANGED vars
    BY <2>1 DEF vars, cr, IInv, TypeInv, InInv, OutInv, OutRun, Whole
  <2>2. QED
    BY <2>1
<1> USE DEF Running
<1>1. CASE ReadByte
  <2>1. inbuf = 0 /\ todo = 0 /\ todo' = 0 /\ ret \in {"nil", "EOF"}
    BY <1>1 DEF ReadByte, Aligned, SmallCall
  <2>2. CoreInv'
    BY <1>1, <2>1, SmallKeeps, 1 \in Nat, 1 > 0 DEF ReadByte
  <2>3. QED
    BY <2>1, <2>2
    DEF IInv, TypeInv, InInv, CoreInv
<1>2. ASSUME NEW p \in caller.reads, Read(p)
      PROVE  IInv'
  <2>1. /\ todo = 0 /\ todo' = 0 /\ ret \in {"nil", "EOF"} /\ p \in Nat /\ p > 0
        /\ UNCHANGED <<len, caller>>
    BY <1>2, SizeAssumption DEF Read, IInv, TypeInv
  <2>2. CASE (outbuf # <<>> \/ p < BlockSize) /\ FromOutbuf(p)
    <3>1. inbuf = 0
      BY <1>2, <2>2 DEF Aligned, SmallCall, IInv, InInv
    <3>2. CoreInv'
      BY <2>1, <2>2, <3>1, SmallKeeps
    <3>3. QED
      BY <2>1, <3>2
    DEF IInv, TypeInv, InInv, CoreInv
  <2>3. CASE LargeRead(p)
    <3>1. CoreInv'
      BY <2>1, <2>3, LargeKeeps
    <3>2. QED
      BY <2>1, <3>1
    DEF IInv, TypeInv, InInv, CoreInv
  <2>4. QED
    BY <1>2, <2>2, <2>3, ReadKinds
<1>3. ASSUME NEW m \in caller.writes, writeToN(m)
      PROVE  IInv'
  <2>1. m \in Int
    BY SizeAssumption DEF IInv, TypeInv
  <2>2. QED
    BY <1>3, <2>1
    DEF writeToN, cr, IInv, TypeInv, InInv, OutInv, OutRun, Whole
<1>4. CASE WriteStep
  <2> DEFINE want == IF todo > 0 THEN todo ELSE BlockSize
  <2>1. /\ inbuf = 0 /\ ret \in {"nil", "EOF"} /\ want \in Nat /\ want > 0
        /\ FromOutbuf(want) /\ UNCHANGED <<len, caller>> /\ todo \in Int
    BY <1>4, BlockSizePos DEF WriteStep, Aligned, SmallCall, IInv, TypeInv, InInv
  <2> HIDE DEF want
  <2>2. CoreInv' /\ out' \in Seq(Byte)
    BY <2>1, SmallKeeps
  <2>3. out \in Seq(Byte)
    BY OutRunType DEF IInv, TypeInv, OutInv
  <2>4. todo' \in Int /\ (todo' # 0 => ret' = "nil")
    BY <1>4, <2>1, <2>2, <2>3 DEF WriteStep
  <2>5. QED
    BY <2>2, <2>4
    DEF IInv, TypeInv, InInv, CoreInv
<1>5. QED
  BY <1>1, <1>2, <1>3, <1>4 DEF Next

(* The inductive invariant: what is out and left over is plaintext, and    *)
(* the input goes on where the last decrypted block and inbuf end.         *)
THEOREM Invariance == Spec /\ [][Aligned]_vars => []IInv
<1>1. Init => IInv
  BY InitIInv
<1>2. IInv /\ [Next]_vars /\ [Aligned]_vars => IInv'
  BY NextIInv
<1>3. QED
  BY <1>1, <1>2, PTL DEF Spec

(* What the invariant says of the caller's bytes. *)
LEMMA IInvOutput == IInv => OutputIsPlaintext
<1> SUFFICES ASSUME IInv PROVE OutputIsPlaintext
  OBVIOUS
<1>1. chain \in Nat /\ OutRun(out, outbuf, chain)
  BY DEF IInv, TypeInv, OutInv
<1>2. out = Plain(0, Len(out))
  BY <1>1, OutRunType
<1>3. QED
  BY <1>2 DEF IInv, InInv, OutputIsPlaintext

(* Callers get the plaintext, from its start and without a gap, and EOF    *)
(* when every whole block is out, if no call fills outbuf while inbuf      *)
(* holds a part of a block (fillOutbuf would leave it there).              *)
THEOREM AlignedPlaintext == Spec /\ [][Aligned]_vars => []OutputIsPlaintext
BY Invariance, IInvOutput, PTL

(* What a caller of one kind does: small reads leave nothing in inbuf, and *)
(* large ones nothing in outbuf.                                           *)
KindInv ==
  /\ caller \in Callers
  /\ \/ inbuf = 0 /\ \A p \in caller.reads : p < BlockSize
     \/ /\ todo = 0 /\ caller.writes = {} /\ ~caller.bytes
        /\ \A p \in caller.reads : p >= BlockSize

(* A caller of one kind never fills outbuf behind inbuf. *)
LEMMA KindAligned ==
  ASSUME OneKind
  PROVE  /\ Init => KindInv
         /\ KindInv /\ [Next]_vars => KindInv'
         /\ KindInv => Aligned
<1>1. Init => KindInv
  BY DEF Init, KindInv, OneKind
<1>2. ASSUME KindInv, [Next]_vars PROVE KindInv'
  <2>1. caller' = caller
    BY <1>2 DEF Next, vars, ReadByte, Read, writeToN, WriteStep
  <2>2. CASE inbuf = 0 /\ \A p \in caller.reads : p < BlockSize
    <3>1. \A p \in caller.reads : p \in Nat
      BY <1>2, SizeAssumption DEF KindInv
    <3>2. ASSUME NEW w, FromOutbuf(w) PROVE inbuf' = inbuf
      BY ONLY <3>2 DEF FromOutbuf
    <3>3. inbuf' = inbuf
      <4>1. CASE ReadByte
        BY ONLY <3>2, <4>1 DEF ReadByte
      <4>2. CASE \E p \in caller.reads : Read(p)
        <5>1. PICK p \in caller.reads : Read(p)
          BY <4>2
        <5>2. p \in Nat /\ p < BlockSize
          BY ONLY <2>2, <3>1, <5>1
        <5>3. ~(p >= BlockSize)
          BY ONLY <5>2, BlockSizePos
        <5>4. FromOutbuf(p)
          BY ONLY Zenon, <5>1, <5>3 DEF Read
        <5>5. QED
          BY ONLY <3>2, <5>4
      <4>3. CASE \E m \in caller.writes : writeToN(m)
        BY ONLY <4>3 DEF writeToN, cr
      <4>4. CASE WriteStep
        BY ONLY <3>2, <4>4 DEF WriteStep
      <4>5. CASE UNCHANGED vars
        BY ONLY <4>5 DEF vars, cr
      <4>6. QED
        BY ONLY Zenon, <1>2, <4>1, <4>2, <4>3, <4>4, <4>5 DEF Next
    <3>4. QED
      BY <1>2, <2>1, <2>2, <3>3 DEF KindInv
  <2>3. CASE /\ todo = 0 /\ caller.writes = {} /\ ~caller.bytes
             /\ \A p \in caller.reads : p >= BlockSize
    <3>1. todo' = todo
      BY <1>2, <2>3 DEF Next, vars, ReadByte, Read, writeToN, WriteStep
    <3>2. QED
      BY <1>2, <2>1, <2>3, <3>1 DEF KindInv
  <2>4. QED
    BY <1>2, <2>2, <2>3 DEF KindInv
<1>3. ASSUME KindInv PROVE Aligned
  <2>1. \A p \in caller.reads : p \in Nat
    BY <1>3, SizeAssumption DEF KindInv
  <2>2. QED
    <3>1. CASE inbuf = 0
      BY <3>1 DEF Aligned
    <3>2. CASE /\ todo = 0 /\ caller.writes = {} /\ ~caller.bytes
               /\ \A p \in caller.reads : p >= BlockSize
      <4>1. ~ReadByte /\ ~WriteStep
        BY ONLY <3>2 DEF ReadByte, WriteStep
      <4>2. \A p \in caller.reads : ~(p < BlockSize)
        BY ONLY <2>1, <3>2, BlockSizePos
      <4>3. QED
        BY ONLY Zenon, <4>1, <4>2 DEF Aligned, SmallCall
    <3>3. QED
      BY <1>3, <3>1, <3>2 DEF KindInv
<1>4. QED
  BY <1>1, <1>2, <1>3

(* Callers that read in slices shorter than a block (the decoders, byte by *)
(* byte), or in slices of a block and more only, get the plaintext,        *)
(* whatever the input and however it arrives.                              *)
THEOREM Plaintext ==
  ASSUME OneKind
  PROVE  Spec => []OutputIsPlaintext
<1>1. Init => KindInv
  BY KindAligned
<1>2. KindInv /\ [Next]_vars => KindInv'
  BY KindAligned
<1>3. KindInv => Aligned
  BY KindAligned
<1>4. Spec => [][Aligned]_vars
  BY <1>1, <1>2, <1>3, PTL DEF Spec
<1>5. QED
  BY <1>4, AlignedPlaintext, PTL
=============================================================================
