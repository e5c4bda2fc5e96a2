---------------------------- MODULE ArchiveHeaders ----------------------------
(***************************************************************************)
(* Block headers of an archive, volume by volume (archive15.go,            *)
(* archive50.go, and the calls of volume.go that drive them): the          *)
(* encryption of headers, the cache of keys, archive, file and end blocks. *)
(*                                                                         *)
(* A volume is [ver, units].  A unit is what is read at a time:            *)
(*   [u |-> "salt", salt]   in front of an encrypted header; the iv of a   *)
(*                          RAR 5 header is such a unit too                *)
(*   [u |-> "head", key, good, fits, type, data, ...]  a header, the key   *)
(*                          it is encrypted with, whether its checksum is  *)
(*                          right and its sizes fit, and whether block     *)
(*                          data follows                                   *)
(*   [u |-> "data"]         the data of a block                            *)
(* Each has a field cut: the volume ends within the unit.  Read with a     *)
(* wrong key, or at the place of another unit, a header has a wrong        *)
(* checksum.                                                               *)
(***************************************************************************)
EXTENDS Naturals, Integers, Sequences, SequencesExt, FiniteSets

CONSTANTS
  Archives,    \* sequences of volumes
  Passwords,   \* what the caller may give: passwords, or None
  None,
  CacheSize    \* 4: cacheSize30 and cacheSize50

ASSUME HeadersAssumption ==
  /\ CacheSize \in Nat \ {0}
  /\ \A a \in Archives : /\ Len(a) \in Nat \ {0}
                         /\ \A n \in 1 .. Len(a) : Len(a[n].units) \in Nat

VARIABLES
  vols, pass, seekable,   \* the archive, the password, and whether its files can seek
  num,                    \* the volume that is read, from 0
  pos,                    \* the unit to read next
  rest,                   \* the data of a block is still to be skipped
  multi, solid,
  blockKey,               \* archive50: the key of headers, or None
  encrypted,              \* archive15: headers are encrypted
  keyCache,
  status,                 \* "open", "next", "EOF", or an error
  got                     \* history: the file block headers returned, and where
                          \* they are: the volume, from 1, and the unit

arc == <<multi, solid, blockKey, encrypted, keyCache>>
hdrVars == <<vols, pass, seekable, num, pos, rest, arc, status, got>>

HeadersInit ==
  /\ vols \in Archives /\ pass \in Passwords /\ seekable \in BOOLEAN
  /\ num = 0 /\ pos = 1 /\ rest = FALSE
  /\ multi = FALSE /\ solid = FALSE /\ blockKey = None /\ encrypted = FALSE
  /\ keyCache = <<>>
  /\ status = "open" /\ got = <<>>

Units == vols[num + 1].units
IsV5 == vols[1].ver = 50
-----------------------------------------------------------------------------
(* Keys.  What is calculated from a password, a salt and a count is        *)
(* distinct for distinct ones (calcKeys50, calcAes30Params).               *)
KeyOf(p, salt, kdf) == [p |-> p, salt |-> salt, kdf |-> kdf]

First(S) == CHOOSE i \in S : \A j \in S : i <= j

\* seeded bug: the count is not part of what is looked up
LookUpSalt(cache, salt, kdf) ==
  LET hits == {i \in 1 .. Len(cache) : cache[i].salt = salt}
      new == KeyOf(pass, salt, kdf)
      kept == IF Len(cache) = CacheSize THEN Front(cache) ELSE cache
  IN IF hits # {} THEN [key |-> cache[First(hits)], cache |-> cache]
     ELSE [key |-> new, cache |-> <<new>> \o kept]

\* getKeys: the keys, and the cache afterwards
LookUp(cache, salt, kdf) ==
  LET hits == {i \in 1 .. Len(cache) : cache[i].salt = salt /\ cache[i].kdf = kdf}
      new == KeyOf(pass, salt, kdf)
      kept == IF Len(cache) = CacheSize THEN Front(cache) ELSE cache
  IN IF hits # {} THEN [key |-> cache[First(hits)], cache |-> cache]
     ELSE [key |-> new, cache |-> <<new>> \o kept]

\* RAR 1.5 has no count
getKeys15(cache, salt) == LookUp(cache, salt, 0)

\* the check value of a password; a record without one has check = None
Refuses(check, key) == check # None /\ check # key.p
-----------------------------------------------------------------------------
(* readBlockHeader: [err, head, pos, cache].                               *)
ReadUnit(p, u) ==
  IF p > Len(Units) THEN "EOF"
  ELSE IF Units[p].cut THEN "ErrUnexpectedEOF"
  ELSE IF Units[p].u = u THEN "ok" ELSE "other"

NoHead == [type |-> "none"]
Fails(err, p, cache) == [err |-> err, head |-> NoHead, pos |-> p, cache |-> cache]

\* the header at p, which key should open
HeadAt(p, key, cache) ==
  LET r == ReadUnit(p, "head")
      h == Units[p]
  IN IF r \in {"EOF", "ErrUnexpectedEOF"} THEN Fails(r, p, cache)
     ELSE IF r = "other" \/ h.key # key \/ ~h.good THEN Fails("ErrBadHeaderCRC", p, cache)
     ELSE IF ~h.fits THEN Fails("ErrCorruptBlockHeader", p, cache)
     ELSE [err |-> "ok", head |-> h, pos |-> p + 1, cache |-> cache]

\* an end within an encrypted header is no end of the volume
readBlockHeader15(isEncrypted) ==
  LET r == ReadUnit(pos, "salt")
      k == getKeys15(keyCache, Units[pos].salt)
      h == HeadAt(pos + 1, k.key, k.cache)
  IN IF ~isEncrypted THEN HeadAt(pos, None, keyCache)
     ELSE IF r \in {"EOF", "ErrUnexpectedEOF"} THEN Fails(r, pos, keyCache)
     ELSE IF r = "other" THEN Fails("ErrBadHeaderCRC", pos, keyCache)
     ELSE IF h.err = "EOF" THEN [h EXCEPT !.err = "ErrUnexpectedEOF"] ELSE h

\* seeded bug: the end of the volume is passed on as it is
MayReadBlockHeader(p, key) ==
  LET r == ReadUnit(p, "salt")
  IN IF key = None THEN HeadAt(p, None, keyCache)
     ELSE IF r # "ok" THEN Fails(IF r = "other" THEN "ErrBadHeaderCRC" ELSE r, p, keyCache)
     ELSE HeadAt(p + 1, key, keyCache)

\* RAR 5 volumes have an end block
mustReadBlockHeader(p, key) ==
  LET r == ReadUnit(p, "salt")
      h == IF key = None THEN HeadAt(p, None, keyCache)
           ELSE IF r # "ok" THEN Fails(IF r = "other" THEN "ErrBadHeaderCRC" ELSE r, p, keyCache)
           ELSE HeadAt(p + 1, key, keyCache)
  IN IF h.err = "EOF" THEN [h EXCEPT !.err = "ErrUnexpectedEOF"] ELSE h
-----------------------------------------------------------------------------
(* init: the first headers of a volume.  Each ends in Opened with what it  *)
(* has read: an error or the archive block, and the key and the cache.     *)
Opened(err, h, key, cache) ==
  LET flagged == h.err = "ok" /\ h.head.type = "arc"
      bad == h.head.volnum >= 0 /\ h.head.volnum # num
  IN /\ status' = IF err # "ok" THEN err ELSE IF bad THEN "ErrBadVolumeNumber" ELSE "next"
     /\ pos' = h.pos
     /\ multi' = IF flagged THEN h.head.multi ELSE multi
     /\ solid' = IF flagged THEN h.head.solid ELSE solid
     /\ blockKey' = key
     /\ keyCache' = cache

\* parseArcBlock sets the flags before it asks for a password
init15 ==
  LET h == readBlockHeader15(FALSE)
      isArc == h.err = "ok" /\ h.head.type = "arc"
      locked == isArc /\ h.head.encrypted /\ pass = None
      err == IF h.err = "EOF" THEN "ErrUnexpectedEOF"
             ELSE IF h.err # "ok" THEN h.err
             ELSE IF ~isArc THEN "ErrNoArchiveBlock"
             ELSE IF locked THEN "ErrArchiveEncrypted" ELSE "ok"
  IN /\ Opened(err, h, None, h.cache)
     /\ encrypted' = (isArc /\ h.head.encrypted)

\* archive50's archive block, at p
ArcBlock(p, key, cache) ==
  LET h == mustReadBlockHeader(p, key)
  IN Opened(IF h.err # "ok" THEN h.err ELSE IF h.head.type # "arc" THEN "ErrNoArchiveBlock" ELSE "ok",
            h, key, cache)

\* parseEncryptionBlock
EncryptionError(h, key) ==
  IF pass = None THEN "ErrArchiveEncrypted"
  ELSE IF ~h.known THEN "ErrUnknownEncryptMethod"
  ELSE IF Refuses(h.check, key) THEN "ErrBadPassword" ELSE "ok"

\* seeded bug: the key of the volume before is still used
Init50Stale ==
  LET h == mustReadBlockHeader(pos, blockKey)
      k == LookUp(keyCache, h.head.salt, h.head.kdf)
  IN /\ UNCHANGED encrypted
     /\ IF h.err # "ok" \/ h.head.type # "encrypt" THEN ArcBlock(pos, blockKey, keyCache)
        ELSE ArcBlock(h.pos, k.key, k.cache)

init50 ==
  LET h == mustReadBlockHeader(pos, None)
      k == LookUp(keyCache, h.head.salt, h.head.kdf)
      err == EncryptionError(h.head, k.key)
      tried == pass # None /\ h.head.known
  IN /\ UNCHANGED encrypted
     /\ IF h.err # "ok" \/ h.head.type # "encrypt" THEN ArcBlock(pos, None, keyCache)
        ELSE IF err # "ok" THEN Opened(err, h, None, IF tried THEN k.cache ELSE keyCache)
        ELSE ArcBlock(h.pos, k.key, k.cache)

(* readerVolume.init *)
OpenVolume ==
  /\ status = "open"
  /\ IF vols[num + 1].ver # vols[1].ver
     THEN /\ status' = "ErrVerMismatch"
          /\ UNCHANGED <<pos, arc>>
     ELSE IF IsV5 THEN init50 ELSE init15
  /\ UNCHANGED <<vols, pass, seekable, num, rest, got>>
-----------------------------------------------------------------------------
(* nextBlock, one header at a time.                                        *)

\* readerVolume.nextBlock and the loops skip data before they read on; a
\* seek beyond the end of the volume is not noticed
Discard ==
  /\ status = "next" /\ rest
  /\ LET whole == pos <= Len(Units) /\ ~Units[pos].cut
     IN /\ status' = IF whole \/ seekable THEN status ELSE "EOF"
        /\ pos' = IF whole THEN pos + 1 ELSE Len(Units) + 1
  /\ rest' = FALSE
  /\ UNCHANGED <<vols, pass, seekable, num, arc, got>>

\* the decoder a first block asks for
DecoderError(h) ==
  IF ~h.first \/ h.method \in {"stored", "20", "29", "50", "70"} THEN "ok"
  ELSE IF h.method = "15" THEN "ErrUnsupportedDecoder" ELSE "ErrUnknownDecoder"

FileOf(r, key, hashKey, locked) ==
  LET h == r.head IN
  [at |-> <<num + 1, r.pos - 1>>, name |-> h.name, first |-> h.first, last |-> h.last,
   solid |-> solid, key |-> key, hashKey |-> hashKey, locked |-> locked]

\* what the file header of r gives: [err, file, cache]; a salt gives the keys
parseFileHeader15(r) ==
  LET h == r.head
      wanted == h.first /\ h.enc # None /\ pass # None
      k == getKeys15(r.cache, h.enc.salt)
  IN [err |-> DecoderError(h),
      file |-> FileOf(r, IF wanted THEN k.key ELSE None, None, "no"),
      cache |-> IF wanted THEN k.cache ELSE r.cache]

\* parseFileEncryptionRecord: keys are wanted for the first block, and for
\* the last one if the checksum needs them
Wanted(h) ==
  /\ h.enc # None /\ pass # None
  /\ h.enc.known /\ (h.first \/ (h.last /\ h.enc.mac))

\* an unknown method or a wrong password is an error of the file alone
parseFileHeader50(r) ==
  LET h == r.head
      k == LookUp(r.cache, h.enc.salt, h.enc.kdf)
      unknown == h.enc # None /\ ~h.enc.known
      refused == Wanted(h) /\ Refuses(h.enc.check, k.key)
      has == Wanted(h) /\ ~refused
  IN [err |-> DecoderError(h),
      file |-> FileOf(r, IF has THEN k.key ELSE None,
                      IF has /\ h.enc.mac THEN k.key ELSE None,
                      IF unknown THEN "ErrUnknownEncryptMethod"
                      ELSE IF refused THEN "ErrBadPassword" ELSE "no"),
      cache |-> IF Wanted(h) /\ DecoderError(h) = "ok" THEN k.cache ELSE r.cache]

ReadBlock == IF IsV5 THEN mustReadBlockHeader(pos, blockKey) ELSE readBlockHeader15(encrypted)

\* seeded bug: a missing volume is the end also where one was announced
NextVolumeOrEnd(end) ==
  IF num + 1 < Len(vols) THEN num' = num + 1 /\ pos' = 1 /\ status' = "open"
  ELSE status' = "EOF" /\ UNCHANGED <<num, pos>>

\* fileVolume.nextBlock: the next volume, if there is one
NextVolume(end) ==
  IF num + 1 < Len(vols) THEN num' = num + 1 /\ pos' = 1 /\ status' = "open"
  ELSE status' = (IF end THEN "EOF" ELSE "ErrNotExist") /\ UNCHANGED <<num, pos>>

NextBlock ==
  /\ status = "next" /\ ~rest
  /\ LET h == ReadBlock
         f == IF IsV5 THEN parseFileHeader50(h) ELSE parseFileHeader15(h)
     IN IF h.err # "ok"
        THEN /\ IF ~IsV5 /\ h.err = "EOF" THEN NextVolume(TRUE)
                ELSE status' = h.err /\ UNCHANGED <<num, pos>>
             /\ keyCache' = h.cache
             /\ UNCHANGED <<rest, got>>
        ELSE CASE h.head.type = "file" ->
                    /\ status' = IF f.err = "ok" THEN status ELSE f.err
                    /\ got' = IF f.err = "ok" THEN Append(got, f.file) ELSE got
                    /\ keyCache' = f.cache
                    /\ rest' = h.head.data /\ pos' = h.pos
                    /\ UNCHANGED num
               [] h.head.type = "end" ->
                    /\ IF ~h.head.notLast \/ ~multi
                       THEN status' = "EOF" /\ UNCHANGED <<num, pos>>
                       ELSE NextVolume(FALSE)
                    /\ keyCache' = h.cache
                    /\ UNCHANGED <<rest, got>>
               [] OTHER ->
                    /\ rest' = h.head.data /\ pos' = h.pos
                    /\ keyCache' = h.cache
                    /\ UNCHANGED <<status, num, got>>
  /\ UNCHANGED <<vols, pass, seekable, multi, solid, blockKey, encrypted>>

Over == status \notin {"open", "next"}
End == Over /\ UNCHANGED hdrVars

HeadersNext == OpenVolume \/ Discard \/ NextBlock \/ End

HeadersSpec == HeadersInit /\ [][HeadersNext]_hdrVars
-----------------------------------------------------------------------------
(* The keys of a file are the ones of its own salt and count, whichever    *)
(* keys the cache held and lost before; with a password that the check in  *)
(* the header refutes the file is locked and has no key, also when the     *)
(* keys were in the cache (getKeys, parseFileEncryptionRecord).            *)
KeysRight ==
  \A i \in 1 .. Len(got) :
    LET h == vols[got[i].at[1]].units[got[i].at[2]]
        its == KeyOf(pass, h.enc.salt, IF IsV5 THEN h.enc.kdf ELSE 0)
        refuted == IsV5 /\ h.enc.check \notin {None, pass}
    IN h.enc # None /\ h.enc.known /\ pass # None =>
         /\ h.first => got[i].key = IF refuted THEN None ELSE its
         /\ IsV5 /\ h.enc.mac /\ (h.first \/ h.last) =>
              got[i].hashKey = IF refuted THEN None ELSE its
         /\ (h.first /\ refuted) => got[i].locked = "ErrBadPassword"

(* What a writer sees to, and no damage at the end of a volume changes:    *)
(* data follows the headers that announce it, an end block is the last in  *)
(* its volume, and the last volume is the only one that may say so.        *)
Written(us, isLast) ==
  \A k \in 1 .. Len(us) :
    /\ us[k].cut => k = Len(us)
    /\ us[k].u = "head" =>
         /\ us[k].data /\ k < Len(us) => us[k + 1].u = "data"
         /\ us[k].type = "end" => k = Len(us) /\ (us[k].notLast \/ isLast)
         /\ us[k].type = "arc" => us[k].multi \/ isLast
WellWritten == \A n \in 1 .. Len(vols) : Written(vols[n].units, n = Len(vols))

IsFile(x) == x.u = "head" /\ x.type = "file"
Earlier(a, b) == a[1] < b[1] \/ (a[1] = b[1] /\ a[2] < b[2])

(* A volume that ends in an end block; one that ends within a header; one  *)
(* that lacks some of its last data.                                       *)
Marked(us) == us # <<>> /\ Last(us).u = "head" /\ Last(us).type = "end" /\ ~Last(us).cut
CutInHeader(us) == us # <<>> /\ (Last(us).u = "salt" \/ (Last(us).u = "head" /\ Last(us).cut))
LacksData(us) == us # <<>> /\ IF Last(us).u = "head" THEN Last(us).data ELSE Last(us).cut

\* the end block announces another volume, in one of several
SaysMore(us) ==
  /\ Marked(us) /\ Last(us).notLast
  /\ \A k \in 1 .. Len(us) : us[k].u = "head" /\ us[k].type = "arc" => us[k].multi

(* No archive looks complete when it is not, wherever a volume of it ends  *)
(* early: EOF is reported only after each file block of every volume that  *)
(* is there has been returned, once and in order; every volume of RAR 5    *)
(* has its end block then, none of RAR 1.5 ends within a header, and the   *)
(* last one does not announce another.  That volumes are missing behind    *)
(* one of RAR 1.5 without an end block is not noticed ("assume end of      *)
(* archive", fileVolume.nextBlock); data that is cut off and skipped       *)
(* without a seek ends the archive (README).                               *)
CleanEndIsWhole ==
  status = "EOF" /\ WellWritten /\ (seekable \/ ~\E n \in 1 .. Len(vols) : LacksData(vols[n].units)) =>
    /\ \A n \in 1 .. Len(vols) : \A k \in 1 .. Len(vols[n].units) :
         IsFile(vols[n].units[k]) => \E i \in 1 .. Len(got) : got[i].at = <<n, k>>
    /\ \A i, j \in 1 .. Len(got) : i < j => Earlier(got[i].at, got[j].at)
    /\ \A n \in 1 .. Len(vols) :
         IF IsV5 THEN Marked(vols[n].units) ELSE ~CutInHeader(vols[n].units)
    /\ ~SaysMore(vols[Len(vols)].units)
=============================================================================
