# A TLA+ specification of rardecode

rardecode is a Go library that reads RAR archives (versions 1.5 to 7) from an
`io.Reader`, from volume files or as an `fs.FS`. This directory has TLA+ modules
for its readers, TLC configurations that check them, and TLAPS proofs.
Line numbers are those of the sources in `src/`. The repository has no tests, so
what the code promises is taken from its comments, its error texts and the
package documentation of the options.

## 1. Inventory

The library is a stack of readers. A call of `Read` goes down the stack; the way
from file to file (`Next`) goes down it as well.

| part (source) | state it keeps | operations |
|---|---|---|
| `bufVolumeReader` (bufio.go) | buffer, index, offset in the volume, a pending error | Read, ReadByte, Discard, seek, writeToN, Reset, findSig |
| `cipherBlockReader` (decrypt_reader.go) | raw rest of a block, decrypted rest, CBC chain | Read, ReadByte, writeToN |
| `archive15`, `archive50` (archive15.go, archive50.go) | multi-volume, solid and encryption flags, key of headers, key cache | init, readBlockHeader, getKeys, nextBlock |
| `readerVolume`, `fileVolume` (volume.go) | volume number, bytes left in the block, file handle | init, nextBlock, Read, openBlock, open, Close |
| `volumeManager` (volume.go) | names of the volumes, naming scheme, a mutex | openVolumeFile, tryNewName, Files |
| `packedFileReader`, `packedFileReadSeeker`, `fileBlockList` (reader.go) | current block header, offset, list of blocks | Read, ReadByte, writeToN, nextBlock, nextFile, Seek |
| `decodeReader` (decode_reader.go) | window, read and write index, filter queue, output buffer, error | init, fill, Read, ReadByte, writeToN, queueFilter, copyBytes, nextFile |
| `rarBitReader`, `rar5BitReader` (bit_reader.go) | bit cache, limit | readBits, unreadBits, setLimit, alignByte, ReadByte |
| `huffmanDecoder` (huffman.go) | limits, positions, symbols, quick tables | init, readSym |
| `decoder50` (decode50.go) | tables, last four offsets, last length, block flags | init, readBlockHeader, fill |
| `decoder29` (decode29*.go) | which of LZ and PPM, tables, offsets, low bits, escape byte, end flags, table of filters | init, readBlockHeader, fill, parseVMFilter |
| `decoder20` (decode20*.go) | LZ or audio, tables, offsets, channels, bytes left | init, readBlockHeader, fill |
| `model`, `subAllocator` (ppm_model.go) | contexts, states, counts, masks; heaps and free lists | init, restart, ReadByte, update; newContext, expandStates, shrinkStates, glueFreeBlocks |
| `vm`, `vmFilter`, standard filters (vm.go, filters.go) | registers, flags, memory; program, saved global data, count of executions | readCommands, execute, one function per filter |
| `limitedReader`, `checksumReader`, `errorFile`, `Reader`, `File` (reader.go) | limit, hash, verdict of the check, current file | Read, ReadByte, WriteTo, Next, Open, Seek |
| `RarFS` (fs.go) | tree of names | OpenFS, List, Open, ReadDir, ReadFile, Stat, Sub |

What is hard in it:

* *Buffers at their ends.* The signature, blocks, volumes, filters and matches
  may be cut anywhere by the end of a buffer, a block, a volume or the window.
* *Two counts of the same thing.* `br.off` and the source, `f.offset` and the
  volume's place, `l.offset` and the source, filter offsets and the read index.
* *State that outlives what it was for.* Pending errors, the bit cache, the
  limit, tables and window pass from one volume or file to the next.
* *Any mix of calls.* `Read`, `ReadByte`, `WriteTo`, `Seek` and `Next` share state
  and are written separately.
* *Sharing.* Every file opened from a `List` or a `RarFS` may be read in a
  goroutine of its own; all share the volume names and the block lists.
* *Failure half way.* A volume is missing, locked, cut off, or another one.
* *Arithmetic in small fields.* Counts of the PPM model are bytes that are halved
  or start again; a filter program relies on carries, signs and wrapped addresses.
* *Memory of its own.* subAllocator cuts, glues and reuses one array without the
  help of Go's memory management.

The correctness property of each part is one sentence: the buffered reader is a
cursor over the file; decryption gives the plaintext in order; a volume number
names one file for all readers; packed data is delivered without a gap over
blocks and volumes; the window is the history and each byte goes through its own
filters; bits come in order and none from behind the limit; codes are canonical;
symbols are decoded with the tables and the history of their place; the memory of
the PPM model is always partitioned, and its contexts are closed under suffixes; a
filter computes what its program says; every volume is opened with its own keys; a file ends
cleanly only if it is complete and agrees with its checksum; the tree is the
archive. `PROJECT.json` lists the hazards at their lines.

## 2. Modules

Each module says in its head what its values stand for. `MC*` modules hold the
small archives, files and sizes for TLC. Definitions named with "seeded bug" are
mutations of the definition below them; they show that a property would notice.

**BufVolumeReader** (bufio.go). `br` is the struct; the source is a file and a
position. `Read`, `ReadByte`, `Discard`, `seek`, `Reset` are one step each, since
nothing can come between; the loops of `writeToN` and `findSig` are steps per
round. The source may return any number of bytes and errors, with data
(`DataWithErr`) or without. **VolumeStream** is what it promises: a position in a
file, bytes from there, moves of the position. The mapping is `pos <- br.off`.

**CipherBlockReader** (decrypt_reader.go). Bytes are their positions. CBC is
external: a run of blocks decrypts to its plaintext if it is the next one in
sequence, else to garbage for ever.

**VolumeNames**, **VolumeManager** (volume.go). A name is a sequence of tokens
(dot, word, letter, number of a width), which is what the naming code tells
apart. `IsName` are the names that are modelled: where the extension has digits, it is a
letter and two of them, or three (`.r00`, `.001`); words have no digits. Numbers have up
to ten digits (`Digits`); beyond an int64 the code would start again from 0. One process walks the archive, others open files afterwards. Steps are the
critical section of `openVolumeFile`, and the three parts of `open`: Close,
open, init. The file system may change between steps. `src` is the file v.br is on and
`f` the one v.f is, which differ after an open that failed. `reclose` is a file system
(option FileSystem) whose closed files may be closed again, so that `open` goes on after
a failed one. `nextBlockRefused` is a call after a volume was refused for its number:
v.num and v.br are on that volume already.

**PackedFileReader** (reader.go, volume.go). An archive is volumes of blocks; a
byte is its volume, block and index. `VolumeNext` is `nextBlock` of the volume
with what archive15 and archive50 return at its end. Calls are loops with a step
per round. `mode` is chosen at the start: volume files or one stream, seekable or
not, a file from `File.Open` with a complete block list or a walk with `Next`; and what
calls are made, to writers that never fail or to some that do (`"failing"`).

**ArchiveReader** (reader.go). The stack of one file: source, limit, checksum. The
source is given by its bytes and the error behind them, as PackedFileReader and
DecodeReader have it. `nosum` are the files whose checksum `removeFileHash` took
out of the shared list.

**DecodeReader** (decode_reader.go). The decoder is nondeterministic: it writes
bytes, copies matches, queues filters, fails or ends. An output byte is the byte
and the filters it went through with the offset each was told. `want` is what the
running call still asks for, and whether it goes on over several buffers (`writeToN`, of
which `WriteTo` is the one without a bound). `hist` and `marks`
are what the decoder meant, to compare with. `arch` is the archive, with the bounds
it is decoded under.

**BitReader** (bit_reader.go). A bit is its number in the input; `n` is a uint8 and
wraps. **Huffman** (huffman.go) has the tables of `init`; uint16 wraps.
**SymbolReader** puts `readSym` on top of both: quick table, slow search and the
bitwise end at the limit, with the bits it gives back.

**Decoder50** (decode50.go). The packed data is a sequence of units (header, table,
symbol, argument); a symbol decoded with other tables than its own is junk. `Ahead`
is how far the bit reader may look ahead. **OldFormats** writes the data of RAR 2.0
and 2.9 in such units, with what the file is; **OldDecoders** (decode29*.go,
decode20*.go) decodes them beside Decoder50, whose history and window it shares. The
decoders are each a step per symbol, so that a window that fills up stops `fill`
anywhere.

**SubAllocator** (ppm_model.go) are the operations of the allocator as functions of
its record: heaps, text and units, free lists by size. A unit reads as a free block if
it is the head of one, or if it is unused and holds such bytes of an older, larger memory
(`old`; `OldMarks` are the ones there may be): `init` and `restart` clear nothing.
**PpmModel** is the model on top: one action per part of `ReadByte` (binary context, symbol, escape, second
symbol) and of `update` (learn in each context, expand, restart). `SourceFails` is an
error of the range coder's source, `GoesOn` a stream that is read on after an error or
gets a block without reset (`wentOn`). The range coder
and its estimators are left out, so any symbol the code can find may be the next.
**AllocatorClient** is any other caller that keeps the rules of the model; it gets
the allocator into states the model would need far more symbols for.

**StandardFilters**, **Vm**, **V3Filters** (filters.go, vm.go, decode29.go). The
filters are functions of a buffer, for bytes of `Base` values and words of
`WordBytes`; a machine is a record, an instruction a function of it. V3Filters has
the state: the table of filters with their lengths, programs that are loaded command
by command, blocks that wait, the machine that runs command by command.
**VmPrograms** writes programs in bits and says in plain arithmetic what each is for.

**ArchiveHeaders** (archive15.go, archive50.go, volume.go). A volume is a sequence
of units (salt, header, data), each with the key it is encrypted with and whether the
volume ends in it. `OpenVolume` is `init`, `NextBlock` a header with everything that
follows from it, `Discard` the skipping of data. Keys are distinct for distinct
passwords, salts and counts. `got` is the history of what was returned, each file with
its place in the archive; `Written` is what a writer sees to, whatever is cut off later.

**RarFS** (fs.go). A name is the sequence of its elements. Listing, building and
the calls follow each other; `Sub` gives a new tree that shares its nodes. `Errors` are
the ones `Open` and `ReadFile` may return: solid files, volumes that are gone by then,
headers and passwords. `Unchecked` and `Checked` are the archives for OpenFS and
OpenFSCheck.

## 3. Runs

There is one run per group of components that are used together. Where the code runs
in several modes (solid or not, seekable or not, opened or walked through), the mode
is a variable that `Init` chooses, so one run covers them all.

| run | shows | bounds |
|---|---|---|
| BufReader | types, coherence, refinement; the first signature is found | buffer of 5, 14 files of 0 to 10 bytes, two of which can seek: several fills, requests beyond both, signatures and starts of them at every place of the buffer and around the limit |
| Cipher | plaintext in order, EOF behind all of it | 4 blocks of 4, with and without trailing bytes; requests of 1 to 14 |
| Decode | output exact for Read, ReadByte and writeToN, no filter refused, EOF complete, window is the history, calls return | window of 3 with 5 bytes and 3 filters on a queue of 2; two solid files with windows of 3 and 5 |
| Volumes | one scheme, right volume also after failed opens, no lost handle | 3 or 4 volumes, 2 readers, up to 2 changes of the disk; names before every carry; files that may be closed again and ones that may not |
| Packed | data in order, an end only where file or archive ends | up to 3 volumes, blocks of 0 to 3 bytes, all offsets of Seek; 9 kinds of damage |
| Reader | exact and checked delivery, short files are errors, checksums dropped only when verified, solid files in step | 1 to 3 files of up to 3 bytes of every kind |
| Symbols | bits in order and none behind the limit; symbols are canonical | bytes of 3 bits; raw reads of 1, 2, 3 and 5 bits of an input of 4 bytes, unreads, bytes and alignments; all tables of 4 symbols with lengths up to 4 (quick table of 2 bits), all inputs of 2 bytes; limits none, 5 and 7 |
| Decoders | right tables, history, model, channels; complete or an error; every file ends | 1 or 2 files of 2.0, 2.9 and 5, solid or not, of up to 3 blocks with every symbol; cut off by 1 or 2 units, bad tables and orders |
| Ppm | memory partitioned, suffixes closed, counts in range, masks fresh, right byte | 3 symbols, orders 2 and 3 (and 1, which is refused), units of 3 bytes in 30 or 40, counts up to 10, masks of 3 values, 9 calls, errors gone on from in the first 4; any client of 9 units and arrays of up to 8 states |
| Filters | programs load, compute and end; lengths are the filter's own; standard filters invert their writers | bytes of 32 values, words of 2 bytes, memory of 128; operands at the edges of bytes and words, up to 3 filters in up to 6 declarations, 40 commands |
| Headers | sound archives are read, keys are right, a clean end has all of every volume and none announced behind | up to 2 volumes of both formats, headers and files encrypted with 2 salts and counts, 3 passwords; each volume cut at and within every unit |
| FS | the tree is the archive, names give the newest version; sound archives open if what checked solid files go on with is checked | 3 entries of the paths a, b, a/a, a/b, a/b/a in 2 versions, and 3 files of every content |

The bounds are the smallest at which every branch of the code is taken: a buffer
that is filled more than twice, a window that wraps, a block that is passed on both
sides, a queue that is full.

CHECK_DEADLOCK is FALSE where the system stops by itself: a reader at the end or at
an error, a bounded stream of the decoder.

### Fairness

Two specifications have it, and only for steps the program takes by itself.
`FairSpec` of DecodeReader: rounds of the loops in a running call, and the decoder
that the call runs. `DecodersSpec` of OldDecoders: rounds of `fill`, called by a
caller that reads the file to its end. None assumes that a caller makes another call
of another kind. That filters end is stated without fairness: each step makes what is
left smaller (`FiltersReturn`), and deadlock is checked.

## 4. Known deviations

Places where the code does not do what its own comment or error text says, or would
not do what its callers expect. The modules have these behaviours, and the runs stay
clear of them by a named constant, a feature, the choice of archives or a premise of
the property; each shows when that is lifted:

| where | what the code does | what it says | lifted by |
|---|---|---|---|
| decrypt_reader.go:18 | `fillOutbuf` does not clear `inbuf`: a small read between large ones makes a block decrypt twice | "raw input blocks not yet decrypted" (13) | callers of both kinds in one Init of CipherBlockReader, OutputIsPlaintext |
| bit_reader.go:32 | `reset` of rar5BitReader keeps the bits and the limit: after a file that was left before its end, the next one of a non-solid archive starts with them | init is to "initialize decoder for current file" (decode_reader.go:32) | `NextFile` of Decoder50 without its guard that the file was read, WritesTheFile |
| decode20.go:157 | a match that passes the size, or an unknown size of -1, makes `fill` return no data and no error: `io.Copy` of nextFile goes on for ever | "fill window with decoded data" (decode_reader.go:33) | such a match in an archive of MCDecoders, FileEnds |
| decode20.go:134 | data that ends in a block header is io.EOF, as at the end of the file; limitedReader notices the size | within a block it is ErrDecoderOutOfData (153) | EndIsComplete without its second case |
| decode20.go:31 | a non-solid file keeps the offsets and the length of the file before | a reset clears all else (32-37) | archives that repeat an offset first, WritesTheFile |
| decode29.go:171 | a new filter adds two lengths, and the next new one without a length gets the other's | "filter length" (128) | a first declaration without a length in Tables, LengthOfItsFilter |
| bufio.go:137 | without Seek, skipping data that is cut off is io.EOF, which passes as the end of the archive | RAR 5 volumes end with a block (archive50.go:553) | the premise on `seekable` and LacksData of CleanEndIsWhole; a cut block in front of others in an archive of MCModes that cannot seek, EndIsTheEnd |
| bufio.go:171 | `writeToN` drops the error of the source and of the writer: what a volume has lost, or the writer has not taken, is left out, and the next block is written behind the gap | it drops EOF only if `todo < 0` (168) | op "write" for the damaged archives of MCModes, DataInOrder; op "failing" in a mode that writes, EndIsTheEnd |
| archive15.go:455 | a RAR 1.5 volume that is cut within data and can seek looks complete | "1.5 archives may not have an end block" | CleanEndIsWhole for data of RAR 1.5 |
| filters.go:53 | offsets of 2^31 and more are negative in filterE8 of RAR 5, where `%` keeps the sign | | such offsets in Calls, FilterComputes |
| filters.go:203 | delta and audio of zero channels return what was in the spare part of the buffer | | zero channels in Sampled |
| vm.go:484 | `popa` with a stack pointer outside the memory is an index out of range | | a program that does it |
| vm.go:658 | ErrInvalidVMInstruction cannot occur: all codes are instructions | "invalid vm instruction" (22) | |
| bufio.go:177 | a signature behind `maxSfxSize` is accepted if it is buffered | "searches no more than maxSfxSize bytes" (175) | asking in FindsFirstSignature for a start within the limit |
| bufio.go:229 | `Reset` keeps the pending error of the last volume | findSig searches "at the beginning of a file" (174) | `DataWithErr = TRUE`, FindsFirstSignature |
| decrypt_reader.go:69 | trailing bytes are ErrUnexpectedEOF | they "will be ignored" (42) | an invariant on `ret` |
| decode_reader.go:113 | a match over the end of the window loses its rest | it "copies len bytes" (111) | feature `crossing`, WindowIsHistory |
| decode_reader.go:156 | a filter queued while another collects its block is refused or misplaced | offsets "relative to previous in list" (43) | feature `late`, OutputExact |
| decode_reader.go:166 | offsets of a window size and more are taken modulo it | "must be < window size" (165) | feature `far`, OutputExact |
| decode_reader.go:95 | a second version 70 file is ErrMultipleDecoders, although one decoder serves both | "multiple decoders" (16) | version 70 in an archive |
| volume.go:446 | `Volumes` lists files that were never there | names "that have been used" (reader.go:723) | ListsUsedVolumes as an invariant of Volumes |
| volume.go:138 | a volume with another number than the wanted one is refused with ErrBadVolumeNumber, but `v.num` and `v.br` are on it: openBlock for that number (256-263), or the next `nextBlock`, serves what is buffered of it without an error | "current volume file", "current volume number" (103, 105) | ServesCurrentVolume as an invariant of Volumes |
| volume.go:279 | a volume of RAR 1.5 without an end block is the last one if the next is not there, also where it is missing | "new volume doesnt exist, assume end of archive" (282), the comment says as much | CleanEndIsWhole for missing volumes behind such a one |
| volume.go:239 | `Close` fails after a volume was not found | "closes the rar file" (reader.go:720) | an invariant on `ret` after Close |
| reader.go:252 | `f.offset` becomes an offset in the volume | "calculate absolute offset" (445) | `"current"` in Whences, DataInOrder |
| reader.go:576 | `Seek` does not move the limit | "calculate absolute offset" (563) | CleanEndIsVerified without `~Seeker` |
| reader.go:379 | `Next` after ErrDictionaryTooLarge dereferences nil | "will return an error" (volume.go:52) | the result "panic" |
| reader.go:550 | `WriteTo` of a short file without a checksum ends with EOF | "decoded file too short" (32) | CleanEndIsVerified for `WriteTo` |
| decode50.go:97 | a block of length zero gives a negative limit and bits that are not there | "stops with io.EOF after l bits" (bit_reader.go:13) | negative Limits, StopsAtLimit |
| reader.go:352, 362 | a packed file of a solid archive that is encrypted, without its password, or has a bad header is not decoded, and the next one is decoded on a window without its data | solid files retain the "dictionary from previous solid files" (archive.go:83) | a packed file with `errs` in SolidFiles of MCArchiveReader, SolidInStep |
| ppm_model.go:353 | gluing takes unused memory behind a free block for a free block if old bytes of a larger memory look like one; `init` (239) and `restart` clear nothing | an entry of freeList is "the beginning of a free block" (217) | `OldMarks <- FreeLooking`, MemoryPartition |
| ppm_model.go:714 | a sum of zero is refused: "protect against divide by zero", "look at why this happens, may be problem elsewhere". CountsInRange holds, so it does not happen in a partitioned memory, also in streams that go on after errors. What overlapping memory reads as is not modelled; the deviation above may be where the zero comes from | | |
| ppm_model.go:1046 | after an error, or a refused order (603), `orderFall` and the masks are left: a stream that is read on without reset finds symbols masked that are not, and orders that do not add up | | the premise `wentOn` of SuffixClosed and MasksFresh |
| fs.go:298 | OpenFSCheck refuses a sound solid archive in which a checked solid file goes on with a packed one that has no checksum | solid files retain the "dictionary from previous solid files" (archive.go:83) | SolidFilesRetain as an invariant of FS |
| fs.go:203 | `ReadFile` stops in front of the EOF at which the checksum is compared | only SkipCheck turns checks off (volume.go:69) | ReadErrors of RarFS |

## 5. Proofs

TLC checks small instances; the theorems hold for every value of the constants, under
the assumptions the modules name. Each proof module EXTENDS the module it is about.
**DataFacts** has what several of them need: concatenation and parts of sequences
under opaque names, and remainders by a modulus that is not a number. The library's
theorems on induction and recursion have an operator as a parameter, which the provers
cannot instantiate; `Inductive`, `Least` and `Recursion` say the same of sets and
functions: a set of numbers that has 0 and every successor has all, one that is not
empty has a least, and a function that repeats a step exists.

| module | theorem | states | premise |
|---|---|---|---|
| BufVolumeReaderProofs | `TypeCorrect`, `BufferCoherent` | TypeOK, Coherent | |
| | `ImplementsVolumeStream` | IsVolumeStream | the source returns no error with data |
| EncryptionProofs | `KeysKept`, `EndsWhole` | KeysRight, CleanEndIsWhole | |
| | `AlignedPlaintext` | OutputIsPlaintext | no small call while `inbuf` holds bytes |
| | `Plaintext` | OutputIsPlaintext | `OneKind` |
| NameProofs | `VolumesCurrent`, `HandlesKept` | CurrentVolume, NoHandleLost | |
| | `SchemeKept` | OneScheme | names as `IsName` has them |
| | `TreeKept`, `NamesResolve`, `SoundOpens` | TreeExact, ResolvesToLatest, SoundArchiveOpens | |
| ArchiveReaderProofs | `EndsVerified`, `TrustEarned` | CleanEndIsVerified, TrustIsEarned | |
| | `Delivered` | DeliveredExact | `SeeksInside` |
| | `SolidFilesInStep` | SolidInStep | `Decodable` |
| DecodeReaderProofs | `WindowKept` | WindowIsHistory | |
| | `OutputKept`, `EndsComplete` | OutputExact, EOFComplete | |
| PackedFileReaderProofs | `InOrder` | DataInOrder | `NotFromCurrent`, `WholeToWrite` |
| | `TrueEnd` | EndIsTheEnd | these and `CutAtEnd` |
| SymbolReaderProofs | `BitsInOrder`, `LimitKept` | InOrder, StopsAtLimit, for readers without tables | `NoNegativeLimit` |

**BufVolumeReaderProofs**, for every set of files, every buffer size that holds a
signature and its version (`BufSizeAssumption`; the code's minimum is far larger),
every prefix, and every sequence of calls. The inductive invariant is `IInv ==
TypeOK /\ Coherent /\ NothingPending /\ EOFTrusted`. `TypeOK` needs `Coherent` (a
seek within the buffer keeps the index in range because the buffer is the part of the
file in front of the source); `Coherent` needs `TypeOK`; that EOF comes from the end
needs that no error of an earlier place is pending, which is `NothingPending`. Lemmas
say what `Advance`, `Drop`, `Load`, `Compact` do to a struct that agrees with the
file; one lemma per call then shows that the call keeps `IInv`, and the refinement
follows step by step from it.

**EncryptionProofs**, its first part, about ArchiveHeaders: for archives of any number of
volumes with any headers, any passwords and a cache of any size. `HeadersInv` has four
parts. `CacheSound`: every entry of the cache is what is calculated from its own salt and
count; so what `LookUp` gives never depends on what the cache held or dropped
(`LookUpIs`, with `Least` for the first hit), which is KeysRight. `PlaceInv` and `GotInv`:
the place in the archive moves forward only, and what was returned is in order and in
front of it. `PassedInv`, which CleanEndIsWhole needs: every file in front of the place
has been returned, every volume behind the reader has its end, the unit read last is
whole, data to skip belongs to it, and an opened volume has read its archive block, from
which `multi` is. `Header` says what the two functions that read a header give: a whole
header with nothing but salts in front of it, or an error that is EOF only at the end of a
RAR 1.5 volume (`Read15`, `MustRead`). A volume ends in one of two ways (`UnmarkedEnd`,
`MarkedEnd`); both have read all of it (`VolumeRead`), and the last one all of the archive.
`SaysMore`: where the end block of the last volume announces another one, which is
missing, the end is an error and not EOF. Behind a RAR 1.5 volume without an end block
(volume.go:279) nothing says that others follow, and the theorem says nothing of them.
CleanEndIsWhole has its premises in itself: `WellWritten` (an end block is the last of
its volume and only the last volume may deny that others follow, data follows its header)
and, without Seek, that no volume lacks some of its last data (bufio.go:137).

Its second part, about CipherBlockReader: for every block size and file. The invariant says where
each of the three stores is in the plaintext: what was returned, then `outbuf`, are
the plaintext of the `chain` blocks decrypted so far, and `inbuf` is the raw data
behind them. The only step that breaks it is a small call that finds bytes in `inbuf`,
which is the deviation at decrypt_reader.go:18; so the theorem is stated for behaviours
without that step (`[][Aligned]_vars`), and `Plaintext` shows that callers who keep to
one kind of read (`OneKind`) never take it. Decoders, which read byte by byte, are such
callers; a caller of `File.Read` on a stored file need not be.

**NameProofs**, its first part, about VolumeManager: for any finite set of readers, any
archive and any changes of the file system, whether closed files may be closed again or
not. `CurrentVolume` says two things: an open volume file is what the reader is served
from, and what a reader is served is the volume of its number, as long as a file is open
or every file that has a volume's name is that volume (`SoundVolumes`). Without the
latter it does not hold after a volume was refused for its number (volume.go:138). Both
are in the invariant as they stand (`Fits`). `CurrentVolume` is not inductive: a name is
at the place of its volume only if the list has been filled that far. The invariant says
so: the list only grows and never changes where it has a name, the walk asks for one
volume after the other, and readers ask only for volumes the walk has seen. `NoHandleLost` counts the readers
with an open file and those with one on its way; every step moves one reader, so the
count is kept by facts on cardinality, for which the readers must be finite
(`RoleAssumption`). `OneScheme` compares each name with one counted from the first volume,
so the code's functions, which make a name from the one before, are first shown to come to
that, from the first name and from that of any volume: `OldNext` over the carries from 99
into the letter and from 999 to A00 (`PairNext`, `OldExtensionNext`), `NewNext` because
the place of the number in the name stays (`Renumbered`) and its width never falls
(`CountOn`, `DigitsGrow`). Then `SchemeInv`: `vm.old` may still change while the list has
one name, and it has one name until `openVolume` has set the flag from the header
(volume.go:508-521); the second name settles the scheme, also for `tryNewName`.

Its second part, about RarFS: for archives of any entries, in any order, with names of any
depth and any number of versions (`EntryAssumption` says what kind of value an entry is),
any calls and any number of calls of Sub. `FSInv` is about each prefix of the archive while
the loops run: `ListInv` counts the packed files that were decoded, which is why a sound
archive in which all files below a checked one have checksums cannot fail; `BuildInv` says that the tree has the names of the entries so far and
all directories above them (`Known`), and of each node that its list has every child once
(`Once`) and its block is the newest entry (`Newest`). `AddFile` stops at the first
directory that exists already: `AboveIs` shows that all above that one exist too, since
`Known` is closed under directories, and `NodesNew` that the nodes below it are new, so that
no list gets a child twice. `TreeInv` is about the trees afterwards. A Sub has short names
that stand for the nodes of the long ones; a Sub of a Sub cuts twice, so the tree is said
by where its root is in the archive (`Within`), and `SubStep` shows that cutting keeps it;
the Sub's own node is a copy with the same list.

**ArchiveReaderProofs**, for any archives, sizes and mixes of calls. The invariant ties
the counters of the stack (source, limit, hash, caller) to each other while nobody
seeks, and to less after a Seek. `CleanEndIsVerified` and `TrustIsEarned` need no
premise. `DeliveredExact` has one, and it is the place where the code deviates:
`SeeksInside` says that nobody seeks from the current position (reader.go:252) and that
a stored file does not have more data than its size where files are opened by name,
since Seek does not move the limit (reader.go:576). `Decodable`, the premise of
`SolidInStep`, excludes solid archives in which a packed file cannot be decoded at all
(reader.go:352); the proof attempt without it is how that deviation was found, and TLC
shows it. FileAssumption only says what kind of value a file is.

**DecodeReaderProofs**, for windows of every size. `Slot(n, a, q)` is the place of the
last byte but q - 1 in a window of n bytes that is written up to a, and `Holds` says
that a window holds the last k bytes of the stream in their slots. `Written`: if the
next bytes of the stream are put behind a, it holds up to k + l of them, or all it can.
`Copied`: copyBytes puts the bytes there that the match stands for, in each of its
three cases (source behind the write index, source in front of it and cut by the end of
the window, offset of the whole window), also where the match overlaps its own output.
`Wrapped` and `Started`: turning to the start of a full window and taking a window over
into a larger one move no byte out of its slot. No other step touches the window, so
nothing has to be known of calls, filters and output for WindowIsHistory.

OutputExact and EOFComplete have a second invariant on top of it, `OInv`, for the
streams both are stated for (no feature of section 4). `At` is the place in the stream
the next output is made from: all that was decoded but the unread bytes of the window
and what has been collected of a block. `Flow` keeps the unread bytes inside what the
window holds, `Collected` ties `tot` and the input of a filter to `At`, and `Ends` says
that EOF comes after the last block with nothing left over. The heart is `QueueFor(f,
ms, c, a)`: the queue `f` is for the blocks `ms` behind the first `c`, all of those end
before `a`, the others start at it or later, and every offset in the queue is counted
from the start of the block before. `Total` adds the offsets up (by `Inductive`), so
that queueFilter's new offset is the distance to the last block (`Announced`,
`Appended`); `Advanced` is the output of bytes in front of the first block, and `Popped`
the end of a block with all its filters, where the next offset loses the block's length.
`BlocksSame` shows that filters with offset 0 have the same block, so that none is
refused, and `FilteredExact` and `PlainExact` that the blocks before and behind hold no
byte of the output. After an error that is not EOF nothing is promised of the data,
since the reader is only used again with a reset (`Good`); a filter that was refused
because the queue was full leaves a block that no filter is queued for, and `QueueAs`
allows that one while the error waits for the data that came with it.

**PackedFileReaderProofs**, for every archive: any number of volumes, blocks of any size
in them, lost bytes, foreign blocks, files opened or walked through. What is to be
delivered is given by the archive alone: `FileHeader(arc, start)[k]` is the header of
the k-th block of the file that starts at `start`, a recursive function, of which
`FileHeaderIs` says by `Recursion` that it is unfolded by one step of `NextHeader`. The
invariant says that `f.h` is such a header, that the list of blocks has them up to some
number (`FileInv`), that the volume is at its block and `pos` is where it has come to in
the file (`PlaceInv`), and what a running call can still need (`CallInv`). `MoveOn`
and `NextOfFile` relate the volume's step to the archive: a block that nextBlock
accepts is the next one of the file, in this volume or the one behind it. For Seek,
`BlockFound`: the block that findBlock returns has the offset in it or ends with it,
by `Least` and the sizes before it. For the end, `NoOtherFile`:
the blocks of a file follow each other, so that no other file starts between its first
block and a later one; and by `MoveOn` the volume ends only behind the archive's last
block. Three premises: `NotFromCurrent` (reader.go:252) and `WholeToWrite`
(bufio.go:171: only whole archives are written, to writers that do not fail) leave out
two deviations of section 4; `CutAtEnd` says that nothing is
behind the block at which a stream was cut, without which the third (bufio.go:137) shows.
The modes of the run satisfy all of them.

**SymbolReaderProofs**, for both bit readers, inputs of every length, all limits and any
mix of readBits, unreadBits, ReadByte, Read, setLimit, alignByte and reset. InOrder and
StopsAtLimit speak of the last call; what a call needs of the ones before it is `Sound`:
the cache ends in the unread bits of the input and those that may be given back
(`Cached`), `at`, `n` and `l` agree on how many bits are in front of them and how many
are left of the limit, or of its last byte (`Placed`), and `n` fits its uint8. `LoadSound`
is the byte that crosses the limit: its extra bits go, and `n`, computed modulo 256, is
again the number of unread bits. `LoadedSound` runs the loop by `Recursion` and
`Inductive` and says why it stopped; `BitsAre` says what readBits makes of that, and one
lemma per method that it leaves a sound reader. `NoNegativeLimit` leaves out the empty
block (decode50.go:97 in section 4). The theorems are about readers without tables
(`codeLengths = NoTable`): readSym gives back what the quick tables say, and these are
powers of two and folds, of which the provers know nothing.

TLC alone checks:

* Liveness (CallReturns, FileEnds, FiltersReturn) and what needs ENABLED, which are out
  of the prover's reach.
* Properties of values that RECURSIVE operators or folds compute: Huffman's tables, the
  histories of the decoders, the filters, the PPM model.
* Both properties of BitReader once symbols are read through it.
* SoundArchiveRead of MCHeaders: it is about the sound archives that are written there,
  and compares what is read with a filtered concatenation, which is a fold.

## 6. Not modelled

* The range coder of PPMd and its estimators (`see2Contexts`, `binSumm`): they decide
  which symbol is read, and every choice is explored instead.
* The run lengths in `readCodeLengthTable` and `readCodeLengthTable20`, the tables
  from slots to lengths and offsets, and the prediction of audio samples in RAR 2.0:
  straight-line arithmetic on what SymbolReader and OldDecoders deliver in order.
* Header fields: times, names in their encodings, attributes. They are read once
  and passed on.
* Cryptography and checksums: a checksum is the data it is of.
* `Seek` on an incomplete block list: `List` and `OpenFS` complete it before a
  file can be opened.
* `dirFile` and the `fs.FileInfo` adapters; `RarFS.Check` is commented out in the source.
* Writers that fail, but for packedFileReader.
* What memory of subAllocator reads as that two blocks share (ppm_model.go:353).

## 7. Plan

Every component has its module. Next, in this order:

1. `readCodeLengthTable` over SymbolReader.
2. Composition of the decoders with DecodeReader (what one writes, the other reads)
   and of ArchiveHeaders with PackedFileReader in place of its abstract volumes.
