------------------------------ MODULE NameProofs ------------------------------
(***************************************************************************)
(* What names stand for: the volume files an archive is spread over, and   *)
(* the files that are in it.                                               *)
(*                                                                         *)
(* Volumes, for any number of readers, any archive and whatever happens to *)
(* its files: no handle is lost, and what a reader is served is the volume *)
(* of its number, but after a file that was opened and refused.            *)
(*                                                                         *)
(* CurrentVolume is not inductive alone.  A name that openVolumeFile finds *)
(* is at the place of its volume in the list only if the list has been     *)
(* filled that far, which is so because the walk asks for one volume after *)
(* the other and the readers only for volumes the walk has seen; the list  *)
(* never changes where it has a name; and what is known of the buffered    *)
(* reader must be known while an open is under way, with v.f closed, for   *)
(* it is what the reader is left with when that open fails.                *)
(*                                                                         *)
(* The names in the list are those of one naming scheme, because it is     *)
(* settled with the second name: the walk has read the header of the first *)
(* volume by then, and nothing changes vm.old any more (SchemeInv).        *)
(*                                                                         *)
(* Files, for any archive: a name in the tree stands for the first entry   *)
(* of the highest version under it, and the tree lists what the archive    *)
(* has.                                                                    *)
(*                                                                         *)
(* ResolvesToLatest is about the tree that is ready and the Sub that is    *)
(* looked at.  It needs to be known of every prefix of the entries while   *)
(* the tree is built (BuildInv): the names in the tree are those of the    *)
(* entries so far with all directories above them, each node lists its own *)
(* children, each once, and has the newest entry.  For the tree that is    *)
(* ready (TreeInv) it needs to be known where a Sub was taken, since a Sub *)
(* of a Sub looks up short names and stands for the long ones.             *)
(***************************************************************************)
EXTENDS VolumeManager, RarFS, FiniteSetTheorems, DataFacts
-----------------------------------------------------------------------------
(* Volumes.                                                                *)

FileNames == {<<>>} \cup {files[i] : i \in 1 .. Len(files)}

Results == {"nil", "EOF", "ErrClosed", "ErrNoSig", "ErrBadVolumeNumber",
            "ErrNotExist", "denied"}

Volumes == [pc : {"none", "new", "ready", "failed", "open", "init", "done"},
            f : FileNames, fopen : BOOLEAN, src : FileNames, num : Nat, want : Nat,
            why : {"more", "last", "none"}, next : FileNames, ret : Results]

TypeInv ==
  /\ arch \in Archives
  /\ files \in Seq(FileNames) /\ Len(files) >= 1 /\ old \in BOOLEAN
  /\ vol \in [Procs -> Volumes]
  /\ nopen \in Int /\ listed \in BOOLEAN
  /\ seen \in Nat /\ seen <= Len(files)

(* Volume n of the archive is in the list, under this name. *)
Listed(n, name) == n + 1 <= Len(files) /\ name = files[n + 1]

(* Volume n is what this file is. *)
Fits(n, name) == name = files[n + 1] /\ init(name, n) = "nil"

(* A reader that has had a volume. *)
Has(v) == v.pc \in {"ready", "open", "init"}

(* What is to be said of the volume v of a reader. *)
Sound(v) ==
  /\ v.fopen => v.pc = "ready" /\ v.src = v.f
  /\ Has(v) => v.num + 1 <= Len(files) /\ v.src \in DOMAIN Content
  /\ Has(v) /\ (v.fopen \/ SoundVolumes) => Fits(v.num, v.src)
  /\ v.pc \in {"new", "init"} => Listed(v.want, v.next) /\ v.next \in DOMAIN Content
  /\ v.pc = "open" => v.want <= Len(files)

VolInv(p) == Sound(vol[p])

IInv == TypeInv /\ (\A p \in Procs : VolInv(p)) /\ NoHandleLost

(* The list only grows. *)
Grown(new) ==
  /\ new \in Seq({<<>>} \cup {new[i] : i \in 1 .. Len(new)})
  /\ Len(new) >= Len(files)
  /\ \A i \in 1 .. Len(files) : new[i] = files[i]

(* The readers with an open file, and those with one on its way. *)
Opened == {p \in Procs : vol[p].fopen}
Coming == {p \in Procs : vol[p].pc \in {"new", "init"}}
One(b) == IF b THEN 1 ELSE 0
-----------------------------------------------------------------------------
(* openVolumeFile.                                                         *)

(* A list with names put behind it has grown. *)
LEMMA Grow ==
  ASSUME TypeInv, NEW S, NEW more \in Seq(S)
  PROVE  Grown(files \o more) /\ Len(files \o more) = Len(files) + Len(more)
<1> DEFINE T == FileNames \cup S
           new == Cat(files, more)
<1>1. files \in Seq(T) /\ more \in Seq(T)
  BY SeqMonotonic DEF TypeInv
<1>2. /\ new \in Seq(T) /\ Len(new) = Len(files) + Len(more)
      /\ Len(files) \in Nat /\ Len(more) \in Nat
      /\ \A i \in 1 .. Len(files) : new[i] = files[i]
  BY <1>1, CatType
<1> HIDE DEF new, T
<1>3. new \in Seq({<<>>} \cup {new[i] : i \in 1 .. Len(new)})
  BY <1>2
<1>4. QED
  BY <1>2, <1>3 DEF Grown, new, Cat

(* A list that stays is grown too. *)
LEMMA GrowNot == TypeInv => Grown(files)
BY DEF TypeInv, Grown, FileNames

(* One name more. *)
LEMMA GrowOne ==
  ASSUME TypeInv, NEW x
  PROVE  /\ Grown(Append(files, x)) /\ Len(Append(files, x)) = Len(files) + 1
         /\ Append(files, x)[Len(files) + 1] = x
<1>1. Append(files, x) = files \o <<x>> /\ <<x>> \in Seq({x}) /\ Len(<<x>>) = 1
  BY DEF TypeInv
<1>2. Append(files, x)[Len(files) + 1] = x
  BY DEF TypeInv
<1>3. QED
  BY <1>1, <1>2, Grow

(* The names after a name are as many as asked for. *)
LEMMA FollowingSeq ==
  ASSUME NEW file, NEW o, NEW k \in Nat
  PROVE  \E S : Following(file, o, k) \in Seq(S) /\ Len(Following(file, o, k)) = k
<1> DEFINE Name[j \in 0 .. k] ==
             IF j = 0 THEN file
             ELSE IF o THEN nextOldVolName(Name[j - 1]) ELSE nextNewVolName(Name[j - 1])
<1>1. Following(file, o, k) = [j \in 1 .. k |-> Name[j]]
  BY Zenon DEF Following
<1> HIDE DEF Name
<1> DEFINE S == {Name[j] : j \in 1 .. k}
<1>2. [j \in 1 .. k |-> Name[j]] \in Seq(S) /\ Len([j \in 1 .. k |-> Name[j]]) = k
  OBVIOUS
<1>3. QED
  BY <1>1, <1>2

(* What openVolumeFile makes of the list, and that a name it has found is  *)
(* in the list at the volume's place, if it asks for the next one at most. *)
LEMMA OpenVolumeFile ==
  ASSUME TypeInv, NEW n \in Nat, n <= Len(files)
  PROVE  LET o == openVolumeFile(n) IN
         /\ Grown(o.files) /\ o.old \in BOOLEAN
         /\ OpenError(o.name) = "nil" =>
              n + 1 <= Len(o.files) /\ o.name = o.files[n + 1]
<1> DEFINE o == openVolumeFile(n)
<1>0. Len(files) \in Nat /\ Len(files) >= 1 /\ old \in BOOLEAN
  BY DEF TypeInv
<1>1. CASE n < Len(files)
  <2>1. o.files = files /\ o.old = old /\ o.name = files[n + 1]
    BY <1>1 DEF openVolumeFile
  <2>2. QED
    BY <1>0, <1>1, <2>1, GrowNot
<1>2. CASE n = Len(files)
  <2> DEFINE first == Len(files) = 1
             file == IF first THEN fixFileExtension(files[1]) ELSE files[Len(files)]
             flag == old \/ first
             more == Following(file, flag, n + 1 - Len(files))
  <2> HIDE DEF file
  <2>0. ASSUME NEW x, o.files = Append(files, x), o.old \in BOOLEAN, o.name = x
        PROVE  /\ Grown(o.files) /\ o.old \in BOOLEAN
               /\ n + 1 <= Len(o.files) /\ o.name = o.files[n + 1]
    <3> HIDE DEF o
    <3>1. QED
      BY <1>0, <1>2, <2>0, GrowOne
  <2>1. CASE first /\ ~old /\ hasDigits(file)
    <3>1. o = tryNewName(file)
      BY <1>0, <1>2, <2>1 DEF openVolumeFile, file
    <3> DEFINE new == nextNewVolName(file)
               alt == nextOldVolName(file)
    <3> HIDE DEF new, alt
    <3>2. CASE Status(new) # "missing"
      <4>1. o.files = Append(files, new) /\ o.old = old /\ o.name = new
        BY <3>1, <3>2 DEF tryNewName, new
      <4>2. QED
        BY <1>0, <2>0, <4>1
    <3>3. CASE Status(new) = "missing" /\ Status(alt) # "missing"
      <4>1. o.files = Append(files, alt) /\ o.old = TRUE /\ o.name = alt
        BY <3>1, <3>3 DEF tryNewName, new, alt
      <4>2. QED
        BY <1>0, <2>0, <4>1
    <3>4. CASE Status(new) = "missing" /\ Status(alt) = "missing"
      <4>1. o.files = files /\ o.old = old /\ o.name = new
        BY <3>1, <3>4 DEF tryNewName, new, alt
      <4>2. OpenError(new) # "nil"
        BY <3>4 DEF OpenError, NotExist
      <4>3. QED
        BY <1>0, <4>1, <4>2, GrowNot
    <3>5. QED
      BY <3>2, <3>3, <3>4
  <2>2. CASE ~(first /\ ~old /\ hasDigits(file))
    <3>1. n + 1 - Len(files) = 1
      BY <1>0, <1>2
    <3> DEFINE ext == files \o more
               name == more[Len(more)]
    <3>2. ~(n < Len(files))
      BY <1>0, <1>2
    <3>3. o = [files |-> ext, old |-> flag, name |-> name]
      BY <2>2, <3>2, Zenon DEF openVolumeFile, file
    <3>4. PICK S : more \in Seq(S) /\ Len(more) = 1
      <4> DEFINE k == n + 1 - Len(files)
      <4>1. k \in Nat /\ k = 1
        BY <3>1
      <4> HIDE DEF k
      <4>2. \E S : Following(file, flag, k) \in Seq(S) /\ Len(Following(file, flag, k)) = k
        BY <4>1, FollowingSeq
      <4>3. QED
        BY <4>1, <4>2 DEF k
    <3> HIDE DEF ext, name
    <3>5. flag \in BOOLEAN
      BY <1>0
    <3> HIDE DEF flag
    <3>6. o.files = ext /\ o.old = flag /\ o.name = name
      BY <3>3
    <3> HIDE DEF more, o
    <3>7. Grown(ext) /\ Len(ext) = Len(files) + 1
      BY <3>4, Grow DEF ext
    <3>8. ext[n + 1] = more[1] /\ name = more[1]
      <4> DEFINE T == FileNames \cup S
      <4>2. files \in Seq(T) /\ more \in Seq(T)
        BY <3>4, SeqMonotonic DEF TypeInv
      <4> HIDE DEF T
      <4>3. \A j \in Len(files) + 1 .. Len(files) + Len(more) :
              Cat(files, more)[j] = more[j - Len(files)]
        BY <4>2, CatType
      <4>4. QED
        BY <1>0, <1>2, <3>4, <4>3 DEF Cat, ext, name
    <3>9. QED
      BY <1>0, <1>2, <3>5, <3>6, <3>7, <3>8 DEF o
  <2>3. QED
    BY <2>1, <2>2
<1>3. QED
  BY <1>0, <1>1, <1>2
-----------------------------------------------------------------------------
(* Steps.                                                                  *)

(* A list that has grown was sound if it is. *)
LEMMA SoundBefore ==
  ASSUME IInv, Grown(files'), arch' = arch, SoundVolumes'
  PROVE  SoundVolumes
<1>1. /\ Len(files) \in Nat /\ Len(files') \in Nat /\ Len(files') >= Len(files)
      /\ \A i \in 1 .. Len(files) : files'[i] = files[i]
  BY DEF IInv, TypeInv, Grown
<1>2. \A name, n : init(name, n)' = init(name, n)
  BY DEF init, Content
<1>3. Content' = Content
  BY DEF Content
<1>4. SUFFICES ASSUME NEW k \in 1 .. Len(files), files[k] \in DOMAIN Content
               PROVE  init(files[k], k - 1) = "nil"
  BY DEF SoundVolumes
<1>5. k \in 1 .. Len(files') /\ files'[k] = files[k]
  BY <1>1
<1>6. init(files[k], k - 1)' = "nil"
  BY <1>3, <1>4, <1>5 DEF SoundVolumes, init
<1>7. init(files[k], k - 1)' = init(files[k], k - 1)
  BY <1>3, <1>5 DEF init
<1>8. QED
  BY <1>6, <1>7

(* What a volume that stays needs is still there in a list that has grown. *)
LEMMA OtherVolume ==
  ASSUME IInv, NEW p \in Procs, Grown(files'), arch' = arch, vol'[p] = vol[p]
  PROVE  VolInv(p)' /\ vol'[p] \in Volumes'
<1>1. /\ Len(files) \in Nat /\ Len(files') \in Nat /\ Len(files') >= Len(files)
      /\ \A i \in 1 .. Len(files) : files'[i] = files[i]
  BY DEF IInv, TypeInv, Grown
<1>2. FileNames \subseteq FileNames'
  BY <1>1 DEF FileNames
<1>3. vol[p] \in Volumes
  BY DEF IInv, TypeInv
<1>4. ASSUME NEW n \in Nat, NEW name, Listed(n, name) PROVE Listed(n, name)'
  BY <1>1, <1>4 DEF Listed
<1>5. \A name, n : init(name, n)' = init(name, n)
  BY DEF init, Content
<1>6. VolInv(p)
  BY DEF IInv
<1>7. vol[p].num \in Nat /\ vol[p].want \in Nat
  BY <1>3 DEF Volumes
<1>8. VolInv(p)'
  <2>0. PICK v : v = vol[p]
    OBVIOUS
  <2>1. Sound(v) /\ v.num \in Nat
    BY <1>6, <1>7, <2>0 DEF VolInv
  <2>2. /\ v.fopen => v.pc = "ready" /\ v.src = v.f
        /\ Has(v) => v.num + 1 <= Len(files') /\ v.src \in DOMAIN Content'
        /\ v.pc = "open" => v.want <= Len(files')
    BY <1>1, <1>7, <2>0, <2>1 DEF Sound, Content
  <2>3. v.pc \in {"new", "init"} => Listed(v.want, v.next)' /\ v.next \in DOMAIN Content'
    BY <1>4, <1>6, <1>7, <2>0 DEF VolInv, Sound, Content
  <2>4. Has(v) /\ (v.fopen \/ SoundVolumes') =>
          v.src = files'[v.num + 1] /\ init(v.src, v.num)' = "nil"
    <3>1. SUFFICES ASSUME Has(v), v.fopen \/ SoundVolumes'
                   PROVE  v.src = files'[v.num + 1] /\ init(v.src, v.num) = "nil"
      BY <1>5
    <3>2. v.src = files[v.num + 1] /\ init(v.src, v.num) = "nil" /\ v.num + 1 <= Len(files)
      BY <2>1, <3>1, SoundBefore DEF Sound, Fits
    <3>3. QED
      BY <1>1, <2>1, <3>2
  <2>5. vol'[p] = v
    BY <2>0
  <2>6. QED
    BY <2>2, <2>3, <2>4, <2>5 DEF VolInv, Sound, Has, Fits, Listed, init, Content
<1>9. vol'[p] \in Volumes'
  BY <1>2, <1>3 DEF Volumes
<1>10. QED
  BY <1>8, <1>9

(* How many readers a step of one of them adds or takes away. *)
LEMMA CountOne ==
  ASSUME NEW A, NEW B, IsFiniteSet(A), NEW p, NEW a \in BOOLEAN, NEW b \in BOOLEAN,
         p \in A <=> a, p \in B <=> b, \A q : q # p => (q \in A <=> q \in B)
  PROVE  /\ Cardinality(B) = Cardinality(A) + One(b) - One(a)
         /\ Cardinality(A) \in Int /\ Cardinality(B) \in Int
<1>1. CASE b
  <2>1. B = A \cup {p}
    BY <1>1
  <2>2. QED
    BY <1>1, <2>1, FS_AddElement, FS_CardinalityType DEF One
<1>2. CASE ~b
  <2>1. B = A \ {p}
    BY <1>2
  <2>2. QED
    BY <1>2, <2>1, FS_RemoveElement, FS_CardinalityType DEF One
<1>3. QED
  BY <1>1, <1>2

Held(v) == One(v.fopen) + One(v.pc \in {"new", "init"})

(* A step of reader p: what there is to show is about p alone. *)
LEMMA StepOf ==
  ASSUME IInv, NEW p \in Procs, arch' = arch, Grown(files'), old' \in BOOLEAN,
         vol' \in [Procs -> Volumes'], \A q \in Procs : q # p => vol'[q] = vol[q],
         VolInv(p)', nopen' = nopen + Held(vol'[p]) - Held(vol[p]),
         listed' \in BOOLEAN, seen' \in Nat, seen' <= Len(files')
  PROVE  IInv'
<1>1. TypeInv'
  <2>1. Len(files') >= 1
    BY DEF IInv, TypeInv, Grown
  <2>2. nopen' \in Int
    BY DEF IInv, TypeInv, Held, One
  <2>3. files' \in Seq(FileNames')
    BY DEF Grown, FileNames
  <2>4. arch' \in Archives
    BY DEF IInv, TypeInv
  <2>5. QED
    BY <2>1, <2>2, <2>3, <2>4 DEF TypeInv
<1>2. \A q \in Procs : VolInv(q)'
  BY OtherVolume
<1>3. NoHandleLost'
  <2>1. IsFiniteSet(Procs)
    BY RoleAssumption, FS_Singleton, FS_Union DEF Procs
  <2>2. Opened \in SUBSET Procs /\ Coming \in SUBSET Procs
    BY DEF Opened, Coming
  <2>3. IsFiniteSet(Opened) /\ IsFiniteSet(Coming)
    BY <2>1, <2>2, FS_Subset
  <2>4. vol[p].fopen \in BOOLEAN /\ vol'[p].fopen \in BOOLEAN
    BY DEF IInv, TypeInv, Volumes
  <2>5. /\ Cardinality(Opened') = Cardinality(Opened) + One(vol'[p].fopen)
                                                      - One(vol[p].fopen)
        /\ Cardinality(Opened) \in Int /\ Cardinality(Opened') \in Int
    <3>1. p \in Opened <=> vol[p].fopen
      BY DEF Opened
    <3>2. p \in Opened' <=> vol'[p].fopen
      BY DEF Opened
    <3>3. \A q : q # p => (q \in Opened <=> q \in Opened')
      BY DEF Opened
    <3>4. QED
      BY <2>3, <2>4, <3>1, <3>2, <3>3, CountOne
  <2> DEFINE a == vol[p].pc \in {"new", "init"}
             b == vol'[p].pc \in {"new", "init"}
  <2>6. /\ Cardinality(Coming') = Cardinality(Coming) + One(b) - One(a)
        /\ Cardinality(Coming) \in Int /\ Cardinality(Coming') \in Int
    <3>1. p \in Coming <=> a
      BY DEF Coming
    <3>2. p \in Coming' <=> b
      BY DEF Coming
    <3>3. \A q : q # p => (q \in Coming <=> q \in Coming')
      BY DEF Coming
    <3>4. a \in BOOLEAN /\ b \in BOOLEAN
      OBVIOUS
    <3> HIDE DEF a, b
    <3>5. QED
      BY <2>3, <3>1, <3>2, <3>3, <3>4, CountOne
  <2>7. nopen = Cardinality(Opened) + Cardinality(Coming)
    BY DEF IInv, NoHandleLost, Opened, Coming
  <2>8. /\ One(vol[p].fopen) \in Int /\ One(vol'[p].fopen) \in Int
        /\ One(a) \in Int /\ One(b) \in Int
    BY DEF One
  <2>9. nopen' = nopen + (One(vol'[p].fopen) + One(b)) - (One(vol[p].fopen) + One(a))
    BY DEF Held
  <2> HIDE DEF a, b
  <2>10. nopen' = Cardinality(Opened') + Cardinality(Coming')
    <3>1. PICK c1 \in Int, c2 \in Int, d1 \in Int, d2 \in Int :
                 /\ c1 = Cardinality(Opened) /\ c2 = Cardinality(Coming)
                 /\ d1 = Cardinality(Opened') /\ d2 = Cardinality(Coming')
      BY ONLY <2>5, <2>6
    <3>2. PICK e1 \in Int, e2 \in Int, f1 \in Int, f2 \in Int :
                 /\ e1 = One(vol[p].fopen) /\ e2 = One(vol'[p].fopen)
                 /\ f1 = One(a) /\ f2 = One(b)
      BY ONLY <2>8
    <3>3. d1 = c1 + e2 - e1 /\ d2 = c2 + f2 - f1
      BY Zenon, <2>5, <2>6, <3>1, <3>2
    <3>4. nopen' = c1 + c2 + (e2 + f2) - (e1 + f1)
      BY Zenon, <2>7, <2>9, <3>1, <3>2
    <3>5. c1 + c2 + (e2 + f2) - (e1 + f1) = d1 + d2
      BY ONLY <3>3, c1 \in Int, c2 \in Int, d1 \in Int, d2 \in Int,
              e1 \in Int, e2 \in Int, f1 \in Int, f2 \in Int
    <3>6. QED
      BY Zenon, <3>1, <3>4, <3>5
  <2>11. QED
    BY <2>10 DEF NoHandleLost, Opened, Coming
<1>4. QED
  BY <1>1, <1>2, <1>3 DEF IInv

(* What every step starts from, and a list that has grown comes to. *)
LEMMA Start ==
  ASSUME IInv, NEW p \in Procs, Grown(files')
  PROVE  /\ vol[p] \in Volumes /\ VolInv(p) /\ vol \in [Procs -> Volumes]
         /\ Len(files) \in Nat /\ Len(files') \in Nat /\ Len(files') >= Len(files)
         /\ seen \in Nat /\ seen <= Len(files) /\ old \in BOOLEAN /\ listed \in BOOLEAN
         /\ Volumes \subseteq Volumes' /\ FileNames \subseteq FileNames'
         /\ <<>> \in FileNames'
         /\ \A n \in Nat : n + 1 <= Len(files') => files'[n + 1] \in FileNames'
<1>1. /\ Len(files) \in Nat /\ Len(files') \in Nat /\ Len(files') >= Len(files)
      /\ \A i \in 1 .. Len(files) : files'[i] = files[i]
  BY DEF IInv, TypeInv, Grown
<1>2. FileNames \subseteq FileNames' /\ <<>> \in FileNames'
  BY <1>1 DEF FileNames
<1>3. Volumes \subseteq Volumes'
  BY <1>2 DEF Volumes
<1>4. \A n \in Nat : n + 1 <= Len(files') => files'[n + 1] \in FileNames'
  BY <1>1 DEF FileNames
<1>5. QED
  BY <1>1, <1>2, <1>3, <1>4 DEF IInv, TypeInv

(* Open has a file or an error of these. *)
LEMMA OpenErrorIs ==
  ASSUME NEW name
  PROVE  /\ OpenError(name) \in {NotExist, "denied", "nil"}
         /\ OpenError(name) = "nil" => name \in DOMAIN Content
<1>1. CASE Status(name) = "missing"
  BY <1>1 DEF OpenError, NotExist
<1>2. CASE Status(name) = "denied"
  BY <1>2 DEF OpenError
<1>3. CASE Status(name) \notin {"missing", "denied"}
  BY <1>3 DEF OpenError, Status
<1>4. QED
  BY <1>1, <1>2, <1>3

(* openVolumeFile in a step: the name it opens, and Open's answer. *)
LEMMA FileStep ==
  ASSUME IInv, NEW p \in Procs, NEW n \in Nat, n <= Len(files),
         files' = openVolumeFile(n).files, old' = openVolumeFile(n).old
  PROVE  /\ Grown(files') /\ old' \in BOOLEAN
         /\ \E name, e : /\ name = openVolumeFile(n).name /\ e = OpenError(name)
                         /\ e \in Results
                         /\ e = "nil" => /\ n + 1 <= Len(files') /\ name = files'[n + 1]
                                        /\ name \in FileNames' /\ name \in DOMAIN Content
<1> DEFINE o == openVolumeFile(n)
<1>1. /\ Grown(o.files) /\ o.old \in BOOLEAN
      /\ OpenError(o.name) = "nil" => n + 1 <= Len(o.files) /\ o.name = o.files[n + 1]
  BY OpenVolumeFile DEF IInv
<1>2. files' = o.files /\ old' = o.old
  OBVIOUS
<1> HIDE DEF o
<1>3. PICK name : name = o.name
  OBVIOUS
<1>4. PICK e : e = OpenError(name)
  OBVIOUS
<1>5. Grown(files') /\ old' \in BOOLEAN
  BY <1>1, <1>2
<1>6. e = "nil" => n + 1 <= Len(files') /\ name = files'[n + 1]
  BY <1>1, <1>2, <1>3, <1>4
<1>7. e = "nil" => name \in FileNames'
  BY <1>5, <1>6, Start
<1>8. e \in Results /\ (e = "nil" => name \in DOMAIN Content)
  BY <1>4, OpenErrorIs DEF NotExist, Results
<1>9. QED
  BY <1>3, <1>4, <1>5, <1>6, <1>7, <1>8 DEF o

(* newVolume: the file of the volume is open, or the volume is not to be had. *)
LEMMA NewVolume ==
  ASSUME IInv, NEW p \in Procs, NEW n \in Nat, newVolume(p, n)
  PROVE  IInv'
<1>1. n <= Len(files)
  BY DEF newVolume, IInv, TypeInv
<1>2. /\ files' = openVolumeFile(n).files /\ old' = openVolumeFile(n).old
      /\ vol[p].pc = "none" /\ UNCHANGED <<disk, listed, seen, changes, arch>>
  BY Zenon DEF newVolume
<1>3. /\ Grown(files') /\ old' \in BOOLEAN
      /\ \E name, e : /\ name = openVolumeFile(n).name /\ e = OpenError(name)
                      /\ e \in Results
                      /\ e = "nil" => /\ n + 1 <= Len(files') /\ name = files'[n + 1]
                                     /\ name \in FileNames' /\ name \in DOMAIN Content
  BY <1>1, <1>2, FileStep
<1>4. PICK name, e : /\ name = openVolumeFile(n).name /\ e = OpenError(name)
                     /\ e \in Results
                     /\ e = "nil" => /\ n + 1 <= Len(files') /\ name = files'[n + 1]
                                    /\ name \in FileNames' /\ name \in DOMAIN Content
  BY <1>3
<1> DEFINE r == [NoVolume EXCEPT !.pc = "new", !.next = name, !.want = n]
<1>5. IF e = "nil"
      THEN vol' = [vol EXCEPT ![p] = r] /\ nopen' = nopen + 1
      ELSE vol' = [vol EXCEPT ![p].pc = "failed", ![p].ret = e] /\ nopen' = nopen
  BY <1>4, Zenon DEF newVolume
<1>6. /\ vol[p] \in Volumes /\ VolInv(p) /\ vol \in [Procs -> Volumes]
      /\ Len(files) \in Nat /\ Len(files') \in Nat /\ Len(files') >= Len(files)
      /\ seen \in Nat /\ seen <= Len(files) /\ listed \in BOOLEAN
      /\ Volumes \subseteq Volumes' /\ <<>> \in FileNames' /\ nopen \in Int
  BY <1>3, Start DEF IInv, TypeInv
<1>7. ~vol[p].fopen /\ Held(vol[p]) = 0
  BY <1>2, <1>6 DEF VolInv, Sound, Has, Held, One, Volumes
<1>8. CASE e = "nil"
  <2>1. vol' = [vol EXCEPT ![p] = r] /\ nopen' = nopen + 1
    BY <1>5, <1>8
  <2>2. r \in Volumes'
    BY <1>4, <1>6, <1>8 DEF NoVolume, Volumes, Results
  <2>3. /\ r.pc = "new" /\ ~r.fopen /\ r.next = name /\ r.want = n
    BY DEF NoVolume
  <2> HIDE DEF r
  <2>4. vol'[p] = r /\ vol' \in [Procs -> Volumes']
    BY <1>6, <2>1, <2>2
  <2>5. \A q \in Procs : q # p => vol'[q] = vol[q]
    BY <1>6, <2>1
  <2>6. VolInv(p)'
    BY <1>2, <1>4, <1>8, <2>3, <2>4 DEF VolInv, Sound, Has, Listed, Content
  <2>7. Held(vol'[p]) = 1
    BY <2>3, <2>4 DEF Held, One
  <2>8. nopen' = nopen + Held(vol'[p]) - Held(vol[p])
    BY <1>6, <1>7, <2>1, <2>7
  <2>9. QED
    BY <1>2, <1>3, <1>6, <2>4, <2>5, <2>6, <2>8, StepOf
<1>9. CASE e # "nil"
  <2>1. vol' = [vol EXCEPT ![p].pc = "failed", ![p].ret = e] /\ nopen' = nopen
    BY <1>5, <1>9
  <2>2. vol' \in [Procs -> Volumes']
    BY <1>4, <1>6, <2>1 DEF Volumes
  <2>3. \A q \in Procs : q # p => vol'[q] = vol[q]
    BY <1>6, <2>1
  <2>4. vol'[p].pc = "failed" /\ vol'[p].fopen = vol[p].fopen
    BY <1>6, <2>1 DEF Volumes
  <2>5. VolInv(p)' /\ Held(vol'[p]) = 0
    BY <1>7, <2>4 DEF VolInv, Sound, Has, Held, One
  <2>6. nopen' = nopen + Held(vol'[p]) - Held(vol[p])
    BY <1>6, <1>7, <2>1, <2>5
  <2>7. QED
    BY <1>2, <1>3, <1>6, <2>2, <2>3, <2>5, <2>6, StepOf
<1>10. QED
  BY <1>8, <1>9

(* A step of reader p that leaves the list as it is. *)
LEMMA StepKeep ==
  ASSUME IInv, NEW p \in Procs, UNCHANGED <<files, arch>>, old' \in BOOLEAN,
         NEW v \in Volumes, vol' = [vol EXCEPT ![p] = v], Sound(v),
         nopen' = nopen + Held(v) - Held(vol[p]),
         listed' \in BOOLEAN, seen' \in Nat, seen' <= Len(files)
  PROVE  IInv'
<1>1. Grown(files')
  BY GrowNot DEF IInv
<1>2. vol \in [Procs -> Volumes] /\ Volumes \subseteq Volumes'
  BY <1>1, Start
<1>3. vol'[p] = v /\ vol' \in [Procs -> Volumes'] /\ \A q \in Procs : q # p => vol'[q] = vol[q]
  BY <1>2
<1>4. VolInv(p)'
  BY <1>3 DEF VolInv, Sound, Has, Fits, SoundVolumes, Listed, init, Content
<1>5. nopen' = nopen + Held(vol'[p]) - Held(vol[p])
  BY <1>3
<1>6. QED
  BY <1>1, <1>3, <1>4, <1>5, StepOf

(* What is known of the volume of a reader. *)
LEMMA Here ==
  ASSUME IInv, NEW p \in Procs
  PROVE  /\ vol[p] \in Volumes /\ Sound(vol[p]) /\ vol \in [Procs -> Volumes]
         /\ nopen \in Int /\ listed \in BOOLEAN /\ old \in BOOLEAN
         /\ seen \in Nat /\ Len(files) \in Nat /\ Len(files) >= 1 /\ seen <= Len(files)
BY DEF IInv, TypeInv, VolInv

(* newVolumeInit: the volume can be read, or its file is closed. *)
LEMMA NewVolumeInit ==
  ASSUME IInv, NEW p \in Procs, newVolumeInit(p)
  PROVE  IInv'
<1> DEFINE v == vol[p]
<1>1. PICK e : e = init(v.next, v.want)
  OBVIOUS
<1>2. /\ v.pc = "new" /\ UNCHANGED <<files, arch, listed>>
      /\ seen' = IF p = Main /\ e = "nil" THEN 1 ELSE seen
      /\ IF e = "nil"
         THEN /\ vol' = [vol EXCEPT ![p].pc = "ready", ![p].f = v.next, ![p].fopen = TRUE,
                                    ![p].src = v.next, ![p].num = v.want]
              /\ old' = (IF p = Main THEN Content[v.next].old ELSE old)
              /\ nopen' = nopen
         ELSE /\ vol' = [vol EXCEPT ![p].pc = "failed", ![p].ret = e]
              /\ nopen' = nopen - 1
              /\ old' = old
  BY <1>1, Zenon DEF newVolumeInit
<1>3. /\ v \in Volumes /\ Sound(v) /\ vol \in [Procs -> Volumes]
      /\ nopen \in Int /\ listed \in BOOLEAN /\ old \in BOOLEAN
      /\ seen \in Nat /\ Len(files) \in Nat /\ Len(files) >= 1 /\ seen <= Len(files)
  BY Here
<1>4. ~v.fopen /\ Held(v) = 1 /\ Listed(v.want, v.next) /\ v.next \in DOMAIN Content
  BY <1>2, <1>3 DEF Sound, Has, Held, One, Volumes
<1>5. CASE e = "nil"
  <2> DEFINE w == [v EXCEPT !.pc = "ready", !.f = v.next, !.fopen = TRUE,
                            !.src = v.next, !.num = v.want]
  <2>1. vol' = [vol EXCEPT ![p] = w] /\ w \in Volumes
    BY <1>2, <1>3, <1>5 DEF Volumes
  <2>2. Sound(w) /\ Held(w) = 1
    BY <1>1, <1>3, <1>4, <1>5 DEF Volumes, Sound, Has, Fits, Held, One, Listed
  <2>3. Content[v.next].old \in BOOLEAN
    BY <1>4, ArchiveAssumption DEF Content, IInv, TypeInv
  <2> HIDE DEF v, w
  <2>4. old' \in BOOLEAN /\ nopen' = nopen + Held(w) - Held(v)
    BY <1>2, <1>3, <1>4, <1>5, <2>2, <2>3
  <2>5. listed' \in BOOLEAN /\ seen' \in Nat /\ seen' <= Len(files)
    BY <1>2, <1>3
  <2>6. QED
    BY <1>2, <2>1, <2>2, <2>4, <2>5, StepKeep DEF v
<1>6. CASE e # "nil"
  <2> DEFINE w == [v EXCEPT !.pc = "failed", !.ret = e]
  <2>1. e \in Results
    BY <1>1 DEF init, Results
  <2>2. vol' = [vol EXCEPT ![p] = w] /\ w \in Volumes
    BY <1>2, <1>3, <1>6, <2>1 DEF Volumes
  <2>3. Sound(w) /\ Held(w) = 0
    BY <1>3, <1>4 DEF Volumes, Sound, Has, Held, One
  <2> HIDE DEF v, w
  <2>4. old' \in BOOLEAN /\ nopen' = nopen + Held(w) - Held(v)
    BY <1>2, <1>3, <1>4, <1>6, <2>3
  <2>5. listed' \in BOOLEAN /\ seen' \in Nat /\ seen' <= Len(files)
    BY <1>2, <1>3, <1>6
  <2>6. QED
    BY <1>2, <2>2, <2>3, <2>4, <2>5, StepKeep DEF v
<1>7. QED
  BY <1>5, <1>6

(* The first step of open: the file that is read is closed. *)
LEMMA OpenStart ==
  ASSUME IInv, NEW p \in Procs, NEW n \in Nat, NEW why \in {"more", "last", "none"},
         n <= Len(files), vol[p].pc = "ready", openStart(p, n, why)
  PROVE  IInv'
<1> DEFINE v == vol[p]
<1>1. /\ v \in Volumes /\ Sound(v) /\ vol \in [Procs -> Volumes]
      /\ nopen \in Int /\ listed \in BOOLEAN /\ old \in BOOLEAN
      /\ seen \in Nat /\ Len(files) \in Nat /\ seen <= Len(files)
  BY Here
<1>2. UNCHANGED <<files, arch, old, listed, seen>>
  BY DEF openStart, vm
<1>3. CASE v.fopen \/ arch.reclose
  <2> DEFINE w == [v EXCEPT !.pc = "open", !.fopen = FALSE, !.want = n, !.why = why]
  <2>1. /\ vol' = [vol EXCEPT ![p] = w] /\ w \in Volumes
        /\ nopen' = IF v.fopen THEN nopen - 1 ELSE nopen
    BY <1>1, <1>3 DEF Volumes, openStart
  <2>2. Held(w) = 0 /\ Held(v) = IF v.fopen THEN 1 ELSE 0
    BY <1>1 DEF Volumes, Held, One
  <2>3. /\ w.pc = "open" /\ ~w.fopen /\ w.want = n /\ w.num = v.num /\ w.src = v.src
    BY <1>1 DEF Volumes
  <2> HIDE DEF w
  <2>4. Sound(w)
    BY <1>1, <2>3 DEF Sound, Has
  <2> HIDE DEF v
  <2>5. nopen' = nopen + Held(w) - Held(v)
    BY <1>1, <2>1, <2>2
  <2>6. QED
    BY <1>1, <1>2, <2>1, <2>4, <2>5, StepKeep DEF v
<1>4. CASE ~(v.fopen \/ arch.reclose)
  <2> DEFINE w == [v EXCEPT !.ret = "ErrClosed"]
  <2>1. vol' = [vol EXCEPT ![p] = w] /\ w \in Volumes /\ nopen' = nopen
    BY <1>1, <1>4 DEF Volumes, Results, openStart
  <2>2. Sound(w) /\ Held(w) = Held(v) /\ Held(v) \in Int
    BY <1>1, <1>4 DEF Volumes, Sound, Has, Held, One
  <2> HIDE DEF v, w
  <2>3. nopen' = nopen + Held(w) - Held(v)
    BY <1>1, <2>1, <2>2
  <2>4. QED
    BY <1>1, <1>2, <2>1, <2>2, <2>3, StepKeep DEF v
<1>5. QED
  BY <1>1, <1>3, <1>4 DEF Volumes

LEMMA NextBlock ==
  ASSUME IInv, NEW p \in Procs, nextBlock(p)
  PROVE  IInv'
<1> DEFINE v == vol[p]
           n == v.num + 1
           why == Content[v.src].end
<1>1. /\ v \in Volumes /\ Sound(v)
      /\ seen \in Nat /\ Len(files) \in Nat /\ seen <= Len(files)
  BY Here
<1>2. /\ v.pc = "ready" /\ v.ret = "nil" /\ openStart(p, n, why)
      /\ p # Main => n < seen
  BY DEF nextBlock
<1>3. n \in Nat
  BY <1>1 DEF Volumes
<1>4. n <= Len(files)
  BY <1>1, <1>2, <1>3 DEF Sound, Has
<1>5. why \in {"more", "last", "none"}
  <2>1. v.src \in DOMAIN Content
    BY <1>1, <1>2 DEF Sound, Has
  <2>2. QED
    BY <2>1, ArchiveAssumption DEF Content, IInv, TypeInv
<1> HIDE DEF n, why
<1>6. QED
  BY <1>2, <1>3, <1>4, <1>5, OpenStart

LEMMA NextBlockRefused ==
  ASSUME IInv, NEW p \in Procs, nextBlockRefused(p)
  PROVE  IInv'
<1> DEFINE v == vol[p]
<1>1. /\ v \in Volumes /\ Sound(v) /\ vol \in [Procs -> Volumes]
      /\ nopen \in Int /\ listed \in BOOLEAN /\ old \in BOOLEAN
      /\ seen \in Nat /\ Len(files) \in Nat /\ seen <= Len(files)
  BY Here
<1>2. PICK e \in {"nil", "ErrClosed"} : vol' = [vol EXCEPT ![p].ret = e]
  BY DEF nextBlockRefused
<1> DEFINE w == [v EXCEPT !.ret = e]
<1>3. vol' = [vol EXCEPT ![p] = w] /\ w \in Volumes
  BY <1>1, <1>2 DEF Volumes, Results
<1>4. Sound(w) /\ Held(w) = Held(v) /\ Held(v) \in Int
  BY <1>1 DEF Volumes, Sound, Has, Held, One
<1> HIDE DEF v, w
<1>5. nopen' = nopen + Held(w) - Held(v) /\ UNCHANGED <<files, arch, old, seen, listed>>
  BY <1>1, <1>4 DEF nextBlockRefused, vm
<1>6. QED
  BY <1>1, <1>3, <1>4, <1>5, StepKeep DEF v

LEMMA NextBlockEnd ==
  ASSUME IInv, NEW p \in Procs, nextBlockEnd(p)
  PROVE  IInv'
<1> DEFINE v == vol[p]
           w == [v EXCEPT !.ret = "EOF"]
<1>1. /\ v \in Volumes /\ Sound(v) /\ vol \in [Procs -> Volumes]
      /\ nopen \in Int /\ listed \in BOOLEAN /\ old \in BOOLEAN
      /\ seen \in Nat /\ Len(files) \in Nat /\ seen <= Len(files)
  BY Here
<1>2. /\ UNCHANGED <<files, arch, old, nopen, seen>> /\ listed' \in BOOLEAN
      /\ vol' = [vol EXCEPT ![p] = w] /\ w \in Volumes
  BY <1>1 DEF nextBlockEnd, vm, Volumes, Results
<1>3. Sound(w) /\ Held(w) = Held(v) /\ Held(v) \in Int
  BY <1>1 DEF Volumes, Sound, Has, Held, One
<1> HIDE DEF v, w
<1>4. nopen' = nopen + Held(w) - Held(v)
  BY <1>1, <1>2, <1>3
<1>5. QED
  BY <1>1, <1>2, <1>3, <1>4, StepKeep DEF v

(* openBlock: the volume is the one that is open, or is opened. *)
LEMMA OpenBlock ==
  ASSUME IInv, NEW p \in Procs, NEW n \in Nat, openBlock(p, n)
  PROVE  IInv'
<1> DEFINE v == vol[p]
<1>1. /\ v \in Volumes /\ Sound(v) /\ vol \in [Procs -> Volumes]
      /\ nopen \in Int /\ listed \in BOOLEAN /\ old \in BOOLEAN
      /\ seen \in Nat /\ Len(files) \in Nat /\ seen <= Len(files)
  BY Here
<1>2. p # Main /\ v.pc = "ready" /\ n < seen
  BY DEF openBlock
<1>3. CASE openStart(p, n, "more")
  BY <1>1, <1>2, <1>3, OpenStart
<1>4. ASSUME NEW e \in {"nil", "ErrClosed"}, vol' = [vol EXCEPT ![p].ret = e],
             UNCHANGED <<vm, nopen, disk, listed, seen, changes, arch>>
      PROVE  IInv'
  <2> DEFINE w == [v EXCEPT !.ret = e]
  <2>1. vol' = [vol EXCEPT ![p] = w] /\ w \in Volumes
    BY <1>1, <1>4 DEF Volumes, Results
  <2>2. Sound(w) /\ Held(w) = Held(v) /\ Held(v) \in Int
    BY <1>1, <1>2 DEF Volumes, Sound, Has, Held, One
  <2> HIDE DEF v, w
  <2>3. nopen' = nopen + Held(w) - Held(v) /\ UNCHANGED <<files, arch, old, seen, listed>>
    BY <1>1, <1>4, <2>2 DEF vm
  <2>4. QED
    BY <1>1, <2>1, <2>2, <2>3, StepKeep DEF v
<1>5. QED
  BY <1>3, <1>4 DEF openBlock

(* The second step of open: the file of the volume, or an error, or the end. *)
LEMMA OpenFile ==
  ASSUME IInv, NEW p \in Procs, openFile(p)
  PROVE  IInv'
<1> DEFINE v == vol[p]
<1>0. /\ v \in Volumes /\ Sound(v) /\ vol \in [Procs -> Volumes]
      /\ nopen \in Int /\ listed \in BOOLEAN
      /\ seen \in Nat /\ Len(files) \in Nat /\ Len(files) >= 1 /\ seen <= Len(files)
  BY Here
<1>1. v.pc = "open" /\ v.want \in Nat /\ v.want <= Len(files)
  BY <1>0 DEF openFile, Sound, Has, Volumes
<1>2. /\ files' = openVolumeFile(v.want).files /\ old' = openVolumeFile(v.want).old
      /\ UNCHANGED <<disk, seen, changes, arch>>
  BY Zenon DEF openFile
<1>3. /\ Grown(files') /\ old' \in BOOLEAN
      /\ \E name, e : /\ name = openVolumeFile(v.want).name /\ e = OpenError(name)
                      /\ e \in Results
                      /\ e = "nil" => /\ v.want + 1 <= Len(files') /\ name = files'[v.want + 1]
                                     /\ name \in FileNames' /\ name \in DOMAIN Content
  BY <1>1, <1>2, FileStep
<1>4. PICK name, e : /\ name = openVolumeFile(v.want).name /\ e = OpenError(name)
                     /\ e \in Results
                     /\ e = "nil" => /\ v.want + 1 <= Len(files') /\ name = files'[v.want + 1]
                                    /\ name \in FileNames' /\ name \in DOMAIN Content
  BY <1>3
<1> DEFINE end == e = NotExist /\ v.why = "none"
<1>5. /\ IF e = "nil"
         THEN vol' = [vol EXCEPT ![p].pc = "init", ![p].next = name] /\ nopen' = nopen + 1
         ELSE /\ vol' = [vol EXCEPT ![p].pc = "ready", ![p].ret = IF end THEN "EOF" ELSE e]
              /\ nopen' = nopen
      /\ listed' = (listed \/ (end /\ p = Main))
  BY <1>4, Zenon DEF openFile
<1>6. /\ Len(files') \in Nat /\ Len(files') >= Len(files)
      /\ Volumes \subseteq Volumes' /\ FileNames \subseteq FileNames'
  BY <1>3, Start DEF IInv, TypeInv
<1>7. ~v.fopen /\ Held(v) = 0 /\ v.src \in DOMAIN Content
  BY <1>0, <1>1 DEF Sound, Has, Held, One, Volumes
<1>8. ASSUME NEW w, w.num = v.num, w.src = v.src, ~w.fopen
       PROVE  /\ w.num + 1 <= Len(files')
              /\ SoundVolumes' => Fits(w.num, w.src)'
  <2>1. v.num \in Nat /\ v.num + 1 <= Len(files) /\ (SoundVolumes => Fits(v.num, v.src))
    BY <1>0, <1>1 DEF Sound, Has, Volumes
  <2>2. \A i \in 1 .. Len(files) : files'[i] = files[i]
    BY <1>3 DEF Grown
  <2>3. w.num + 1 <= Len(files')
    BY <1>0, <1>6, <1>8, <2>1
  <2>4. SoundVolumes' => SoundVolumes
    BY <1>2, <1>3, SoundBefore
  <2>5. Fits(v.num, v.src) => Fits(w.num, w.src)'
    BY <1>0, <1>2, <1>8, <2>1, <2>2 DEF Fits, init, Content
  <2>6. QED
    BY <2>1, <2>3, <2>4, <2>5
<1>9. listed' \in BOOLEAN /\ seen' \in Nat /\ seen' <= Len(files')
  BY <1>0, <1>2, <1>5, <1>6
<1>10. CASE e = "nil"
  <2> DEFINE r == [v EXCEPT !.pc = "init", !.next = name]
  <2>1. vol' = [vol EXCEPT ![p] = r] /\ nopen' = nopen + 1
    BY <1>0, <1>5, <1>10
  <2>2. PICK w : w = r
    OBVIOUS
  <2>3. w \in Volumes'
    <3>1. v \in Volumes' /\ name \in FileNames'
      BY <1>0, <1>4, <1>6, <1>10
    <3>2. PICK u : u = v
      OBVIOUS
    <3>3. w = [u EXCEPT !.pc = "init", !.next = name] /\ u \in Volumes'
      BY <1>0, <1>6, <2>2, <3>2
    <3>4. QED
      BY <3>1, <3>3 DEF Volumes
  <2>4. /\ w.pc = "init" /\ ~w.fopen /\ w.next = name /\ w.want = v.want /\ w.src = v.src
        /\ w.num = v.num
    BY <1>0, <1>7, <2>2 DEF Volumes
  <2>5. vol' = [vol EXCEPT ![p] = w] /\ vol'[p] = w /\ vol' \in [Procs -> Volumes']
    BY <1>0, <1>6, <2>1, <2>2, <2>3
  <2>6. \A q \in Procs : q # p => vol'[q] = vol[q]
    BY <1>0, <2>5
  <2>7. VolInv(p)'
    BY <1>2, <1>4, <1>7, <1>8, <1>10, <2>4, <2>5 DEF VolInv, Sound, Has, Listed, Content
  <2>8. Held(vol'[p]) = 1
    BY <2>4, <2>5 DEF Held, One
  <2>9. nopen' = nopen + Held(vol'[p]) - Held(vol[p])
    BY <1>0, <1>7, <2>1, <2>8
  <2>10. QED
    BY <1>2, <1>3, <1>9, <2>5, <2>6, <2>7, <2>9, StepOf
<1>11. CASE e # "nil"
  <2>1. PICK x : x = IF end THEN "EOF" ELSE e
    OBVIOUS
  <2>2. x \in Results /\ x # "nil"
    BY <1>4, <1>11, <2>1 DEF Results
  <2>3. vol' = [vol EXCEPT ![p].pc = "ready", ![p].ret = x] /\ nopen' = nopen
    BY <1>5, <1>11, <2>1
  <2>4. vol' \in [Procs -> Volumes']
    <3>1. vol \in [Procs -> Volumes'] /\ p \in Procs
      BY <1>0, <1>6
    <3>2. \A r \in Volumes' : [r EXCEPT !.pc = "ready", !.ret = x] \in Volumes'
      BY ONLY <2>2 DEF Volumes
    <3>3. vol' = [vol EXCEPT ![p] = [vol[p] EXCEPT !.pc = "ready", !.ret = x]]
      BY ONLY <2>3
    <3>4. QED
      BY ONLY <3>1, <3>2, <3>3
  <2>5. \A q \in Procs : q # p => vol'[q] = vol[q]
    BY <1>0, <2>3
  <2>6. /\ vol'[p].pc = "ready" /\ vol'[p].fopen = v.fopen /\ vol'[p].ret = x
        /\ vol'[p].src = v.src /\ vol'[p].num = v.num
    BY <1>0, <2>3 DEF Volumes
  <2>7. VolInv(p)' /\ Held(vol'[p]) = 0
    BY <1>2, <1>7, <1>8, <2>2, <2>6 DEF VolInv, Sound, Has, Held, One, Content
  <2>8. nopen' = nopen + Held(vol'[p]) - Held(vol[p])
    BY <1>0, <1>7, <2>3, <2>7
  <2>9. QED
    BY <1>2, <1>3, <1>9, <2>4, <2>5, <2>7, <2>8, StepOf
<1>12. QED
  BY <1>10, <1>11

(* The third step of open: the volume it was meant to be, or an error. *)
LEMMA OpenInit ==
  ASSUME IInv, NEW p \in Procs, openInit(p)
  PROVE  IInv'
<1> DEFINE v == vol[p]
<1>0. /\ v \in Volumes /\ Sound(v) /\ vol \in [Procs -> Volumes]
      /\ nopen \in Int /\ listed \in BOOLEAN /\ old \in BOOLEAN
      /\ seen \in Nat /\ Len(files) \in Nat /\ seen <= Len(files)
  BY Here
<1>1. PICK e : e = init(v.next, v.want)
  OBVIOUS
<1> DEFINE w == [v EXCEPT
                  !.pc = "ready", !.ret = e, !.src = v.next,
                  !.num = IF e = "ErrNoSig" THEN @ ELSE v.want,
                  !.f = IF e = "nil" THEN v.next ELSE @, !.fopen = (e = "nil")]
<1>2. /\ v.pc = "init"
      /\ vol' = [vol EXCEPT
           ![p].pc = "ready", ![p].ret = e, ![p].src = v.next,
           ![p].num = IF e = "ErrNoSig" THEN @ ELSE v.want,
           ![p].f = IF e = "nil" THEN v.next ELSE @, ![p].fopen = (e = "nil")]
      /\ nopen' = (IF e = "nil" THEN nopen ELSE nopen - 1)
      /\ seen' = (IF p = Main /\ e = "nil" THEN v.want + 1 ELSE seen)
      /\ UNCHANGED <<vm, disk, listed, changes, arch>>
  BY <1>1, Zenon DEF openInit
<1>3. /\ ~v.fopen /\ Held(v) = 1 /\ v.want + 1 <= Len(files) /\ v.want \in Nat
      /\ v.next = files[v.want + 1] /\ v.next \in DOMAIN Content
  BY <1>0, <1>2 DEF Sound, Has, Held, One, Volumes, Listed
<1>4. e \in Results /\ e # "EOF"
  BY <1>1 DEF init, Results
<1>5. vol' = [vol EXCEPT ![p] = w]
  BY <1>0, <1>2
<1>6. w \in Volumes
  BY <1>0, <1>4 DEF Volumes
<1>7. /\ w.pc = "ready" /\ w.ret = e /\ w.src = v.next /\ w.fopen = (e = "nil")
      /\ e = "nil" => w.num = v.want /\ w.f = v.next
      /\ w.num = v.num \/ w.num = v.want
  BY <1>0 DEF Volumes
<1> HIDE DEF w
<1>8. Sound(w)
  <2>1. w.num \in Nat /\ w.num + 1 <= Len(files)
    BY <1>0, <1>2, <1>3, <1>7 DEF Sound, Has, Volumes
  <2>2. e # "nil" => ~SoundVolumes
    <3>1. SUFFICES ASSUME SoundVolumes PROVE e = "nil"
      OBVIOUS
    <3>2. v.want + 1 \in 1 .. Len(files) /\ v.want + 1 - 1 = v.want
      BY <1>0, <1>3
    <3>3. init(files[v.want + 1], v.want + 1 - 1) = "nil"
      BY <1>3, <3>1, <3>2 DEF SoundVolumes
    <3>4. QED
      BY <1>1, <1>3, <3>2, <3>3
  <2>3. e = "nil" => Fits(w.num, w.src)
    BY <1>1, <1>3, <1>7 DEF Fits
  <2>4. QED
    BY <1>3, <1>7, <2>1, <2>2, <2>3 DEF Sound, Has
<1>9. Held(w) = IF e = "nil" THEN 1 ELSE 0
  <2>1. w.pc \notin {"new", "init"}
    BY <1>7
  <2>2. CASE e = "nil"
    <3>1. w.fopen
      BY <1>7, <2>2
    <3>2. QED
      BY <2>1, <2>2, <3>1 DEF Held, One
  <2>3. CASE e # "nil"
    <3>1. ~w.fopen
      BY <1>7, <2>3
    <3>2. QED
      BY <2>1, <2>3, <3>1 DEF Held, One
  <2>4. QED
    BY <2>2, <2>3
<1> HIDE DEF v
<1>10. nopen' = nopen + Held(w) - Held(v)
  BY <1>0, <1>2, <1>3, <1>9
<1>11. /\ UNCHANGED <<files, arch, old, listed>>
       /\ seen' \in Nat /\ seen' <= Len(files)
  BY <1>0, <1>2, <1>3 DEF vm
<1>12. QED
  BY <1>0, <1>5, <1>6, <1>8, <1>10, <1>11, StepKeep DEF v

LEMMA CloseStep ==
  ASSUME IInv, NEW p \in Procs, Close(p)
  PROVE  IInv'
<1> DEFINE v == vol[p]
           w == [v EXCEPT !.pc = "done", !.fopen = FALSE,
                          !.ret = IF v.fopen \/ arch.reclose THEN "nil" ELSE "ErrClosed"]
<1>1. /\ v \in Volumes /\ Sound(v) /\ vol \in [Procs -> Volumes]
      /\ nopen \in Int /\ listed \in BOOLEAN /\ old \in BOOLEAN
      /\ seen \in Nat /\ Len(files) \in Nat /\ seen <= Len(files)
  BY Here
<1>2. /\ vol' = [vol EXCEPT ![p] = w] /\ w \in Volumes /\ v.pc = "ready"
      /\ nopen' = (IF v.fopen THEN nopen - 1 ELSE nopen)
      /\ UNCHANGED <<vm, disk, listed, seen, changes, arch>>
  BY <1>1 DEF Close, Volumes, Results
<1>3. Sound(w) /\ Held(w) = 0 /\ Held(v) = IF v.fopen THEN 1 ELSE 0
  BY <1>1, <1>2 DEF Volumes, Sound, Has, Held, One
<1> HIDE DEF w
<1>4. nopen' = nopen + Held(w) - Held(v)
  BY <1>1, <1>2, <1>3
<1>5. UNCHANGED <<files, arch, old, listed, seen>>
  BY <1>2 DEF vm
<1>6. QED
  BY <1>1, <1>2, <1>3, <1>4, <1>5, StepKeep

(* A step that no reader takes. *)
LEMMA Elsewhere ==
  ASSUME IInv, UNCHANGED <<files, old, vol, nopen, listed, seen, arch>>
  PROVE  IInv'
<1>1. TypeInv'
  BY DEF IInv, TypeInv, FileNames, Volumes
<1>2. \A p \in Procs : VolInv(p)'
  BY DEF IInv, VolInv, Sound, Has, Fits, SoundVolumes, Listed, init, Content
<1>3. NoHandleLost'
  BY DEF IInv, NoHandleLost
<1>4. QED
  BY <1>1, <1>2, <1>3 DEF IInv
-----------------------------------------------------------------------------
LEMMA InitIInv == Init => IInv
<1> SUFFICES ASSUME Init PROVE IInv
  OBVIOUS
<1>1. TypeInv
  <2>1. files = <<arch.first>> /\ Len(files) = 1 /\ files[1] = arch.first
    BY DEF Init
  <2>2. files \in Seq(FileNames)
    BY <2>1 DEF FileNames
  <2>3. NoVolume \in Volumes
    BY DEF NoVolume, Volumes, FileNames, Results
  <2>4. vol \in [Procs -> Volumes]
    BY <2>3 DEF Init
  <2>5. /\ arch \in Archives /\ old \in BOOLEAN /\ listed \in BOOLEAN
        /\ nopen = 0 /\ seen = 0
    BY Zenon DEF Init
  <2>6. QED
    BY <2>1, <2>2, <2>4, <2>5 DEF TypeInv
<1>2. \A p \in Procs : VolInv(p)
  BY DEF Init, VolInv, Sound, Has, NoVolume
<1>3. NoHandleLost
  <2>1. {p \in Procs : vol[p].fopen} = {} /\ {p \in Procs : vol[p].pc \in {"new", "init"}} = {}
    BY DEF Init, NoVolume
  <2>2. nopen = 0 /\ Cardinality({}) = 0
    BY FS_EmptySet, Zenon DEF Init
  <2>3. 0 = Cardinality({}) + Cardinality({})
    BY ONLY <2>2
  <2>4. QED
    BY ONLY Zenon, <2>1, <2>2, <2>3 DEF NoHandleLost
<1>4. QED
  BY <1>1, <1>2, <1>3 DEF IInv

LEMMA NextIInv == IInv /\ [Next]_vars => IInv'
<1> SUFFICES ASSUME IInv, [Next]_vars PROVE IInv'
  OBVIOUS
<1>1. ASSUME NEW p \in Procs, NEW volnum \in 0 .. arch.volumes - 1,
             newVolume(p, volnum) \/ openBlock(p, volnum)
      PROVE  IInv'
  <2>1. volnum \in Nat
    BY ArchiveAssumption DEF IInv, TypeInv
  <2>2. QED
    BY <1>1, <2>1, NewVolume, OpenBlock
<1>2. ASSUME NEW p \in Procs,
             newVolumeInit(p) \/ nextBlock(p) \/ nextBlockRefused(p) \/ nextBlockEnd(p)
               \/ openFile(p) \/ openInit(p) \/ Close(p)
      PROVE  IInv'
  BY <1>2, NewVolumeInit, NextBlock, NextBlockRefused, NextBlockEnd, OpenFile, OpenInit,
     CloseStep
<1>3. ASSUME NEW name \in DOMAIN Content, Change(name)
      PROVE  IInv'
  BY <1>3, Elsewhere DEF Change, vm
<1>4. CASE UNCHANGED vars
  BY <1>4, Elsewhere DEF vars, vm
<1>5. QED
  BY <1>1, <1>2, <1>3, <1>4 DEF Next

(* The list, the volumes and the handles stay as IInv says, whatever the   *)
(* readers do in whatever order, and whatever becomes of the files: the    *)
(* strengthening that the properties below follow from.                    *)
THEOREM Invariance == Spec => []IInv
BY InitIInv, NextIInv, PTL DEF Spec

(* volumeManager, fileVolume.open: every reader is served the volume of    *)
(* its number, under the name the list has for it, after any number of     *)
(* opens that found no file or a locked one, its own file closed or not;   *)
(* and if files were refused as some other volume, whenever its file is    *)
(* open again.                                                             *)
THEOREM VolumesCurrent == Spec => []CurrentVolume
<1>1. IInv => CurrentVolume
  BY DEF IInv, VolInv, Sound, Has, Fits, CurrentVolume
<1>2. QED
  BY <1>1, Invariance, PTL

(* fileVolume.open, newVolume, Close: every handle that Open has given out *)
(* is held by a reader, or is closed, on every error path.                 *)
THEOREM HandlesKept == Spec => []NoHandleLost
<1>1. IInv => NoHandleLost
  BY DEF IInv
<1>2. QED
  BY <1>1, Invariance, PTL
-----------------------------------------------------------------------------
(* Names of volumes: to go from name to name comes to what NewName and     *)
(* OldName say, and the list has the names of one scheme.                  *)

\* no dot
Undotted(ext) == ext \in Seq(Token) /\ \A i \in 1 .. Len(ext) : ext[i].k # "dot"

\* d is where the last dot is, or 0
Dotted(f, d) ==
  /\ d \in 0 .. Len(f) /\ (d = 0 \/ f[d].k = "dot")
  /\ \A i \in d + 1 .. Len(f) : f[i].k # "dot"

\* the extension with the letter c, and n counted on from 00
Pair(c, n) == <<Letter(c + (n \div 100)), Num(2, n % 100)>>

\* the name after file
NameAfter(o, file) == IF o THEN nextOldVolName(file) ELSE nextNewVolName(file)

(* The names in list are those of one scheme, the old one or the new one.  *)
Schemed(list, o) ==
  /\ list[1] = arch.first
  /\ \A k \in 1 .. Len(list) - 1 :
       list[k + 1] = IF o THEN OldName(arch.first, k) ELSE NewName(arch.first, k)
  /\ Len(list) > 1 /\ ~o => hasDigits(fixFileExtension(arch.first))

(* Until the walk has read the header of the first volume, which says the  *)
(* scheme, nobody has asked for a second one.                              *)
SchemeInv ==
  /\ Schemed(files, old)
  /\ vol[Main].pc \in {"none", "new"} =>
       Len(files) = 1 /\ \A p \in Readers : vol[p].pc = "none"
-----------------------------------------------------------------------------
(* The highest of some numbers is one of them. *)
LEMMA HighestIs ==
  ASSUME NEW n \in Nat, NEW S, S \subseteq 0 .. n, S # {}
  PROVE  Highest(S) \in S /\ \A j \in S : j <= Highest(S)
<1> DEFINE T == {n - i : i \in S}
<1>1. T \subseteq Nat /\ T # {}
  <2>1. PICK s : s \in S
    OBVIOUS
  <2>2. n - s \in T
    BY <2>1
  <2>3. \A i \in S : n - i \in Nat
    OBVIOUS
  <2>4. QED
    BY <2>2, <2>3
<1>2. PICK x \in T : \A y \in T : x <= y
  BY <1>1, Least
<1>3. PICK i \in S : x = n - i
  BY <1>2
<1>4. \A j \in S : j <= i
  <2>1. TAKE j \in S
  <2>2. n - j \in T
    OBVIOUS
  <2>3. n - i <= n - j
    BY <1>2, <1>3, <2>2
  <2>4. i \in Nat /\ j \in Nat
    OBVIOUS
  <2>5. QED
    BY <2>3, <2>4
<1>5. QED
  BY <1>4 DEF Highest

(* LastDot is the place of the last dot. *)
LEMMA LastDotIs ==
  ASSUME NEW f \in Seq(Token)
  PROVE  Dotted(f, LastDot(f)) /\ \A d : Dotted(f, d) => d = LastDot(f)
<1> DEFINE S == {0} \cup PlacesOf(f, "dot")
<1>1. Len(f) \in Nat
  OBVIOUS
<1>2. S \subseteq 0 .. Len(f) /\ S # {}
  BY <1>1 DEF PlacesOf
<1>3. PICK h : h = LastDot(f)
  OBVIOUS
<1>4. h \in S /\ \A j \in S : j <= h
  BY <1>1, <1>2, <1>3, HighestIs DEF LastDot
<1>5. Dotted(f, h)
  <2>1. h \in 0 .. Len(f) /\ (h = 0 \/ f[h].k = "dot")
    BY <1>1, <1>4 DEF PlacesOf
  <2>2. ASSUME NEW i \in h + 1 .. Len(f), f[i].k = "dot" PROVE FALSE
    <3>1. i \in S /\ i > h
      BY <1>1, <2>1, <2>2 DEF PlacesOf
    <3>2. QED
      BY <1>4, <2>1, <3>1
  <2>3. QED
    BY <2>1, <2>2 DEF Dotted
<1>6. ASSUME NEW d, Dotted(f, d) PROVE d = h
  <2>1. d \in S /\ d \in 0 .. Len(f) /\ h \in 0 .. Len(f)
    BY <1>1, <1>5, <1>6 DEF Dotted, PlacesOf
  <2>2. ~(d < h)
    <3>1. SUFFICES ASSUME d < h PROVE FALSE
      OBVIOUS
    <3>2. h \in d + 1 .. Len(f) /\ h # 0
      BY <2>1, <3>1
    <3>3. QED
      BY <1>5, <1>6, <3>2 DEF Dotted
  <2>3. d <= h
    BY <1>4, <2>1
  <2>4. QED
    BY <2>1, <2>2, <2>3
<1>7. QED
  BY <1>3, <1>5, <1>6

(* A name up to its last dot with another extension has that extension. *)
LEMMA Renamed ==
  ASSUME NEW f \in Seq(Token), LastDot(f) >= 1, NEW ext, Undotted(ext),
         NEW g, g = UpToDot(f) \o ext
  PROVE  /\ g \in Seq(Token) /\ LastDot(g) = LastDot(f)
         /\ UpToDot(g) = UpToDot(f) /\ Extension(g) = ext
<1>1. PICK d : d = LastDot(f)
  OBVIOUS
<1>2. /\ d \in 1 .. Len(f) /\ Len(f) \in Nat /\ f[d].k = "dot"
      /\ ext \in Seq(Token) /\ Len(ext) \in Nat
  BY <1>1, LastDotIs DEF Dotted, Undotted
<1>3. PICK u : u = UpToDot(f)
  OBVIOUS
<1>4. u \in Seq(Token) /\ Len(u) = d /\ \A i \in 1 .. d : u[i] = f[i]
  BY <1>1, <1>2, <1>3 DEF UpToDot
<1>5. /\ g \in Seq(Token) /\ Len(g) = d + Len(ext)
      /\ \A j \in 1 .. d : g[j] = u[j]
      /\ \A j \in 1 .. Len(ext) : g[d + j] = ext[j]
      /\ \A j \in d + 1 .. d + Len(ext) : g[j] = ext[j - d]
  <2>1. g = Cat(u, ext)
    BY <1>3 DEF Cat
  <2>2. u \in Seq(Token) /\ ext \in Seq(Token)
    BY <1>2, <1>4
  <2>3. Cat(u, ext) \in Seq(Token) /\ Len(Cat(u, ext)) = Len(u) + Len(ext)
    BY ONLY <2>2, CatType
  <2>4. \A j \in 1 .. Len(u) : Cat(u, ext)[j] = u[j]
    BY ONLY <2>2, CatType
  <2>5. \A j \in 1 .. Len(ext) : Cat(u, ext)[Len(u) + j] = ext[j]
    BY ONLY <2>2, CatType
  <2>6. \A j \in Len(u) + 1 .. Len(u) + Len(ext) : Cat(u, ext)[j] = ext[j - Len(u)]
    BY ONLY <2>2, CatType
  <2>7. g = Cat(u, ext) /\ Len(u) = d
    BY <1>4, <2>1
  <2>8. QED
    BY ONLY <2>3, <2>4, <2>5, <2>6, <2>7, Zenon
<1>6. Dotted(g, d)
  <2>1. d \in 0 .. Len(g) /\ g[d].k = "dot"
    BY <1>2, <1>4, <1>5
  <2>2. ASSUME NEW i \in d + 1 .. Len(g) PROVE g[i].k # "dot"
    <3>1. i - d \in 1 .. Len(ext) /\ g[i] = ext[i - d]
      BY <1>2, <1>5
    <3>2. QED
      BY <3>1 DEF Undotted
  <2>3. QED
    BY <2>1, <2>2 DEF Dotted
<1>7. LastDot(g) = d
  BY <1>5, <1>6, LastDotIs
<1>8. UpToDot(g) = u
  <2>1. SubSeq(g, 1, d) \in Seq(Token) /\ Len(SubSeq(g, 1, d)) = d
        /\ \A i \in 1 .. d : SubSeq(g, 1, d)[i] = g[i]
    BY <1>2, <1>5
  <2>2. \A i \in 1 .. d : SubSeq(g, 1, d)[i] = u[i]
    BY <1>5, <2>1
  <2>3. SubSeq(g, 1, d) = u
    BY ONLY <1>4, <2>1, <2>2, SeqEqual
  <2>4. QED
    BY <1>7, <2>3 DEF UpToDot
<1>9. Extension(g) = ext
  <2>1. PICK e : e = Part(g, d + 1, Len(g))
    OBVIOUS
  <2>2. g \in Seq(Token)
    BY <1>5
  <2>3. d + 1 \in 1 .. Len(g) + 1 /\ Len(g) \in 0 .. Len(g) /\ d + 1 <= Len(g) + 1
    BY <1>2, <1>5
  <2>4. e \in Seq(Token) /\ Len(e) = Len(g) - (d + 1) + 1
        /\ \A i \in 1 .. Len(g) - (d + 1) + 1 : e[i] = g[d + 1 + i - 1]
    <3>1. Part(g, d + 1, Len(g)) \in Seq(Token)
      BY ONLY <2>2, <2>3, PartType
    <3>2. Len(Part(g, d + 1, Len(g))) = Len(g) - (d + 1) + 1
      BY ONLY <2>2, <2>3, PartType
    <3>3. \A i \in 1 .. Len(g) - (d + 1) + 1 : Part(g, d + 1, Len(g))[i] = g[d + 1 + i - 1]
      BY ONLY <2>2, <2>3, PartType
    <3>4. QED
      BY ONLY <2>1, <3>1, <3>2, <3>3, Zenon
  <2>5. Len(e) = Len(ext) /\ Len(g) - (d + 1) + 1 = Len(ext)
    BY <1>2, <1>5, <2>4
  <2>6. \A i \in 1 .. Len(ext) : e[i] = ext[i]
    <3>1. TAKE i \in 1 .. Len(ext)
    <3>2. e[i] = g[d + 1 + i - 1]
      BY ONLY <2>4, <2>5
    <3>3. d + 1 + i - 1 = d + i
      BY <1>2
    <3>4. QED
      BY ONLY <1>5, <3>2, <3>3
  <2>7. e = ext
    BY ONLY <1>2, <2>4, <2>5, <2>6, SeqEqual
  <2>8. QED
    BY <1>7, <2>1, <2>7 DEF Extension, Part
<1>10. QED
  BY <1>1, <1>3, <1>5, <1>7, <1>8, <1>9

(* A name of an archive that has been fixed has a dot and, behind it, an   *)
(* extension.                                                              *)
LEMMA Fixed ==
  ASSUME NEW file, IsName(file), NEW f, f = fixFileExtension(file)
  PROVE  f \in Seq(Token) /\ LastDot(f) >= 1 /\ Undotted(Extension(f))
<1>1. file \in Seq(Token) /\ Len(file) \in Nat
  BY DEF IsName
<1>2. Dotted(file, LastDot(file))
  BY <1>1, LastDotIs
<1>3. Rar \in Token /\ Rar.k = "word" /\ Dot \in Token /\ Dot.k = "dot"
  <2>1. Rar = [k |-> "word", w |-> "rar", c |-> 17] /\ Dot = [k |-> "dot"]
    BY DEF Rar, Word, Dot
  <2>2. [k |-> "word", w |-> "rar", c |-> 17] \in [k : {"word"}, w : Words, c : Nat]
    BY WordAssumption
  <2>3. [k |-> "dot"] \in [k : {"dot"}]
    OBVIOUS
  <2>4. Rar \in Token /\ Dot \in Token
    BY ONLY <2>1, <2>2, <2>3 DEF Token
  <2>5. QED
    BY <2>1, <2>4
<1>4. <<Rar>> \in Seq(Token) /\ Len(<<Rar>>) = 1 /\ Undotted(<<Rar>>)
  BY <1>3 DEF Undotted
<1>5. f \in Seq(Token) /\ LastDot(f) >= 1
  <2>1. CASE LastDot(file) = 0
    <3>1. f = file \o <<Dot, Rar>>
      BY <2>1 DEF fixFileExtension
    <3>2. <<Dot, Rar>> \in Seq(Token) /\ Len(<<Dot, Rar>>) = 2
      BY <1>3
    <3>3. /\ f \in Seq(Token) /\ Len(f) = Len(file) + 2
          /\ \A j \in 1 .. 2 : f[Len(file) + j] = <<Dot, Rar>>[j]
      BY ONLY <1>1, <3>1, <3>2, CatType DEF Cat
    <3>4. f[Len(file) + 1].k = "dot" /\ Len(file) + 1 \in 1 .. Len(f) /\ Len(f) \in Nat
      BY <1>1, <1>3, <3>3
    <3>5. LastDot(f) # 0
      BY <3>3, <3>4, LastDotIs DEF Dotted
    <3>6. LastDot(f) \in 0 .. Len(f)
      BY <3>3, LastDotIs DEF Dotted
    <3>7. QED
      BY <3>3, <3>4, <3>5, <3>6
  <2>2. CASE LastDot(file) # 0
    <3>1. LastDot(file) >= 1 /\ LastDot(file) > 0
      BY <1>1, <1>2, <2>2 DEF Dotted
    <3>2. f = UpToDot(file) \o <<Rar>> \/ f = file
      BY <2>2, <3>1 DEF fixFileExtension
    <3>3. QED
      BY <1>1, <1>4, <3>1, <3>2, Renamed
  <2>3. QED
    BY <2>1, <2>2
<1>6. Undotted(Extension(f))
  <2>1. PICK d : d = LastDot(f)
    OBVIOUS
  <2>2. Dotted(f, d) /\ Len(f) \in Nat
    BY <1>5, <2>1, LastDotIs
  <2>3. /\ d + 1 \in 1 .. Len(f) + 1 /\ Len(f) \in 0 .. Len(f) /\ d + 1 <= Len(f) + 1
        /\ d \in Nat
    BY <2>2 DEF Dotted
  <2>4. PICK e : e = Part(f, d + 1, Len(f))
    OBVIOUS
  <2>5. e \in Seq(Token) /\ Len(e) = Len(f) - (d + 1) + 1
        /\ \A i \in 1 .. Len(f) - (d + 1) + 1 : e[i] = f[d + 1 + i - 1]
    <3>1. Part(f, d + 1, Len(f)) \in Seq(Token)
      BY ONLY <1>5, <2>3, PartType
    <3>2. Len(Part(f, d + 1, Len(f))) = Len(f) - (d + 1) + 1
      BY ONLY <1>5, <2>3, PartType
    <3>3. \A i \in 1 .. Len(f) - (d + 1) + 1 : Part(f, d + 1, Len(f))[i] = f[d + 1 + i - 1]
      BY ONLY <1>5, <2>3, PartType
    <3>4. QED
      BY ONLY <2>4, <3>1, <3>2, <3>3, Zenon
  <2>6. \A i \in 1 .. Len(e) : e[i].k # "dot"
    <3>1. TAKE i \in 1 .. Len(e)
    <3>2. e[i] = f[d + 1 + i - 1] /\ d + 1 + i - 1 \in d + 1 .. Len(f)
      BY <2>2, <2>3, <2>5
    <3>3. QED
      BY <2>2, <3>2 DEF Dotted
  <2>7. e = Extension(f)
    BY <2>1, <2>4 DEF Extension, Part
  <2>8. QED
    BY <2>5, <2>6, <2>7 DEF Undotted
<1>7. QED
  BY <1>5, <1>6

(* What a token has, by its kind. *)
LEMMA Fields ==
  ASSUME NEW t \in Token
  PROVE  /\ t.k \in {"dot", "word", "letter", "num"}
         /\ t.k = "letter" => t = Letter(t.c)
         /\ t.k \in {"word", "letter"} => t.c \in Nat
         /\ t.k = "num" => t.n \in Nat /\ t.width \in Nat
BY DEF Token, Letter

(* NextExtension counts a letter and two digits up by one. *)
LEMMA PairNext ==
  ASSUME NEW c \in Nat, NEW n \in Nat
  PROVE  Undotted(Pair(c, n)) /\ NextExtension(Pair(c, n)) = Pair(c, n + 1)
<1>1. PICK q \in Int, r \in 0 .. 99 : n = 100 * q + r
  <2>1. PICK m \in Nat : m = 100
    OBVIOUS
  <2>2. n \in Int /\ m > 0
    BY <2>1
  <2>3. PICK q \in Int, r \in 0 .. m - 1 : n = m * q + r
    BY ONLY <2>2, ModSplit
  <2>4. QED
    BY <2>1, <2>3
<1>2. q \in Nat /\ n \div 100 = q /\ n % 100 = r
  <2>1. q \in Nat
    BY <1>1
  <2>2. QED
    BY <1>1, <2>1, ModIs, DivIs
<1>3. Pair(c, n) = <<Letter(c + q), Num(2, r)>>
  BY ONLY <1>2 DEF Pair
<1>4. PICK e : e = Pair(c, n)
  OBVIOUS
<1>5. /\ Len(e) = 2 /\ e[1] = Letter(c + q) /\ e[2] = Num(2, r) /\ e \in Seq({Letter(c + q), Num(2, r)})
      /\ Letter(c + q).c = c + q /\ Num(2, r).n = r /\ Letter(c + q).k = "letter"
      /\ Num(2, r).k = "num"
  BY ONLY <1>3, <1>4 DEF Letter, Num
<1>6. Undotted(e)
  <2>1. Letter(c + q) \in Token
    BY <1>1, <1>2 DEF Letter, Token
  <2>2. Num(2, r) \in Token
    BY <1>1 DEF Num, Token
  <2>3. e \in Seq(Token)
    BY <1>3, <1>4, <2>1, <2>2
  <2>4. QED
    BY <1>5, <2>3 DEF Undotted
<1>7. NextExtension(e) = Pair(c, n + 1)
  <2>1. CASE r < 99
    <3>1. NextExtension(e) = <<Letter(c + q), Num(2, r + 1)>>
      BY ONLY <1>1, <1>5, <2>1 DEF NextExtension
    <3>2. n + 1 = 100 * q + (r + 1) /\ r + 1 \in 0 .. 99 /\ n + 1 \in Int
      BY <1>1, <2>1
    <3>3. (n + 1) \div 100 = q /\ (n + 1) % 100 = r + 1
      BY <3>2, ModIs, DivIs
    <3>4. QED
      BY ONLY <3>1, <3>3 DEF Pair
  <2>2. CASE r = 99
    <3>1. NextExtension(e) = <<Letter(c + q + 1), Num(2, 0)>>
      <4>1. ~(r < 99)
        BY <2>2
      <4>2. QED
        BY ONLY <1>1, <1>5, <2>2, <4>1 DEF NextExtension
    <3>2. n + 1 = 100 * (q + 1) + 0 /\ 0 \in 0 .. 99 /\ n + 1 \in Int /\ q + 1 \in Int
      BY <1>1, <2>2
    <3>3. (n + 1) \div 100 = q + 1 /\ (n + 1) % 100 = 0
      BY <3>2, ModIs, DivIs
    <3>4. c + q + 1 = c + (q + 1)
      BY <1>2
    <3>5. QED
      BY ONLY <3>1, <3>3, <3>4 DEF Pair
  <2>3. QED
    BY <1>1, <2>1, <2>2
<1>8. QED
  BY <1>4, <1>6, <1>7

(* The old scheme, extension by extension, comes to OldExtension: from the *)
(* first extension, and from that of any volume, over the carries from 99  *)
(* to the next letter and from 999 to A00.                                 *)
LEMMA OldExtensionNext ==
  ASSUME NEW ext \in Seq(Token), IsExtension(ext), NEW k \in Nat, k >= 1
  PROVE  /\ Undotted(OldExtension(ext, k))
         /\ NextExtension(ext) = OldExtension(ext, 1)
         /\ NextExtension(OldExtension(ext, k)) = OldExtension(ext, k + 1)
<1>1. CASE /\ Len(ext) = 2 /\ ext[1].k = "letter"
           /\ ext[2].k = "num" /\ ext[2].width = 2 /\ ext[2].n <= 99
  <2>1. /\ ext[1] = Letter(ext[1].c) /\ ext[1].c \in Nat
        /\ ext[2].n \in Nat
    <3>1. ext \in Seq(Token)
      OBVIOUS
    <3>2. Len(ext) = 2
      BY <1>1
    <3>3. ext[1] \in Token /\ ext[2] \in Token
      BY ONLY <3>1, <3>2
    <3>4. QED
      BY ONLY <1>1, <3>3, Fields
  <2>2. PICK c, m : c = ext[1].c /\ m = ext[2].n
    OBVIOUS
  <2>3. \A j : OldExtension(ext, j) = Pair(c, m + j)
    BY ONLY <1>1, <2>2 DEF OldExtension, Pair
  <2>4. c \in Nat /\ m \in Nat /\ m <= 99 /\ m + k \in Nat /\ (m + k) + 1 = m + (k + 1)
    BY <1>1, <2>1, <2>2
  <2>5. NextExtension(ext) = Pair(c, m + 1)
    <3>1. CASE m < 99
      <4>1. NextExtension(ext) = <<Letter(c), Num(2, m + 1)>>
        BY ONLY <1>1, <2>1, <2>2, <3>1 DEF NextExtension
      <4>2. (m + 1) \div 100 = 0 /\ (m + 1) % 100 = m + 1 /\ c + 0 = c
        BY <2>4, <3>1
      <4>3. QED
        BY ONLY <4>1, <4>2 DEF Pair
    <3>2. CASE m = 99
      <4>1. NextExtension(ext) = <<Letter(c + 1), Num(2, 0)>>
        BY ONLY <1>1, <2>1, <2>2, <3>2 DEF NextExtension
      <4>2. (m + 1) \div 100 = 1 /\ (m + 1) % 100 = 0
        BY <2>4, <3>2
      <4>3. QED
        BY ONLY <4>1, <4>2 DEF Pair
    <3>3. QED
      BY <2>4, <3>1, <3>2
  <2>6. Undotted(Pair(c, m + k)) /\ NextExtension(Pair(c, m + k)) = Pair(c, (m + k) + 1)
    BY ONLY <2>4, PairNext
  <2>7. QED
    BY ONLY <2>3, <2>4, <2>5, <2>6
<1>2. CASE Len(ext) = 1 /\ ext[1].k = "num" /\ ext[1].width = 3 /\ ext[1].n <= 999
  <2>1. ext[1].n \in Nat
    BY <1>2, Fields DEF IsExtension
  <2>2. PICK m : m = ext[1].n
    OBVIOUS
  <2>3. m \in Nat /\ m <= 999 /\ UpperA \in Nat
    BY <1>2, <2>1, <2>2 DEF UpperA
  <2>4. \A j \in Nat : m + j < 1000 => OldExtension(ext, j) = <<Num(3, m + j)>>
    BY ONLY <1>2, <2>2 DEF OldExtension
  <2>5. \A j \in Nat : m + j >= 1000 =>
          OldExtension(ext, j) = Pair(UpperA, m + j - 1000)
    <3>1. SUFFICES ASSUME NEW j \in Nat, m + j >= 1000
                   PROVE  OldExtension(ext, j) = Pair(UpperA, m + j - 1000)
      OBVIOUS
    <3>2. ~(m + j < 1000)
      BY <2>3, <3>1
    <3>3. OldExtension(ext, j)
            = <<Letter(UpperA + ((m + j - 1000) \div 100)), Num(2, (m + j) % 100)>>
      <4>1. \A n : ~(n < 1000) /\ n = ext[1].n + j =>
              OldExtension(ext, j) = <<Letter(UpperA + ((n - 1000) \div 100)), Num(2, n % 100)>>
        BY ONLY <1>2 DEF OldExtension
      <4>2. PICK n : n = m + j
        OBVIOUS
      <4>3. ~(n < 1000) /\ n = ext[1].n + j
        BY ONLY <2>2, <3>2, <4>2
      <4>4. OldExtension(ext, j) = <<Letter(UpperA + ((n - 1000) \div 100)), Num(2, n % 100)>>
        BY ONLY <4>1, <4>3
      <4>5. QED
        BY <2>3, <4>2, <4>4
    <3>4. (m + j) % 100 = (m + j - 1000) % 100
      BY <2>3, <3>1
    <3>5. QED
      BY ONLY <3>3, <3>4 DEF Pair
  <2>6. \A n \in Nat : n < 999 => NextExtension(<<Num(3, n)>>) = <<Num(3, n + 1)>>
    BY DEF NextExtension, Num
  <2>7. NextExtension(<<Num(3, 999)>>) = Pair(UpperA, 0)
    <3>1. NextExtension(<<Num(3, 999)>>) = <<Letter(UpperA), Num(2, 0)>>
      BY DEF NextExtension, Num
    <3>2. UpperA + (0 \div 100) = UpperA /\ 0 % 100 = 0
      BY <2>3
    <3>3. QED
      BY ONLY <3>1, <3>2 DEF Pair
  <2>8. NextExtension(ext) = OldExtension(ext, 1)
    <3>1. CASE m < 999
      <4>1. NextExtension(ext) = <<Num(3, m + 1)>>
        BY ONLY <1>2, <2>2, <2>3, <3>1 DEF NextExtension
      <4>2. m + 1 < 1000 /\ 1 \in Nat
        BY <2>3, <3>1
      <4>3. QED
        BY ONLY <2>4, <4>1, <4>2
    <3>2. CASE m = 999
      <4>1. NextExtension(ext) = <<Letter(UpperA), Num(2, 0)>>
        BY ONLY <1>2, <2>2, <2>3, <3>2 DEF NextExtension
      <4>2. m + 1 >= 1000 /\ 1 \in Nat /\ m + 1 - 1000 = 0
        BY <3>2
      <4>3. OldExtension(ext, 1) = Pair(UpperA, 0)
        BY ONLY <2>5, <4>2
      <4>4. UpperA + (0 \div 100) = UpperA /\ 0 % 100 = 0
        BY <2>3
      <4>5. QED
        BY ONLY <4>1, <4>3, <4>4 DEF Pair
    <3>3. QED
      BY <2>3, <3>1, <3>2
  <2>9. Undotted(OldExtension(ext, k))
    <3>1. CASE m + k < 1000
      <4>1. OldExtension(ext, k) = <<Num(3, m + k)>>
        BY <2>4, <3>1
      <4>2. Num(3, m + k) \in Token /\ Num(3, m + k).k = "num"
        BY <2>3 DEF Num, Token
      <4>3. QED
        BY <4>1, <4>2 DEF Undotted
    <3>2. CASE m + k >= 1000
      <4>1. m + k - 1000 \in Nat
        BY <2>3, <3>2
      <4>2. QED
        BY ONLY <2>3, <2>5, <3>2, <4>1, PairNext, k \in Nat
    <3>3. QED
      BY <2>3, <3>1, <3>2
  <2>10. NextExtension(OldExtension(ext, k)) = OldExtension(ext, k + 1)
    <3>1. CASE m + k < 999
      <4>1. m + k < 1000 /\ m + (k + 1) < 1000 /\ m + k \in Nat /\ k + 1 \in Nat
            /\ m + (k + 1) = (m + k) + 1
        BY <2>3, <3>1
      <4>2. QED
        BY ONLY <2>4, <2>6, <3>1, <4>1, k \in Nat
    <3>2. CASE m + k = 999
      <4>1. m + k < 1000 /\ m + (k + 1) >= 1000 /\ k + 1 \in Nat /\ m + (k + 1) - 1000 = 0
        BY <2>3, <3>2
      <4>2. OldExtension(ext, k) = <<Num(3, 999)>>
        BY <2>4, <3>2, <4>1
      <4>3. OldExtension(ext, k + 1) = Pair(UpperA, 0)
        BY ONLY <2>5, <4>1
      <4>4. QED
        BY ONLY <2>7, <4>2, <4>3
    <3>3. CASE m + k >= 1000
      <4>1. m + k - 1000 \in Nat /\ m + (k + 1) >= 1000 /\ k + 1 \in Nat
            /\ m + (k + 1) - 1000 = (m + k - 1000) + 1
        BY <2>3, <3>3
      <4>2. PICK n : n = m + k - 1000
        OBVIOUS
      <4>3. OldExtension(ext, k) = Pair(UpperA, n)
        BY ONLY <2>5, <3>3, <4>2, k \in Nat
      <4>4. OldExtension(ext, k + 1) = Pair(UpperA, n + 1)
        BY ONLY <2>5, <4>1, <4>2
      <4>5. n \in Nat
        BY ONLY <4>1, <4>2
      <4>6. QED
        BY ONLY <2>3, <4>3, <4>4, <4>5, PairNext
    <3>4. QED
      BY <2>3, <3>1, <3>2, <3>3
  <2>11. QED
    BY <2>8, <2>9, <2>10
<1>3. CASE Len(ext) = 1 /\ ext[1].k \in {"letter", "word"}
  <2>1. ext[1].c \in Nat /\ ext[1].k # "num"
    BY <1>3, Fields DEF IsExtension
  <2>2. PICK c : c = ext[1].c
    OBVIOUS
  <2>3. \A j : OldExtension(ext, j) = Pair(c, j - 1)
    BY ONLY <1>3, <2>1, <2>2 DEF OldExtension, Pair
  <2>4. c \in Nat /\ k - 1 \in Nat /\ (k - 1) + 1 = (k + 1) - 1
    BY <2>1, <2>2
  <2>5. NextExtension(ext) = Pair(c, 1 - 1)
    <3>1. NextExtension(ext) = <<Letter(c), Num(2, 0)>>
      BY ONLY <1>3, <2>1, <2>2 DEF NextExtension
    <3>2. c + ((1 - 1) \div 100) = c /\ (1 - 1) % 100 = 0
      BY <2>4
    <3>3. QED
      BY ONLY <3>1, <3>2 DEF Pair
  <2>6. Undotted(Pair(c, k - 1)) /\ NextExtension(Pair(c, k - 1)) = Pair(c, (k - 1) + 1)
    BY ONLY <2>4, PairNext
  <2>7. QED
    BY ONLY <2>3, <2>4, <2>5, <2>6
<1>4. QED
  BY <1>1, <1>2, <1>3 DEF IsExtension

(* nextOldVolName, from the first name and from that of any volume. *)
LEMMA OldNext ==
  ASSUME NEW file, IsName(file), NEW k \in Nat, k >= 1
  PROVE  /\ nextOldVolName(fixFileExtension(file)) = OldName(file, 1)
         /\ nextOldVolName(OldName(file, k)) = OldName(file, k + 1)
<1>1. PICK f : f = fixFileExtension(file)
  OBVIOUS
<1>2. PICK ext : ext = Extension(f)
  OBVIOUS
<1>3. f \in Seq(Token) /\ LastDot(f) >= 1 /\ Undotted(ext)
  BY <1>1, <1>2, Fixed
<1>4. ext \in Seq(Token) /\ IsExtension(ext)
  BY <1>1, <1>2, <1>3 DEF IsName, Undotted
<1>5. \A j : OldName(file, j) = UpToDot(f) \o OldExtension(ext, j)
  BY <1>1, <1>2 DEF OldName
<1>6. /\ Undotted(OldExtension(ext, k))
      /\ NextExtension(ext) = OldExtension(ext, 1)
      /\ NextExtension(OldExtension(ext, k)) = OldExtension(ext, k + 1)
  BY ONLY <1>4, OldExtensionNext, k \in Nat, k >= 1
<1>7. UpToDot(OldName(file, k)) = UpToDot(f)
      /\ Extension(OldName(file, k)) = OldExtension(ext, k)
  <2>1. PICK g : g = OldName(file, k)
    OBVIOUS
  <2>2. g = UpToDot(f) \o OldExtension(ext, k)
    BY ONLY <1>5, <2>1
  <2>3. UpToDot(g) = UpToDot(f) /\ Extension(g) = OldExtension(ext, k)
    BY ONLY <1>3, <1>6, <2>2, Renamed
  <2>4. QED
    BY ONLY <2>1, <2>3
<1>8. QED
  BY ONLY <1>1, <1>2, <1>5, <1>6, <1>7 DEF nextOldVolName

(* A number has as many digits as the one before it, or more. *)
LEMMA DigitsGrow ==
  ASSUME NEW m \in Nat
  PROVE  Digits(m) \in Nat /\ Digits(m + 1) \in Nat /\ Digits(m) <= Digits(m + 1)
<1> DEFINE P == {10, 100, 1000, 10000, 100000, 1000000, 10000000, 100000000, 1000000000}
           S(n) == {t \in P : t <= n}
<1>1. IsFiniteSet(P)
  <2>1. PICK n \in Nat : \A t \in P : t \in 0 .. n
    <3>1. \A t \in P : t \in Nat /\ t <= 1000000000
      BY ONLY SMT
    <3>2. QED
      BY ONLY <3>1, SMT
  <2> HIDE DEF P
  <2>2. P \subseteq 0 .. n /\ IsFiniteSet(0 .. n)
    BY <2>1, FS_Interval
  <2>3. QED
    BY ONLY <2>2, FS_Subset
<1>2. \A t \in P : t \in Nat
  OBVIOUS
<1>3. \A n : Digits(n) = 1 + Cardinality(S(n))
  BY DEF Digits
<1> HIDE DEF P
<1>4. S(m) \subseteq P /\ S(m + 1) \subseteq P /\ S(m) \subseteq S(m + 1)
  BY <1>2
<1> HIDE DEF S
<1>5. IsFiniteSet(S(m + 1)) /\ IsFiniteSet(S(m)) /\ Cardinality(S(m)) <= Cardinality(S(m + 1))
  BY <1>1, <1>4, FS_Subset
<1>6. Cardinality(S(m)) \in Nat /\ Cardinality(S(m + 1)) \in Nat
  BY <1>5, FS_CardinalityType
<1>7. QED
  BY <1>3, <1>5, <1>6

(* PlusOne counts up by one; the width never falls below that of the first *)
(* number.                                                                 *)
LEMMA CountOn ==
  ASSUME NEW t \in Token, t.k = "num", NEW k \in Nat
  PROVE  /\ Counted(t, k) \in Token /\ Counted(t, k).k = "num"
         /\ PlusOne(t) = Counted(t, 1)
         /\ PlusOne(Counted(t, k)) = Counted(t, k + 1)
<1>1. t.n \in Nat /\ t.width \in Nat
  BY Fields
<1>2. PICK m \in Nat, w \in Nat : m = t.n + k /\ w = t.width
  BY <1>1
<1>3. PICK d, e : d = Digits(m) /\ e = Digits(m + 1)
  OBVIOUS
<1>4. d \in Nat /\ e \in Nat /\ d <= e
  BY <1>3, DigitsGrow
<1>5. PICK v : v = IF d > w THEN d ELSE w
  OBVIOUS
<1>6. Counted(t, k) = Num(v, m)
  BY ONLY <1>2, <1>3, <1>5 DEF Counted
<1>7. Counted(t, k + 1) = Num(IF e > w THEN e ELSE w, m + 1)
  <2>1. t.n + (k + 1) = m + 1
    BY <1>1, <1>2
  <2>2. QED
    BY ONLY <1>2, <1>3, <2>1 DEF Counted
<1>8. v \in Nat
  BY <1>2, <1>4, <1>5
<1>9. Num(v, m) \in Token /\ Num(v, m).k = "num" /\ Num(v, m).width = v /\ Num(v, m).n = m
  BY <1>2, <1>8 DEF Num, Token
<1>10. PlusOne(Num(v, m)) = Num(IF e > v THEN e ELSE v, m + 1)
  BY ONLY <1>3, <1>9 DEF PlusOne
<1>11. (IF e > v THEN e ELSE v) = (IF e > w THEN e ELSE w)
  BY <1>2, <1>4, <1>5
<1>12. PlusOne(t) = Counted(t, 1)
  BY DEF PlusOne, Counted
<1>13. QED
  BY ONLY <1>6, <1>7, <1>9, <1>10, <1>11, <1>12

(* The places of the numbers in a name, where VolumeNumberAt looks. *)
LEMMA Numbers ==
  ASSUME NEW f \in Seq(Token), hasDigits(f)
  PROVE  LET nums == PlacesOf(f, "num") IN
         /\ nums \subseteq 1 .. Len(f) /\ Highest(nums) \in nums
         /\ Cardinality(nums) # 1 => Highest(nums \ {Highest(nums)}) \in nums
<1>1. PICK nums : nums = PlacesOf(f, "num")
  OBVIOUS
<1>2. Len(f) \in Nat /\ nums \subseteq 1 .. Len(f) /\ nums \subseteq 0 .. Len(f) /\ nums # {}
  BY <1>1 DEF PlacesOf, hasDigits
<1>3. PICK last : last = Highest(nums)
  OBVIOUS
<1>4. last \in nums
  BY <1>2, <1>3, HighestIs
<1>5. ASSUME Cardinality(nums) # 1 PROVE Highest(nums \ {last}) \in nums
  <2>1. nums \ {last} # {}
    <3>1. SUFFICES ASSUME nums \ {last} = {} PROVE FALSE
      OBVIOUS
    <3>2. nums = {last}
      BY <1>4, <3>1
    <3>3. QED
      BY <1>5, <3>2, FS_Singleton
  <2>2. nums \ {last} \subseteq 0 .. Len(f)
    BY <1>2
  <2>3. Highest(nums \ {last}) \in nums \ {last}
    BY <1>2, <2>1, <2>2, HighestIs
  <2>4. QED
    BY <2>3
<1>6. QED
  BY <1>1, <1>2, <1>3, <1>4, <1>5

(* The number that counts the volumes is at the same place in a name that  *)
(* has another number there.                                               *)
LEMMA Renumbered ==
  ASSUME NEW f \in Seq(Token), hasDigits(f), NEW at, at = VolumeNumberAt(f),
         NEW t \in Token, t.k = "num", NEW g, g = [f EXCEPT ![at] = t]
  PROVE  /\ at \in 1 .. Len(f) /\ f[at] \in Token /\ f[at].k = "num"
         /\ g \in Seq(Token) /\ hasDigits(g) /\ VolumeNumberAt(g) = at /\ g[at] = t
<1>1. PICK nums : nums = PlacesOf(f, "num")
  OBVIOUS
<1>2. PICK last, prev : last = Highest(nums) /\ prev = Highest(nums \ {last})
  OBVIOUS
<1>3. /\ nums \subseteq 1 .. Len(f) /\ last \in nums
      /\ Cardinality(nums) # 1 => prev \in nums
  BY <1>1, <1>2, Numbers
<1> DEFINE DotIn(h, a, b) == \E i \in a .. b : h[i] = Dot
           Found(h) == IF Cardinality(nums) = 1 \/ DotIn(h, prev, last) \/ ~DotIn(h, 1, prev - 1)
                       THEN last ELSE prev
<1>4. at = Found(f)
  BY ONLY <1>1, <1>2, at = VolumeNumberAt(f) DEF VolumeNumberAt
<1>5. at \in nums
  BY <1>3, <1>4
<1>6. at \in 1 .. Len(f) /\ f[at] \in Token /\ f[at].k = "num" /\ Len(f) \in Nat
  <2>1. at \in 1 .. Len(f)
    BY <1>3, <1>5
  <2>2. f[at].k = "num"
    BY <1>1, <1>5 DEF PlacesOf
  <2>3. QED
    BY <2>1, <2>2
<1>7. /\ g \in Seq(Token) /\ Len(g) = Len(f) /\ g[at] = t
      /\ \A i \in 1 .. Len(f) : i # at => g[i] = f[i]
  BY <1>6
<1>8. PlacesOf(g, "num") = nums
  <2>1. \A i \in 1 .. Len(f) : g[i].k = "num" <=> f[i].k = "num"
    BY <1>6, <1>7
  <2>2. QED
    BY <1>1, <1>7, <2>1 DEF PlacesOf
<1>9. \A i \in 1 .. Len(f) : g[i] = Dot <=> f[i] = Dot
  <2>1. Dot.k = "dot"
    BY DEF Dot
  <2>2. QED
    BY <1>6, <1>7, <2>1
<1>10. VolumeNumberAt(g) = Found(g)
  BY ONLY <1>2, <1>8 DEF VolumeNumberAt
<1>11. Found(g) = Found(f)
  <2>1. CASE Cardinality(nums) = 1
    BY ONLY <2>1
  <2>2. CASE Cardinality(nums) # 1
    <3>1. prev \in 1 .. Len(f) /\ last \in 1 .. Len(f)
      BY <1>3, <2>2
    <3>2. \A i \in prev .. last : i \in 1 .. Len(f)
      BY <1>6, <3>1
    <3>3. \A i \in 1 .. prev - 1 : i \in 1 .. Len(f)
      BY <1>6, <3>1
    <3>4. DotIn(g, prev, last) <=> DotIn(f, prev, last)
      BY ONLY <1>9, <3>2
    <3>5. DotIn(g, 1, prev - 1) <=> DotIn(f, 1, prev - 1)
      BY ONLY <1>9, <3>3
    <3> HIDE DEF DotIn
    <3>6. QED
      BY ONLY <3>4, <3>5
  <2>3. QED
    BY <2>1, <2>2
<1>12. hasDigits(g)
  BY <1>5, <1>8 DEF hasDigits
<1>13. QED
  BY <1>4, <1>6, <1>7, <1>10, <1>11, <1>12

(* nextNewVolName, from the first name and from that of any volume. *)
LEMMA NewNext ==
  ASSUME NEW file, IsName(file), hasDigits(fixFileExtension(file)), NEW k \in Nat
  PROVE  /\ nextNewVolName(fixFileExtension(file)) = NewName(file, 1)
         /\ nextNewVolName(NewName(file, k)) = NewName(file, k + 1)
<1>1. PICK f : f = fixFileExtension(file)
  OBVIOUS
<1>2. f \in Seq(Token) /\ hasDigits(f)
  BY <1>1, Fixed
<1>3. PICK at : at = VolumeNumberAt(f)
  OBVIOUS
<1>4. PICK t : t = f[at]
  OBVIOUS
<1>5. at \in 1 .. Len(f) /\ t \in Token /\ t.k = "num"
  <2>1. Num(0, 0) \in Token /\ Num(0, 0).k = "num"
    BY DEF Num, Token
  <2>2. PICK h : h = [f EXCEPT ![at] = Num(0, 0)]
    OBVIOUS
  <2>3. QED
    BY ONLY <1>2, <1>3, <1>4, <2>1, <2>2, Renumbered
<1>6. \A j : NewName(file, j) = [f EXCEPT ![at] = Counted(t, j)]
  BY ONLY <1>1, <1>3, <1>4 DEF NewName
<1>7. /\ Counted(t, k) \in Token /\ Counted(t, k).k = "num"
      /\ PlusOne(t) = Counted(t, 1)
      /\ PlusOne(Counted(t, k)) = Counted(t, k + 1)
  BY ONLY <1>5, CountOn, k \in Nat
<1>8. PICK g : g = NewName(file, k)
  OBVIOUS
<1>9. VolumeNumberAt(g) = at /\ g[at] = Counted(t, k)
  BY ONLY <1>2, <1>3, <1>6, <1>7, <1>8, Renumbered
<1>10. nextNewVolName(f) = [f EXCEPT ![at] = PlusOne(t)]
  BY ONLY <1>3, <1>4 DEF nextNewVolName
<1>11. nextNewVolName(g) = [g EXCEPT ![at] = PlusOne(Counted(t, k))]
  BY ONLY <1>9 DEF nextNewVolName
<1>12. [g EXCEPT ![at] = Counted(t, k + 1)] = [f EXCEPT ![at] = Counted(t, k + 1)]
  <2>1. g = [f EXCEPT ![at] = Counted(t, k)]
    BY ONLY <1>6, <1>8
  <2>2. PICK D : D = 1 .. Len(f)
    OBVIOUS
  <2>3. f \in [D -> Token] /\ at \in D
    BY ONLY <1>2, <1>5, <2>2
  <2>4. \A x, y : [[f EXCEPT ![at] = x] EXCEPT ![at] = y] = [f EXCEPT ![at] = y]
    BY ONLY <2>3
  <2>5. QED
    BY ONLY <2>1, <2>4
<1>13. nextNewVolName(g) = NewName(file, k + 1)
  <2>1. nextNewVolName(g) = [g EXCEPT ![at] = Counted(t, k + 1)]
    BY ONLY <1>7, <1>11
  <2>2. QED
    BY ONLY <1>6, <1>12, <2>1
<1>14. nextNewVolName(f) = NewName(file, 1)
  BY ONLY <1>6, <1>7, <1>10
<1>15. QED
  BY ONLY <1>1, <1>8, <1>13, <1>14

(* The one name that follows a name. *)
LEMMA FollowingOne ==
  ASSUME NEW file, NEW o
  PROVE  Following(file, o, 1) = <<NameAfter(o, file)>>
<1> DEFINE F(N) == [j \in 0 .. 1 |->
                      IF j = 0 THEN file
                      ELSE IF o THEN nextOldVolName(N[j - 1]) ELSE nextNewVolName(N[j - 1])]
           Name == CHOOSE N : N = F(N)
           N1 == [j \in 0 .. 1 |-> IF j = 0 THEN file ELSE NameAfter(o, file)]
<1>1. Following(file, o, 1) = [j \in 1 .. 1 |-> Name[j]]
  BY Zenon DEF Following
<1>2. N1 = F(N1)
  <2>1. PICK n : n = N1
    OBVIOUS
  <2>2. n[0] = file
    BY <2>1
  <2>3. \A j \in 0 .. 1 : j = 0 \/ j - 1 = 0
    OBVIOUS
  <2>4. N1 = F(n)
    BY <2>2, <2>3 DEF NameAfter
  <2>5. QED
    BY <2>1, <2>4
<1>3. Name = F(Name)
  <2> HIDE DEF F, N1
  <2>1. \E N : N = F(N)
    BY <1>2
  <2>2. QED
    BY <2>1
<1> HIDE DEF Name
<1>4. Name[0] = file
  BY <1>3
<1>5. Name[1] = NameAfter(o, file)
  <2>1. Name[1] = IF o THEN nextOldVolName(Name[1 - 1]) ELSE nextNewVolName(Name[1 - 1])
    BY <1>3
  <2>2. 1 - 1 = 0
    OBVIOUS
  <2>3. QED
    BY ONLY <1>4, <2>1, <2>2 DEF NameAfter
<1>6. QED
  BY <1>1, <1>5

(* One name more in the list, by the scheme of the ones before it. *)
LEMMA SchemedOne ==
  ASSUME TypeInv, Schemed(files, old), NEW o \in BOOLEAN,
         Len(files) = 1 \/ o = old,
         ~o => hasDigits(fixFileExtension(arch.first)),
         NEW x, x = IF o THEN OldName(arch.first, Len(files)) ELSE NewName(arch.first, Len(files))
  PROVE  Schemed(Append(files, x), o)
<1>1. PICK l : l = Append(files, x)
  OBVIOUS
<1>2. PICK n : n = Len(files)
  OBVIOUS
<1>3. /\ n \in Nat /\ n >= 1 /\ Len(l) = n + 1 /\ l[n + 1] = x
      /\ \A i \in 1 .. n : l[i] = files[i]
  BY <1>1, <1>2 DEF TypeInv
<1>4. ASSUME NEW k \in 1 .. Len(l) - 1
      PROVE  l[k + 1] = IF o THEN OldName(arch.first, k) ELSE NewName(arch.first, k)
  <2>1. CASE k = n
    BY <1>2, <1>3, <2>1
  <2>2. CASE k # n
    <3>1. k \in 1 .. n - 1 /\ k + 1 \in 1 .. n /\ n # 1
      BY <1>3, <2>2
    <3>2. files[k + 1] = IF old THEN OldName(arch.first, k) ELSE NewName(arch.first, k)
      BY <1>2, <3>1 DEF Schemed
    <3>3. o = old
      BY <1>2, <3>1
    <3>4. QED
      BY <1>3, <3>1, <3>2, <3>3
  <2>3. QED
    BY <2>1, <2>2
<1>5. l[1] = arch.first
  BY <1>3 DEF Schemed
<1>6. QED
  BY <1>1, <1>4, <1>5 DEF Schemed

(* The name that follows the last one of the list is that of the next      *)
(* volume.                                                                 *)
LEMMA LastNext ==
  ASSUME TypeInv, Schemed(files, old), NEW o \in BOOLEAN,
         Len(files) = 1 \/ o = old,
         ~o => hasDigits(fixFileExtension(arch.first)),
         NEW file, file = IF Len(files) = 1 THEN fixFileExtension(files[1]) ELSE files[Len(files)]
  PROVE  NameAfter(o, file) = IF o THEN OldName(arch.first, Len(files))
                          ELSE NewName(arch.first, Len(files))
<1>1. PICK a : a = arch.first
  OBVIOUS
<1>2. IsName(a)
  BY <1>1, ArchiveAssumption DEF TypeInv
<1>3. Len(files) \in Nat /\ Len(files) >= 1
  BY DEF TypeInv
<1>4. CASE Len(files) = 1
  <2>1. file = fixFileExtension(a)
    BY <1>1, <1>4 DEF Schemed
  <2>2. CASE o
    <3>1. 1 \in Nat /\ 1 >= 1
      OBVIOUS
    <3>2. nextOldVolName(file) = OldName(a, 1)
      BY ONLY <1>2, <2>1, <3>1, OldNext
    <3>3. QED
      BY ONLY <1>1, <1>4, <2>2, <3>2 DEF NameAfter
  <2>3. CASE ~o
    <3>1. 1 \in Nat /\ hasDigits(fixFileExtension(a))
      BY <1>1, <2>3
    <3>2. nextNewVolName(file) = NewName(a, 1)
      BY ONLY <1>2, <2>1, <3>1, NewNext
    <3>3. QED
      BY ONLY <1>1, <1>4, <2>3, <3>2 DEF NameAfter
  <2>4. QED
    BY <2>2, <2>3
<1>5. CASE Len(files) # 1
  <2>1. PICK k : k = Len(files) - 1
    OBVIOUS
  <2>2. k \in Nat /\ k >= 1 /\ k \in 1 .. Len(files) - 1 /\ k + 1 = Len(files) /\ o = old
    BY <1>3, <1>5, <2>1
  <2>3. file = IF old THEN OldName(a, k) ELSE NewName(a, k)
    BY <1>1, <1>5, <2>2 DEF Schemed
  <2>4. CASE o
    <3>1. nextOldVolName(OldName(a, k)) = OldName(a, k + 1)
      BY ONLY <1>2, <2>2, OldNext
    <3>2. QED
      BY ONLY <1>1, <2>2, <2>3, <2>4, <3>1 DEF NameAfter
  <2>5. CASE ~o
    <3>1. hasDigits(fixFileExtension(a))
      BY <1>1, <2>5
    <3>2. nextNewVolName(NewName(a, k)) = NewName(a, k + 1)
      BY ONLY <1>2, <2>2, <3>1, NewNext
    <3>3. QED
      BY ONLY <1>1, <2>2, <2>3, <2>5, <3>2 DEF NameAfter
  <2>6. QED
    BY <2>4, <2>5
<1>6. QED
  BY <1>4, <1>5

(* openVolumeFile keeps to the scheme, or settles it with the second name. *)
LEMMA OpenScheme ==
  ASSUME TypeInv, Schemed(files, old), NEW n \in Nat, n <= Len(files)
  PROVE  Schemed(openVolumeFile(n).files, openVolumeFile(n).old)
<1>0. Len(files) \in Nat /\ Len(files) >= 1 /\ old \in BOOLEAN
  BY DEF TypeInv
<1>1. CASE n < Len(files)
  <2>1. openVolumeFile(n) = [files |-> files, old |-> old, name |-> files[n + 1]]
    BY <1>1 DEF openVolumeFile
  <2>2. QED
    BY <2>1
<1>2. CASE n = Len(files)
  <2>1. PICK file : file = IF Len(files) = 1 THEN fixFileExtension(files[1])
                           ELSE files[Len(files)]
    OBVIOUS
  <2>2. PICK o : o = openVolumeFile(n)
    OBVIOUS
  <2>3. PICK a : a = arch.first
    OBVIOUS
  <2>4. ASSUME NEW f \in BOOLEAN, Len(files) = 1 \/ f = old,
               ~f => hasDigits(fixFileExtension(a))
        PROVE  Schemed(Append(files, NameAfter(f, file)), f)
    <3>1. PICK x : x = NameAfter(f, file)
      OBVIOUS
    <3>2. x = IF f THEN OldName(arch.first, Len(files)) ELSE NewName(arch.first, Len(files))
      BY <2>1, <2>3, <2>4, <3>1, LastNext
    <3>3. QED
      BY <2>3, <2>4, <3>1, <3>2, SchemedOne
  <2>5. CASE Len(files) = 1 /\ ~old /\ hasDigits(file)
    <3>1. o = tryNewName(file)
      BY <1>2, <2>1, <2>2, <2>5 DEF openVolumeFile
    <3>2. PICK new, alt : new = nextNewVolName(file) /\ alt = nextOldVolName(file)
      OBVIOUS
    <3>3. \/ o.files = Append(files, new) /\ o.old = old
          \/ o.files = Append(files, alt) /\ o.old = TRUE
          \/ o.files = files /\ o.old = old
      BY <3>1, <3>2 DEF tryNewName
    <3>4. NameAfter(TRUE, file) = alt /\ NameAfter(FALSE, file) = new /\ old = FALSE
          /\ hasDigits(fixFileExtension(a))
      BY <2>1, <2>3, <2>5, <3>2 DEF NameAfter, Schemed
    <3>5. Schemed(Append(files, alt), TRUE)
      BY <2>4, <2>5, <3>4
    <3>6. Schemed(Append(files, new), FALSE)
      BY <2>4, <2>5, <3>4
    <3>7. Schemed(o.files, o.old)
      BY <3>3, <3>4, <3>5, <3>6
    <3>8. QED
      BY <2>2, <3>7
  <2>6. CASE ~(Len(files) = 1 /\ ~old /\ hasDigits(file))
    <3>1. PICK f : f = (old \/ Len(files) = 1)
      OBVIOUS
    <3>2. f \in BOOLEAN /\ (Len(files) = 1 \/ f = old)
      BY <1>0, <3>1
    <3>3. ~f => hasDigits(fixFileExtension(a))
      <4>1. SUFFICES ASSUME ~f PROVE hasDigits(fixFileExtension(a))
        OBVIOUS
      <4>2. ~old /\ Len(files) # 1
        BY <3>1, <4>1
      <4>3. Len(files) > 1
        <5>1. \A l \in Nat : l >= 1 /\ l # 1 => l > 1
          OBVIOUS
        <5>2. QED
          BY ONLY <1>0, <4>2, <5>1
      <4>4. QED
        BY <2>3, <4>2, <4>3 DEF Schemed
    <3>4. n + 1 - Len(files) = 1 /\ ~(n < Len(files))
      BY <1>0, <1>2
    <3>5. PICK k : k = n + 1 - Len(files)
      OBVIOUS
    <3>6. o.files = files \o Following(file, f, k) /\ o.old = f
      <4>1. o = [files |-> files \o Following(file, f, k), old |-> f,
                 name |-> Following(file, f, k)[Len(Following(file, f, k))]]
        BY <2>1, <2>2, <2>6, <3>1, <3>4, <3>5, Zenon DEF openVolumeFile
      <4>2. QED
        BY <4>1
    <3>7. Following(file, f, k) = <<NameAfter(f, file)>>
      BY <3>4, <3>5, FollowingOne
    <3>8. files \o <<NameAfter(f, file)>> = Append(files, NameAfter(f, file))
      BY DEF TypeInv
    <3>9. Schemed(o.files, o.old)
      BY ONLY <2>4, <3>2, <3>3, <3>6, <3>7, <3>8
    <3>10. QED
      BY <2>2, <3>9
  <2>7. QED
    BY <2>5, <2>6
<1>3. QED
  BY <1>0, <1>1, <1>2

(* After a step of a reader that has a volume, or had one, the walk has    *)
(* read the header of the first volume.                                    *)
LEMMA Past ==
  ASSUME IInv, SchemeInv, NEW p \in Procs, NEW v, vol' = [vol EXCEPT ![p] = v],
         vol[p].pc \notin {"none", "new"}, v.pc \notin {"none", "new"}
  PROVE  vol'[Main].pc \notin {"none", "new"}
<1>1. vol \in [Procs -> Volumes] /\ Main \in Procs
  BY DEF IInv, TypeInv, Procs
<1>2. CASE p = Main
  BY <1>1, <1>2
<1>3. CASE p # Main
  <2>1. p \in Readers
    BY <1>3 DEF Procs
  <2>2. vol[Main].pc \notin {"none", "new"}
    BY <2>1 DEF SchemeInv
  <2>3. vol'[Main] = vol[Main]
    BY <1>1, <1>3
  <2>4. QED
    BY <2>2, <2>3
<1>4. QED
  BY <1>2, <1>3

(* What is left to show of such a step is the scheme of the list. *)
LEMMA SchemeStep ==
  ASSUME IInv, SchemeInv, arch' = arch, Schemed(files', old'),
         vol'[Main].pc \notin {"none", "new"}
  PROVE  SchemeInv'
BY DEF SchemeInv, Schemed

(* Such a step that leaves the list alone. *)
LEMMA PastKeeps ==
  ASSUME IInv, SchemeInv, UNCHANGED <<vm, arch>>, NEW p \in Procs,
         vol[p].pc \notin {"none", "new"},
         NEW v, vol' = [vol EXCEPT ![p] = v], v.pc \notin {"none", "new"}
  PROVE  SchemeInv'
<1>1. vol'[Main].pc \notin {"none", "new"}
  BY Past
<1>2. Schemed(files', old') /\ arch' = arch
  BY DEF SchemeInv, vm
<1>3. QED
  BY <1>1, <1>2, SchemeStep

(* The list has one name. *)
LEMMA SchemeInit == Init => SchemeInv
<1> SUFFICES ASSUME Init PROVE SchemeInv
  OBVIOUS
<1>2. files = <<arch.first>> /\ Len(files) = 1 /\ files[1] = arch.first
  BY DEF Init
<1>3. \A p \in Procs : vol[p].pc = "none"
  BY DEF Init, NoVolume
<1>4. Readers \subseteq Procs
  BY DEF Procs
<1>5. QED
  BY <1>2, <1>3, <1>4 DEF SchemeInv, Schemed

(* newVolume opens a volume that is in the list. *)
LEMMA SchemeNewVolume ==
  ASSUME IInv, SchemeInv, NEW p \in Procs, NEW n \in Nat, newVolume(p, n)
  PROVE  SchemeInv'
<1>1. /\ vol \in [Procs -> Volumes] /\ Len(files) \in Nat /\ Len(files) >= 1
      /\ seen \in Nat /\ seen <= Len(files)
  BY Here
<1>2. /\ vol[p].pc = "none"
      /\ p # Main => vol[Main].pc = "done" /\ n < seen
      /\ p = Main => n = 0
  BY DEF newVolume
<1>3. n < Len(files)
  BY <1>1, <1>2
<1>4. files' = openVolumeFile(n).files /\ old' = openVolumeFile(n).old /\ arch' = arch
  BY Zenon DEF newVolume
<1>5. openVolumeFile(n) = [files |-> files, old |-> old, name |-> files[n + 1]]
  BY <1>3 DEF openVolumeFile
<1>6. files' = files /\ old' = old
  BY <1>4, <1>5
<1>7. Schemed(files', old')
  BY <1>6 DEF SchemeInv
<1>8. PICK v : vol' = [vol EXCEPT ![p] = v] /\ v.pc \in {"new", "failed"}
  <2>1. \/ \E name : vol' = [vol EXCEPT ![p] = [NoVolume EXCEPT !.pc = "new",
                                               !.next = name, !.want = n]]
        \/ \E e : vol' = [vol EXCEPT ![p].pc = "failed", ![p].ret = e]
    BY Zenon DEF newVolume
  <2>2. CASE \E name : vol' = [vol EXCEPT ![p] = [NoVolume EXCEPT !.pc = "new",
                                               !.next = name, !.want = n]]
    <3>1. PICK name : vol' = [vol EXCEPT ![p] = [NoVolume EXCEPT !.pc = "new",
                                               !.next = name, !.want = n]]
      BY <2>2
    <3>2. PICK v : v = [NoVolume EXCEPT !.pc = "new", !.next = name, !.want = n]
      OBVIOUS
    <3>3. v.pc = "new"
      BY <3>2 DEF NoVolume
    <3>4. QED
      BY <3>1, <3>2, <3>3
  <2>3. CASE \E e : vol' = [vol EXCEPT ![p].pc = "failed", ![p].ret = e]
    <3>1. PICK e : vol' = [vol EXCEPT ![p].pc = "failed", ![p].ret = e]
      BY <2>3
    <3>2. PICK v : v = [vol[p] EXCEPT !.pc = "failed", !.ret = e]
      OBVIOUS
    <3>3. vol[p] \in Volumes
      BY <1>1
    <3>4. v.pc = "failed"
      BY <3>2, <3>3 DEF Volumes
    <3>5. vol' = [vol EXCEPT ![p] = v]
      BY <1>1, <3>1, <3>2
    <3>6. QED
      BY <3>4, <3>5
  <2>4. QED
    BY <2>1, <2>2, <2>3
<1>9. \A q \in Procs : q # p => vol'[q] = vol[q]
  BY <1>1, <1>8
<1>10. Readers \subseteq Procs /\ Main \in Procs /\ Main \notin Readers
  BY RoleAssumption DEF Procs
<1>11. CASE p = Main
  <2>1. Len(files) = 1 /\ \A q \in Readers : vol[q].pc = "none"
    BY <1>2, <1>11 DEF SchemeInv
  <2>2. Len(files') = 1 /\ \A q \in Readers : vol'[q].pc = "none"
    BY <1>6, <1>9, <1>10, <1>11, <2>1
  <2>3. QED
    BY <1>4, <1>7, <2>2 DEF SchemeInv, Schemed
<1>12. CASE p # Main
  <2>1. vol'[Main].pc = "done"
    BY <1>2, <1>9, <1>10, <1>12
  <2>2. QED
    BY <1>4, <1>7, <2>1, SchemeStep
<1>13. QED
  BY <1>11, <1>12

(* openVolume sets the scheme before there is a second name. *)
LEMMA SchemeNewVolumeInit ==
  ASSUME IInv, SchemeInv, NEW p \in Procs, newVolumeInit(p)
  PROVE  SchemeInv'
<1>1. vol \in [Procs -> Volumes] /\ Main \in Procs
  BY Here DEF Procs
<1>2. /\ vol[p].pc = "new" /\ files' = files /\ arch' = arch
      /\ p # Main => old' = old
  BY DEF newVolumeInit
<1>3. vol'[p].pc \in {"ready", "failed"} /\ \A q \in Procs : q # p => vol'[q] = vol[q]
  <2>1. \/ vol' = [vol EXCEPT ![p].pc = "ready", ![p].f = vol[p].next, ![p].fopen = TRUE,
                              ![p].src = vol[p].next, ![p].num = vol[p].want]
        \/ \E e : vol' = [vol EXCEPT ![p].pc = "failed", ![p].ret = e]
    BY Zenon DEF newVolumeInit
  <2>2. vol[p] \in Volumes
    BY <1>1
  <2>3. QED
    BY <1>1, <2>1, <2>2 DEF Volumes
<1>4. CASE p = Main
  <2>1. Len(files) = 1
    BY <1>2, <1>4 DEF SchemeInv
  <2>2. Schemed(files', old')
    BY <1>2, <2>1 DEF SchemeInv, Schemed
  <2>3. QED
    BY <1>2, <1>3, <1>4, <2>2, SchemeStep
<1>5. CASE p # Main
  <2>1. p \in Readers
    BY <1>5 DEF Procs
  <2>2. vol[Main].pc \notin {"none", "new"}
    BY <1>2, <2>1 DEF SchemeInv
  <2>3. vol'[Main].pc \notin {"none", "new"}
    BY <1>1, <1>3, <1>5, <2>2
  <2>4. Schemed(files', old')
    BY <1>2, <1>5 DEF SchemeInv
  <2>5. QED
    BY <1>2, <2>3, <2>4, SchemeStep
<1>6. QED
  BY <1>4, <1>5

(* The steps that leave the list alone. *)
LEMMA SchemePast ==
  ASSUME IInv, SchemeInv, NEW p \in Procs, NEW n \in Nat,
         nextBlock(p) \/ nextBlockRefused(p) \/ nextBlockEnd(p) \/ openBlock(p, n)
           \/ openInit(p) \/ Close(p)
  PROVE  SchemeInv'
<1> DEFINE v == vol[p]
<1>1. v \in Volumes /\ vol \in [Procs -> Volumes]
  BY Here
<1>2. v.pc \in {"ready", "init"} /\ UNCHANGED <<vm, arch>>
  BY DEF nextBlock, nextBlockRefused, nextBlockEnd, openBlock, openStart, openInit, Close
<1>3. \E w : vol' = [vol EXCEPT ![p] = w] /\ w.pc \notin {"none", "new"}
  <2>1. \/ \E m, why : vol' = [vol EXCEPT ![p].pc = "open", ![p].fopen = FALSE,
                                          ![p].want = m, ![p].why = why]
        \/ \E e : vol' = [vol EXCEPT ![p].ret = e]
        \/ \E e, src, num, f, o :
             vol' = [vol EXCEPT ![p].pc = "ready", ![p].ret = e, ![p].src = src,
                                ![p].num = num, ![p].f = f, ![p].fopen = o]
        \/ \E r : vol' = [vol EXCEPT ![p].pc = "done", ![p].fopen = FALSE, ![p].ret = r]
    <3>1. ASSUME NEW m, NEW why, openStart(p, m, why)
          PROVE  \/ \E i, y : vol' = [vol EXCEPT ![p].pc = "open", ![p].fopen = FALSE,
                                                 ![p].want = i, ![p].why = y]
                 \/ \E e : vol' = [vol EXCEPT ![p].ret = e]
      BY <3>1, Zenon DEF openStart
    <3>2. CASE nextBlock(p)
      BY <3>1, <3>2, Zenon DEF nextBlock
    <3>3. CASE nextBlockEnd(p)
      BY <3>3, Zenon DEF nextBlockEnd
    <3>4. CASE openBlock(p, n)
      BY <3>1, <3>4, Zenon DEF openBlock
    <3>5. CASE openInit(p)
      BY <3>5, Zenon DEF openInit
    <3>6. CASE Close(p)
      BY <3>6, Zenon DEF Close
    <3>7. CASE nextBlockRefused(p)
      BY <3>7, Zenon DEF nextBlockRefused
    <3>8. QED
      BY <3>2, <3>3, <3>4, <3>5, <3>6, <3>7
  <2>2. CASE \E m, why : vol' = [vol EXCEPT ![p].pc = "open", ![p].fopen = FALSE,
                                         ![p].want = m, ![p].why = why]
    <3>1. PICK m, why :
            vol' = [vol EXCEPT ![p].pc = "open", ![p].fopen = FALSE,
                                         ![p].want = m, ![p].why = why]
      BY <2>2
    <3>2. PICK w : w = [v EXCEPT !.pc = "open", !.fopen = FALSE, !.want = m, !.why = why]
      OBVIOUS
    <3>3. vol' = [vol EXCEPT ![p] = w]
      BY <1>1, <3>1, <3>2
    <3>4. w.pc \in {"open", "ready", "done", v.pc}
      BY <1>1, <3>2 DEF Volumes
    <3>5. QED
      BY <1>2, <3>3, <3>4
  <2>3. CASE \E e : vol' = [vol EXCEPT ![p].ret = e]
    <3>1. PICK e :
            vol' = [vol EXCEPT ![p].ret = e]
      BY <2>3
    <3>2. PICK w : w = [v EXCEPT !.ret = e]
      OBVIOUS
    <3>3. vol' = [vol EXCEPT ![p] = w]
      BY <1>1, <3>1, <3>2
    <3>4. w.pc \in {"open", "ready", "done", v.pc}
      BY <1>1, <3>2 DEF Volumes
    <3>5. QED
      BY <1>2, <3>3, <3>4
  <2>4. CASE \E e, src, num, f, o :
              vol' = [vol EXCEPT ![p].pc = "ready", ![p].ret = e, ![p].src = src,
                                 ![p].num = num, ![p].f = f, ![p].fopen = o]
    <3>1. PICK e, src, num, f, o :
            vol' = [vol EXCEPT ![p].pc = "ready", ![p].ret = e, ![p].src = src,
                                 ![p].num = num, ![p].f = f, ![p].fopen = o]
      BY <2>4
    <3>2. PICK w : w = [v EXCEPT !.pc = "ready", !.ret = e, !.src = src,
                             !.num = num, !.f = f, !.fopen = o]
      OBVIOUS
    <3>3. vol' = [vol EXCEPT ![p] = w]
      BY <1>1, <3>1, <3>2
    <3>4. w.pc \in {"open", "ready", "done", v.pc}
      BY <1>1, <3>2 DEF Volumes
    <3>5. QED
      BY <1>2, <3>3, <3>4
  <2>5. CASE \E r : vol' = [vol EXCEPT ![p].pc = "done", ![p].fopen = FALSE, ![p].ret = r]
    <3>1. PICK r :
            vol' = [vol EXCEPT ![p].pc = "done", ![p].fopen = FALSE, ![p].ret = r]
      BY <2>5
    <3>2. PICK w : w = [v EXCEPT !.pc = "done", !.fopen = FALSE, !.ret = r]
      OBVIOUS
    <3>3. vol' = [vol EXCEPT ![p] = w]
      BY <1>1, <3>1, <3>2
    <3>4. w.pc \in {"open", "ready", "done", v.pc}
      BY <1>1, <3>2 DEF Volumes
    <3>5. QED
      BY <1>2, <3>3, <3>4
  <2>6. QED
    BY ONLY <2>1, <2>2, <2>3, <2>4, <2>5
<1>4. QED
  BY <1>2, <1>3, PastKeeps

(* open asks for the next name at most. *)
LEMMA SchemeOpenFile ==
  ASSUME IInv, SchemeInv, NEW p \in Procs, openFile(p)
  PROVE  SchemeInv'
<1> DEFINE v == vol[p]
<1>1. v \in Volumes /\ Sound(v) /\ vol \in [Procs -> Volumes]
  BY Here
<1>2. v.pc = "open" /\ v.want \in Nat /\ v.want <= Len(files)
  BY <1>1 DEF openFile, Sound, Has, Volumes
<1>3. /\ files' = openVolumeFile(v.want).files /\ old' = openVolumeFile(v.want).old
      /\ arch' = arch
  BY Zenon DEF openFile
<1>4. Schemed(files', old')
  BY <1>2, <1>3, OpenScheme DEF IInv, SchemeInv
<1>5. \E w : vol' = [vol EXCEPT ![p] = w] /\ w.pc \in {"init", "ready"}
  <2>1. \/ \E name : vol' = [vol EXCEPT ![p].pc = "init", ![p].next = name]
        \/ \E e : vol' = [vol EXCEPT ![p].pc = "ready", ![p].ret = e]
    BY Zenon DEF openFile
  <2>2. PICK w : w = vol'[p]
    OBVIOUS
  <2>3. vol' = [vol EXCEPT ![p] = w] /\ w.pc \in {"init", "ready"}
    BY <1>1, <2>1, <2>2 DEF Volumes
  <2>4. QED
    BY <2>3
<1>6. vol'[Main].pc \notin {"none", "new"}
  BY <1>2, <1>5, Past
<1>7. QED
  BY <1>3, <1>4, <1>6, SchemeStep

(* Every step keeps SchemeInv. *)
LEMMA SchemeNext == IInv /\ SchemeInv /\ [Next]_vars => SchemeInv'
<1> SUFFICES ASSUME IInv, SchemeInv, [Next]_vars PROVE SchemeInv'
  OBVIOUS
<1>1. ASSUME NEW p \in Procs, NEW volnum \in 0 .. arch.volumes - 1,
             newVolume(p, volnum) \/ openBlock(p, volnum)
      PROVE  SchemeInv'
  <2>1. volnum \in Nat
    BY ArchiveAssumption DEF IInv, TypeInv
  <2>2. QED
    BY <1>1, <2>1, SchemeNewVolume, SchemePast
<1>2. ASSUME NEW p \in Procs,
             newVolumeInit(p) \/ nextBlock(p) \/ nextBlockRefused(p) \/ nextBlockEnd(p)
               \/ openFile(p) \/ openInit(p) \/ Close(p)
      PROVE  SchemeInv'
  BY <1>2, SchemeNewVolumeInit, SchemePast, SchemeOpenFile
<1>3. ASSUME UNCHANGED <<files, old, vol, arch>> PROVE SchemeInv'
  BY <1>3 DEF SchemeInv, Schemed
<1>4. ASSUME NEW name \in DOMAIN Content, Change(name) PROVE SchemeInv'
  BY <1>3, <1>4 DEF Change, vm
<1>5. CASE UNCHANGED vars
  BY <1>3, <1>5 DEF vars, vm
<1>6. QED
  BY <1>1, <1>2, <1>4, <1>5 DEF Next

(* openVolumeFile, tryNewName, nextNewVolName, nextOldVolName: the names in*)
(* the list are those of one scheme, counted from the first, for every name*)
(* of the first volume (IsName) and any number of volumes, whichever files *)
(* were on disk when a name was first asked for, and whoever asked.        *)
THEOREM SchemeKept == Spec => []OneScheme
<1>1. SchemeInv => OneScheme
  BY DEF SchemeInv, Schemed, OneScheme
<1>2. IInv /\ SchemeInv /\ [Next]_vars => SchemeInv'
  BY SchemeNext
<1>3. QED
  BY <1>1, <1>2, SchemeInit, Invariance, PTL DEF Spec
-----------------------------------------------------------------------------
(* Files.                                                                  *)

(* The names of the first n entries of an archive and of all directories   *)
(* above them.                                                             *)
Pre(p) == {Part(p, 1, i) : i \in 0 .. Len(p)}
Known(e, n) == UNION {Pre(e[i].path) : i \in 1 .. n}

(* What is in the directory a of a tree with the names D. *)
Inside(D, a) == {c \in D : c # <<>> /\ Front(c) = a}

(* The list f has the members of T, each once. *)
Once(f, T) ==
  /\ f \in Seq(T) /\ \A x \in T : \E i \in 1 .. Len(f) : f[i] = x
  /\ \A i, j \in 1 .. Len(f) : f[i] = f[j] => i = j

(* Entry i is the first of the highest version under the name a, of the    *)
(* first n entries; or there is none.                                      *)
Newest(e, n, a, i) ==
  \/ i = 0 /\ \A j \in 1 .. n : e[j].path # a
  \/ /\ i \in 1 .. n /\ e[i].path = a
     /\ \A j \in 1 .. n : e[j].path = a =>
          e[j].ver < e[i].ver \/ (e[j].ver = e[i].ver /\ i <= j)

(* The nodes of the tree of the first n entries. *)
Nodes(e, n, nodes) ==
  \A a \in Known(e, n) : /\ DOMAIN nodes[a] = {"blocks", "files"}
                         /\ Newest(e, n, a, nodes[a].blocks)
                         /\ Once(nodes[a].files, Inside(Known(e, n), a))

FSType ==
  /\ arc \in Seq(Header) /\ openCheck \in BOOLEAN
  /\ pc \in {"list", "build", "ready", "failed"} /\ upto \in 0 .. Len(arc)

ListInv ==
  pc = "list" => /\ decoded = {j \in 1 .. upto : Decodes(j)}
                 /\ node = <<>> /\ ftree = <<>>

BuildInv ==
  /\ pc # "ready" => root = <<>> /\ call = NoCall
  /\ pc = "build" => /\ DOMAIN ftree = Known(arc, upto) /\ DOMAIN node = Known(arc, upto)
                     /\ \A a \in Known(arc, upto) : ftree[a] = a
                     /\ Nodes(arc, upto, node)

(* A name in a Sub stands for the node of the name it has in the archive;  *)
(* the Sub itself has a node with the same list.                           *)
Within(e, dir) == {q \in Seq(Element) : Cat(dir, q) \in Known(e, Len(e))}
TreeInv ==
  pc = "ready" =>
    /\ Known(arc, Len(arc)) \subseteq DOMAIN node /\ Nodes(arc, Len(arc), node)
    /\ root \in Seq(Element) /\ (root # <<>> => root \in Known(arc, Len(arc)))
    /\ DOMAIN ftree = Within(arc, root)
    /\ \A q \in Within(arc, root) :
         /\ q # <<>> => ftree[q] = Cat(root, q)
         /\ node[ftree[q]].files = node[Cat(root, q)].files

FSInv == FSType /\ ListInv /\ BuildInv /\ TreeInv /\ SoundArchiveOpens /\ ResolvesToLatest
-----------------------------------------------------------------------------
(* Names are sequences; a directory above a name is a part of it from the  *)
(* start.                                                                  *)

(* The first i members. *)
LEMMA FirstPart ==
  ASSUME NEW S, NEW s \in Seq(S), NEW i \in 0 .. Len(s)
  PROVE  /\ Part(s, 1, i) \in Seq(S) /\ Len(Part(s, 1, i)) = i
         /\ \A x \in 1 .. i : Part(s, 1, i)[x] = s[x]
<1>1. Len(s) \in Nat /\ i \in Nat /\ i <= Len(s) /\ 1 \in 1 .. Len(s) + 1 /\ 1 <= i + 1
  BY LenProperties
<1>2. /\ Part(s, 1, i) \in Seq(S) /\ Len(Part(s, 1, i)) = i - 1 + 1
      /\ \A x \in 1 .. i - 1 + 1 : Part(s, 1, i)[x] = s[1 + x - 1]
  BY <1>1, PartType
<1>3. i - 1 + 1 = i /\ \A x \in 1 .. i : 1 + x - 1 = x
  BY <1>1
<1>4. QED
  BY <1>2, <1>3

LEMMA CatLen ==
  ASSUME NEW S, NEW s \in Seq(S), NEW t \in Seq(S)
  PROVE  /\ Cat(s, t) \in Seq(S) /\ Len(Cat(s, t)) = Len(s) + Len(t)
         /\ Len(s) \in Nat /\ Len(t) \in Nat
BY CatType

LEMMA CatAt ==
  ASSUME NEW S, NEW s \in Seq(S), NEW t \in Seq(S)
  PROVE  /\ \A j \in 1 .. Len(s) : Cat(s, t)[j] = s[j]
         /\ \A j \in 1 .. Len(t) : Cat(s, t)[Len(s) + j] = t[j]
<1>1. \A j \in 1 .. Len(s) : Cat(s, t)[j] = s[j]
  BY CatType
<1>2. \A j \in 1 .. Len(t) : Cat(s, t)[Len(s) + j] = t[j]
  BY CatType
<1>3. QED
  BY <1>1, <1>2

LEMMA PartOfPart ==
  ASSUME NEW S, NEW s \in Seq(S), NEW i \in 0 .. Len(s), NEW j \in 0 .. i
  PROVE  /\ Part(s, 1, i) \in Seq(S) /\ Len(Part(s, 1, i)) = i
         /\ Part(Part(s, 1, i), 1, j) = Part(s, 1, j)
<1>1. Len(s) \in Nat /\ i \in Nat /\ j \in Nat /\ i <= Len(s) /\ j <= i
  BY LenProperties
<1>2. j \in 0 .. Len(s)
  BY <1>1
<1> DEFINE p == Part(s, 1, i)
           q == Part(s, 1, j)
<1>3. /\ p \in Seq(S) /\ Len(p) = i /\ \A x \in 1 .. i : p[x] = s[x]
      /\ q \in Seq(S) /\ Len(q) = j /\ \A x \in 1 .. j : q[x] = s[x]
  BY <1>2, FirstPart
<1> HIDE DEF p, q
<1>4. /\ Part(p, 1, j) \in Seq(S) /\ Len(Part(p, 1, j)) = j
      /\ \A x \in 1 .. j : Part(p, 1, j)[x] = p[x]
  BY <1>1, <1>3, FirstPart
<1> DEFINE r == Part(p, 1, j)
<1>5. r \in Seq(S) /\ Len(r) = j /\ \A x \in 1 .. j : r[x] = q[x]
  BY <1>1, <1>3, <1>4
<1> HIDE DEF r
<1>6. r = q
  BY <1>1, <1>3, <1>5, SeqEqual
<1>7. QED
  BY <1>3, <1>6 DEF p, q, r

(* The directory above a name. *)
LEMMA FrontIs ==
  ASSUME NEW S, NEW s \in Seq(S), s # <<>>
  PROVE  /\ Len(s) \in Nat /\ Len(s) - 1 \in 0 .. Len(s) /\ Len(s) >= 1
         /\ Front(s) = Part(s, 1, Len(s) - 1)
         /\ Front(s) \in Seq(S) /\ Len(Front(s)) = Len(s) - 1
<1>1. Len(s) \in Nat /\ Len(s) # 0
  BY LenProperties, EmptySeq
<1>2. Len(s) - 1 \in 0 .. Len(s) /\ Len(s) >= 1
  BY <1>1
<1>3. PICK k : k = Len(s) - 1
  OBVIOUS
<1>4. Part(s, 1, k) \in Seq(S) /\ Len(Part(s, 1, k)) = k
  BY <1>1, <1>2, <1>3, FirstPart
<1>5. Front(s) = Part(s, 1, Len(s) - 1)
  BY DEF Front, Part
<1>6. QED
  BY <1>1, <1>2, <1>3, <1>4, <1>5

LEMMA PrefixIs ==
  ASSUME NEW S, NEW s \in Seq(S), NEW t \in Seq(S)
  PROVE  IsPrefix(s, t) <=> Len(s) <= Len(t) /\ s = Part(t, 1, Len(s))
BY PartAll DEF IsPrefix, Part

(* What is in front of a sequence and what is behind. *)
LEMMA CatParts ==
  ASSUME NEW S, NEW s \in Seq(S), NEW t \in Seq(S)
  PROVE  /\ Part(Cat(s, t), 1, Len(s)) = s
         /\ Part(Cat(s, t), Len(s) + 1, Len(s) + Len(t)) = t
<1>1. /\ Cat(s, t) \in Seq(S) /\ Len(Cat(s, t)) = Len(s) + Len(t)
      /\ Len(s) \in Nat /\ Len(t) \in Nat
  BY CatLen
<1> DEFINE c == Cat(s, t)
<1>2. PICK m, n : m = Len(s) /\ n = Len(s) + Len(t)
  OBVIOUS
<1>0. /\ \A j \in 1 .. Len(s) : c[j] = s[j]
      /\ \A j \in 1 .. Len(t) : c[Len(s) + j] = t[j]
  BY CatAt
<1> HIDE DEF c
<1>3. /\ c \in Seq(S) /\ Len(c) = n /\ m \in Nat /\ n \in Nat /\ m <= n
      /\ \A j \in 1 .. m : c[j] = s[j]
      /\ \A j \in 1 .. Len(t) : c[m + j] = t[j]
  BY <1>0, <1>1, <1>2 DEF c
<1>4. Part(c, 1, m) = s
  <2>1. Part(c, 1, m) \in Seq(S) /\ Len(Part(c, 1, m)) = m
        /\ \A j \in 1 .. m : Part(c, 1, m)[j] = c[j]
    BY <1>3, FirstPart
  <2>2. QED
    BY <1>2, <1>3, <2>1, SeqEqual
<1>5. Part(c, m + 1, n) = t
  <2>1. PICK k : k = m + 1
    OBVIOUS
  <2>2. Part(c, k, n) \in Seq(S) /\ Len(Part(c, k, n)) = n - k + 1
        /\ \A j \in 1 .. n - k + 1 : Part(c, k, n)[j] = c[k + j - 1]
    <3>1. c \in Seq(S) /\ k \in 1 .. Len(c) + 1 /\ n \in 0 .. Len(c) /\ k <= n + 1
      BY <1>3, <2>1
    <3>2. QED
      BY ONLY <3>1, PartType
  <2>3. n - k + 1 = Len(t)
    BY <1>1, <1>2, <2>1
  <2>4. \A j \in 1 .. Len(t) : Part(c, k, n)[j] = t[j]
    BY <1>1, <1>3, <2>1, <2>2, <2>3
  <2>5. Part(c, k, n) = t
    BY <2>2, <2>3, <2>4, SeqEqual
  <2>6. QED
    BY <2>1, <2>5
<1>6. QED
  BY <1>2, <1>4, <1>5 DEF c

LEMMA CatPrefix ==
  ASSUME NEW S, NEW s \in Seq(S), NEW t \in Seq(S), IsPrefix(s, t)
  PROVE  LET r == Part(t, Len(s) + 1, Len(t))
         IN r \in Seq(S) /\ Cat(s, r) = t /\ (s # t => r # <<>>)
<1>1. Len(s) \in Nat /\ Len(t) \in Nat /\ Len(s) <= Len(t) /\ s = Part(t, 1, Len(s))
  BY LenProperties, PrefixIs
<1>2. PICK i, k : i = Len(s) /\ k = Len(t) - i
  OBVIOUS
<1>3. i \in 0 .. Len(t) /\ k \in 0 .. Len(t) - i /\ i + k = Len(t)
  BY <1>1, <1>2
<1>4. Cat(Part(t, 1, i), Part(t, i + 1, i + k)) = Part(t, 1, i + k)
  BY <1>3, PartNext
<1>5. Part(t, 1, Len(t)) = t
  BY PartAll
<1>6. Cat(s, Part(t, Len(s) + 1, Len(t))) = t
  BY <1>1, <1>2, <1>3, <1>4, <1>5
<1>7. Part(t, Len(s) + 1, Len(t)) \in Seq(S)
  <2>1. PICK m : m = Len(s) + 1
    OBVIOUS
  <2>2. m \in 1 .. Len(t) + 1 /\ Len(t) \in 0 .. Len(t) /\ m <= Len(t) + 1
    BY <1>1, <2>1
  <2>3. QED
    BY <2>1, <2>2, PartType
<1>8. QED
  BY <1>6, <1>7, CatEmpty

(* Names below a directory are as many as their rests. *)
LEMMA CatCancel ==
  ASSUME NEW S, NEW s \in Seq(S), NEW t \in Seq(S), NEW r \in Seq(S), Cat(s, t) = Cat(s, r)
  PROVE  t = r
<1>1. /\ Len(Cat(s, t)) = Len(s) + Len(t) /\ Len(Cat(s, r)) = Len(s) + Len(r)
      /\ Len(s) \in Nat /\ Len(t) \in Nat /\ Len(r) \in Nat
  BY CatLen
<1>2. Len(t) = Len(r)
  BY <1>1
<1>3. /\ Part(Cat(s, t), Len(s) + 1, Len(s) + Len(t)) = t
      /\ Part(Cat(s, r), Len(s) + 1, Len(s) + Len(r)) = r
  BY CatParts
<1>4. QED
  BY <1>2, <1>3

LEMMA CatPart ==
  ASSUME NEW S, NEW s \in Seq(S), NEW t \in Seq(S), NEW i \in 0 .. Len(t)
  PROVE  Part(Cat(s, t), 1, Len(s) + i) = Cat(s, Part(t, 1, i))
<1>1. /\ Cat(s, t) \in Seq(S) /\ Len(Cat(s, t)) = Len(s) + Len(t)
      /\ Len(s) \in Nat /\ Len(t) \in Nat /\ i \in Nat /\ i <= Len(t)
  BY CatLen
<1>2. PICK c, n : c = Cat(s, t) /\ n = Len(s) + i
  OBVIOUS
<1>0. /\ \A j \in 1 .. Len(s) : c[j] = s[j]
      /\ \A j \in 1 .. Len(t) : c[Len(s) + j] = t[j]
  BY <1>2, CatAt
<1>3. c \in Seq(S) /\ n \in 0 .. Len(c) /\ n \in Nat /\ Len(c) \in Nat
  BY <1>1, <1>2
<1>4. PICK p, q : p = Part(c, 1, n) /\ q = Part(t, 1, i)
  OBVIOUS
<1>5. p \in Seq(S) /\ Len(p) = n /\ \A j \in 1 .. n : p[j] = c[j]
  BY <1>3, <1>4, FirstPart
<1>6. q \in Seq(S) /\ Len(q) = i /\ \A j \in 1 .. i : q[j] = t[j]
  BY <1>1, <1>4, FirstPart
<1>7. /\ Len(p) = Len(s) + Len(q)
      /\ \A j \in 1 .. Len(s) : p[j] = s[j]
      /\ \A j \in 1 .. Len(q) : p[Len(s) + j] = q[j]
  <2>1. Len(p) = Len(s) + Len(q)
    BY <1>2, <1>5, <1>6
  <2>2. \A j \in 1 .. Len(s) : j \in 1 .. n
    BY <1>1, <1>2
  <2>3. \A j \in 1 .. Len(q) : Len(s) + j \in 1 .. n /\ j \in 1 .. Len(t) /\ j \in 1 .. i
    BY <1>1, <1>2, <1>6
  <2>4. \A j \in 1 .. Len(s) : p[j] = s[j]
    BY <1>0, <1>5, <2>2
  <2>5. \A j \in 1 .. Len(q) : p[Len(s) + j] = q[j]
    BY <1>0, <1>5, <1>6, <2>3
  <2>6. QED
    BY <2>1, <2>4, <2>5
<1>8. Cat(s, q) = p
  BY <1>5, <1>6, <1>7, CatIs
<1>9. QED
  BY <1>2, <1>4, <1>8

LEMMA CatFront ==
  ASSUME NEW S, NEW s \in Seq(S), NEW t \in Seq(S), t # <<>>
  PROVE  Cat(s, t) # <<>> /\ Front(Cat(s, t)) = Cat(s, Front(t))
<1>1. /\ Len(t) \in Nat /\ Len(t) - 1 \in 0 .. Len(t) /\ Len(t) >= 1
      /\ Front(t) = Part(t, 1, Len(t) - 1)
  BY FrontIs
<1>2. Cat(s, t) \in Seq(S) /\ Len(Cat(s, t)) = Len(s) + Len(t) /\ Len(s) \in Nat
  BY CatLen
<1>3. Cat(s, t) # <<>>
  BY <1>1, <1>2, EmptySeq
<1>4. Front(Cat(s, t)) = Part(Cat(s, t), 1, Len(Cat(s, t)) - 1)
  BY <1>2, <1>3, FrontIs
<1>5. PICK i : i = Len(t) - 1
  OBVIOUS
<1>6. Len(Cat(s, t)) - 1 = Len(s) + i
  BY <1>1, <1>2, <1>5
<1>7. Part(Cat(s, t), 1, Len(s) + i) = Cat(s, Part(t, 1, i))
  BY <1>1, <1>5, CatPart
<1>8. QED
  BY <1>1, <1>3, <1>4, <1>5, <1>6, <1>7
-----------------------------------------------------------------------------
(* The names of an archive.                                                *)

(* e is an archive, and n entries of it are in the tree. *)
Entries(e, n) == e \in Seq(Header) /\ n \in 0 .. Len(e)

LEMMA PathIs ==
  ASSUME NEW e, NEW n, Entries(e, n)
  PROVE  /\ Len(e) \in Nat /\ n \in Nat /\ n <= Len(e)
         /\ \A i \in 1 .. n : e[i] \in Header /\ e[i].path \in Seq(Element) /\ e[i].ver \in Nat
<1>1. Len(e) \in Nat /\ n \in Nat /\ n <= Len(e)
  BY LenProperties DEF Entries
<1>2. \A i \in 1 .. n : i \in 1 .. Len(e)
  BY <1>1
<1>3. \A i \in 1 .. n : e[i] \in Header
  BY <1>2, ElementOfSeq DEF Entries
<1>4. QED
  BY <1>1, <1>3 DEF Header

(* The directories above a name, and the name. *)
LEMMA PreIs ==
  ASSUME NEW p \in Seq(Element), NEW c \in Pre(p)
  PROVE  /\ c \in Seq(Element) /\ Len(c) \in 0 .. Len(p) /\ c = Part(p, 1, Len(c))
         /\ IsPrefix(c, p) /\ Pre(c) \subseteq Pre(p)
<1>1. PICK i \in 0 .. Len(p) : c = Part(p, 1, i)
  BY DEF Pre
<1>2. c \in Seq(Element) /\ Len(c) = i
  BY <1>1, FirstPart
<1>3. i \in Nat /\ Len(p) \in Nat /\ i <= Len(p)
  BY LenProperties
<1>4. IsPrefix(c, p)
  BY <1>1, <1>2, <1>3, PrefixIs
<1>5. ASSUME NEW d \in Pre(c) PROVE d \in Pre(p)
  <2>1. PICK j \in 0 .. i : d = Part(c, 1, j)
    BY <1>2 DEF Pre
  <2>2. d = Part(p, 1, j)
    BY <1>1, <2>1, PartOfPart
  <2>3. j \in 0 .. Len(p)
    BY <1>3
  <2>4. QED
    BY <2>2, <2>3 DEF Pre
<1>6. QED
  BY <1>1, <1>2, <1>4, <1>5

LEMMA PreSelf ==
  ASSUME NEW p \in Seq(Element)
  PROVE  p \in Pre(p) /\ <<>> \in Pre(p)
<1>1. Len(p) \in 0 .. Len(p) /\ 0 \in 0 .. Len(p) /\ Len(p) \in Nat
  BY LenProperties
<1>2. Part(p, 1, Len(p)) = p
  BY PartAll
<1>3. Part(p, 1, 0) \in Seq(Element) /\ Len(Part(p, 1, 0)) = 0
  BY <1>1, FirstPart
<1>4. Part(p, 1, 0) = <<>>
  BY <1>3, EmptySeq
<1>5. QED
  BY <1>1, <1>2, <1>4 DEF Pre

LEMMA PrefixPre ==
  ASSUME NEW p \in Seq(Element), NEW c \in Seq(Element), IsPrefix(c, p)
  PROVE  c \in Pre(p)
<1>1. Len(c) <= Len(p) /\ c = Part(p, 1, Len(c)) /\ Len(c) \in Nat /\ Len(p) \in Nat
  BY PrefixIs, LenProperties
<1>2. Len(c) \in 0 .. Len(p)
  BY <1>1
<1>3. QED
  BY <1>1, <1>2 DEF Pre

LEMMA PreFront ==
  ASSUME NEW p \in Seq(Element), p # <<>>
  PROVE  Front(p) \in Pre(p) /\ Front(p) \in Seq(Element)
BY FrontIs DEF Pre

LEMMA AncestorsIs ==
  ASSUME NEW p \in Seq(Element)
  PROVE  /\ Pre(p) = Ancestors(p) \cup {p}
         /\ \A a \in Ancestors(p) : /\ a \in Seq(Element) /\ Len(a) \in 0 .. Len(p) - 1
                                    /\ a = Part(p, 1, Len(a)) /\ a # p
<1>1. Len(p) \in Nat /\ Part(p, 1, Len(p)) = p
  BY LenProperties, PartAll
<1>2. Ancestors(p) = {Part(p, 1, i) : i \in 0 .. Len(p) - 1}
  BY DEF Ancestors, Part
<1>3. 0 .. Len(p) = (0 .. Len(p) - 1) \cup {Len(p)}
  BY <1>1
<1>4. Pre(p) = Ancestors(p) \cup {p}
  BY <1>1, <1>2, <1>3 DEF Pre
<1>5. ASSUME NEW a \in Ancestors(p)
      PROVE  /\ a \in Seq(Element) /\ Len(a) \in 0 .. Len(p) - 1
             /\ a = Part(p, 1, Len(a)) /\ a # p
  <2>1. PICK i \in 0 .. Len(p) - 1 : a = Part(p, 1, i)
    BY <1>2
  <2>2. i \in 0 .. Len(p) /\ i # Len(p)
    BY <1>1
  <2>3. a \in Seq(Element) /\ Len(a) = i
    BY <2>1, <2>2, FirstPart
  <2>4. QED
    BY <2>1, <2>2, <2>3
<1>6. QED
  BY <1>4, <1>5

(* Every directory above a known name is known. *)
LEMMA KnownIs ==
  ASSUME NEW e, NEW n, Entries(e, n)
  PROVE  /\ \A c \in Known(e, n) : /\ c \in Seq(Element) /\ Pre(c) \subseteq Known(e, n)
                                   /\ c # <<>> => Front(c) \in Known(e, n)
         /\ \A i \in 1 .. n : Pre(e[i].path) \subseteq Known(e, n) /\ e[i].path \in Known(e, n)
         /\ n > 0 => <<>> \in Known(e, n)
<1>1. ASSUME NEW c \in Known(e, n)
      PROVE  /\ c \in Seq(Element) /\ Pre(c) \subseteq Known(e, n)
             /\ c # <<>> => Front(c) \in Known(e, n)
  <2>1. PICK i \in 1 .. n : c \in Pre(e[i].path)
    BY DEF Known
  <2>2. c \in Seq(Element) /\ Pre(c) \subseteq Pre(e[i].path)
    BY <2>1, PathIs, PreIs
  <2>3. Pre(e[i].path) \subseteq Known(e, n)
    BY DEF Known
  <2>4. QED
    BY <2>2, <2>3, PreFront
<1>2. ASSUME NEW i \in 1 .. n
      PROVE  Pre(e[i].path) \subseteq Known(e, n) /\ e[i].path \in Known(e, n) /\ <<>> \in Known(e, n)
  <2>1. e[i].path \in Pre(e[i].path) /\ <<>> \in Pre(e[i].path)
    BY PathIs, PreSelf
  <2>2. QED
    BY <2>1 DEF Known
<1>3. n > 0 => 1 \in 1 .. n
  BY PathIs
<1>4. QED
  BY <1>1, <1>2, <1>3

LEMMA KnownNext ==
  ASSUME NEW e, NEW n, Entries(e, n), Entries(e, n + 1)
  PROVE  Known(e, n + 1) = Known(e, n) \cup Pre(e[n + 1].path)
<1>1. n \in Nat
  BY PathIs
<1>2. 1 .. n + 1 = (1 .. n) \cup {n + 1}
  BY <1>1
<1>3. QED
  BY <1>2 DEF Known
-----------------------------------------------------------------------------
(* A new name.                                                             *)

(* The directories above p that get a file, in a tree with the names D. *)
Above(p, D) == {a \in Ancestors(p) : \A b \in Ancestors(p) \cap D : Len(b) <= Len(a)}
Toward(p, a) == Part(p, 1, Len(a) + 1)

(* D is a tree: with a name it has all directories above it. *)
Closed(D) == \A c \in D : c \in Seq(Element) /\ Pre(c) \subseteq D

LEMMA AboveIs ==
  ASSUME NEW p \in Seq(Element), NEW D, Closed(D), p \notin D, NEW c \in Pre(p), c \notin D
  PROVE  /\ c = p \/ c \in Above(p, D)
         /\ c # <<>> => Front(c) \in Above(p, D)
<1>1. c \in Seq(Element) /\ Len(c) \in 0 .. Len(p) /\ c = Part(p, 1, Len(c)) /\ Pre(c) \subseteq Pre(p)
  BY PreIs
<1>2. Len(c) \in Nat /\ Len(p) \in Nat
  BY <1>1, LenProperties
<1>3. ASSUME NEW b \in Ancestors(p) \cap D PROVE Len(b) \in Nat /\ Len(b) < Len(c)
  <2>1. b \in Seq(Element) /\ Len(b) \in 0 .. Len(p) - 1 /\ b = Part(p, 1, Len(b)) /\ Pre(b) \subseteq D
    BY <1>3, AncestorsIs DEF Closed
  <2>2. Len(b) \in Nat /\ Len(b) \in 0 .. Len(p)
    BY <1>2, <2>1
  <2>3. SUFFICES ASSUME Len(c) <= Len(b) PROVE FALSE
    BY <1>2, <2>2
  <2>4. Len(c) \in 0 .. Len(b)
    BY <1>2, <2>2, <2>3
  <2>5. c = Part(b, 1, Len(c))
    BY <1>1, <2>1, <2>2, <2>4, PartOfPart
  <2>6. c \in Pre(b)
    BY <2>4, <2>5 DEF Pre
  <2>7. QED
    BY <2>1, <2>6
<1>4. c = p \/ c \in Above(p, D)
  BY <1>2, <1>3, AncestorsIs DEF Above
<1>5. ASSUME c # <<>> PROVE Front(c) \in Above(p, D)
  <2>1. /\ Front(c) \in Pre(c) /\ Front(c) \in Seq(Element) /\ Len(Front(c)) = Len(c) - 1
    BY <1>1, <1>5, PreFront, FrontIs
  <2>2. Front(c) \in Pre(p) /\ Len(Front(c)) < Len(p)
    BY <1>1, <1>2, <2>1
  <2>3. Front(c) \in Ancestors(p)
    BY <2>2, AncestorsIs
  <2>4. \A b \in Ancestors(p) \cap D : Len(b) <= Len(Front(c))
    BY <1>2, <1>3, <2>1
  <2>5. QED
    BY <2>3, <2>4 DEF Above
<1>6. QED
  BY <1>4, <1>5

LEMMA ChildIs ==
  ASSUME NEW p \in Seq(Element), NEW D, Closed(D), p \notin D, NEW a \in Above(p, D)
  PROVE  /\ a \in Pre(p) /\ a # p
         /\ Toward(p, a) \in Pre(p) /\ Toward(p, a) \notin D
         /\ Toward(p, a) # <<>> /\ Front(Toward(p, a)) = a
<1>1. /\ a \in Ancestors(p) /\ a \in Seq(Element) /\ Len(a) \in 0 .. Len(p) - 1
      /\ a = Part(p, 1, Len(a)) /\ a # p /\ a \in Pre(p)
  BY AncestorsIs DEF Above
<1>2. Len(p) \in Nat /\ Len(a) \in Nat
  BY <1>1, LenProperties
<1>3. PICK i, c : i = Len(a) + 1 /\ c = Part(p, 1, i)
  OBVIOUS
<1>4. i \in 0 .. Len(p) /\ i \in Nat /\ i > 0 /\ i - 1 \in 0 .. i /\ i - 1 = Len(a)
  BY <1>1, <1>2, <1>3
<1>5. c \in Seq(Element) /\ Len(c) = i /\ c \in Pre(p)
  BY <1>3, <1>4, FirstPart DEF Pre
<1>6. c # <<>>
  BY <1>4, <1>5, EmptySeq
<1>7. Front(c) = Part(c, 1, i - 1)
  BY <1>5, <1>6, FrontIs
<1>8. Part(c, 1, i - 1) = Part(p, 1, i - 1)
  BY <1>3, <1>4, PartOfPart
<1>9. Front(c) = a
  BY <1>1, <1>4, <1>7, <1>8
<1>10. c \notin D
  <2>1. SUFFICES ASSUME c \in D PROVE FALSE
    OBVIOUS
  <2>2. c # p
    BY <2>1
  <2>3. c \in Ancestors(p) \cap D
    BY <1>5, <2>1, <2>2, AncestorsIs
  <2>4. Len(c) <= Len(a)
    BY <2>3 DEF Above
  <2>5. QED
    BY <1>2, <1>3, <1>5, <2>4
<1>11. QED
  BY <1>1, <1>3, <1>5, <1>6, <1>9, <1>10 DEF Toward

(* The lists of the tree that p has been put into. *)
LEMMA InsideNext ==
  ASSUME NEW p \in Seq(Element), NEW D, Closed(D), p \notin D, NEW a \in D \cup Pre(p)
  PROVE  /\ a = p => Inside(D \cup Pre(p), a) = {}
         /\ a \in Above(p, D) =>
              /\ Inside(D \cup Pre(p), a) = Inside(D, a) \cup {Toward(p, a)}
              /\ Toward(p, a) \notin Inside(D, a)
         /\ a # p /\ a \notin Above(p, D) => Inside(D \cup Pre(p), a) = Inside(D, a) /\ a \in D
         /\ a \notin D => Inside(D, a) = {}
<1>1. ASSUME NEW c \in D, c # <<>> PROVE Front(c) \in D /\ Front(c) # p
  BY <1>1, PreFront DEF Closed
<1>2. a \notin D => Inside(D, a) = {}
  BY <1>1 DEF Inside
<1>3. ASSUME NEW c \in Pre(p), c \notin D, c # <<>>
      PROVE  /\ Front(c) \in Above(p, D) /\ Front(c) # p
             /\ c = Toward(p, Front(c))
  <2>1. Front(c) \in Above(p, D)
    BY <1>3, AboveIs
  <2>2. Front(c) # p
    BY <2>1, ChildIs
  <2>3. /\ c \in Seq(Element) /\ Len(c) \in 0 .. Len(p) /\ c = Part(p, 1, Len(c))
    BY PreIs
  <2>4. Len(c) \in Nat /\ Len(Front(c)) = Len(c) - 1
    BY <1>3, <2>3, FrontIs
  <2>5. Len(Front(c)) + 1 = Len(c)
    BY <2>4
  <2>6. QED
    BY <2>1, <2>2, <2>3, <2>5 DEF Toward
<1>4. a = p => Inside(D \cup Pre(p), a) = {}
  BY <1>1, <1>3 DEF Inside
<1>5. ASSUME a \in Above(p, D)
      PROVE  /\ Inside(D \cup Pre(p), a) = Inside(D, a) \cup {Toward(p, a)}
             /\ Toward(p, a) \notin Inside(D, a)
  <2>1. /\ Toward(p, a) \in Pre(p) /\ Toward(p, a) \notin D
        /\ Toward(p, a) # <<>> /\ Front(Toward(p, a)) = a
    BY <1>5, ChildIs
  <2>2. QED
    BY <1>3, <2>1 DEF Inside
<1>6. ASSUME a # p, a \notin Above(p, D)
      PROVE  Inside(D \cup Pre(p), a) = Inside(D, a) /\ a \in D
  <2>1. a \in D
    BY <1>6, AboveIs
  <2>2. QED
    BY <1>3, <1>6, <2>1 DEF Inside
<1>7. QED
  BY <1>2, <1>4, <1>5, <1>6
-----------------------------------------------------------------------------
(* The list of a directory.                                                *)

LEMMA OnceNone == Once(<<>>, {})
<1>1. <<>> \in Seq({}) /\ Len(<<>>) = 0
  BY EmptySeq
<1>2. QED
  BY <1>1 DEF Once

LEMMA OnceMore ==
  ASSUME NEW T, NEW f, Once(f, T), NEW c, c \notin T
  PROVE  Once(Append(f, c), T \cup {c})
<1>1. f \in Seq(T) /\ f \in Seq(T \cup {c}) /\ Len(f) \in Nat
  BY SeqMonotonic, LenProperties DEF Once
<1>2. /\ Append(f, c) \in Seq(T \cup {c}) /\ Len(Append(f, c)) = Len(f) + 1
      /\ \A i \in 1 .. Len(f) : Append(f, c)[i] = f[i]
      /\ Append(f, c)[Len(f) + 1] = c
  BY <1>1, AppendProperties
<1>3. PICK g, n : g = Append(f, c) /\ n = Len(f)
  OBVIOUS
<1>4. n \in Nat /\ Len(g) = n + 1 /\ (\A i \in 1 .. n : g[i] = f[i]) /\ g[n + 1] = c
  BY <1>1, <1>2, <1>3
<1>5. \A i \in 1 .. n : f[i] \in T /\ f[i] # c
  BY <1>1, <1>3, ElementOfSeq
<1>6. ASSUME NEW x \in T \cup {c} PROVE \E i \in 1 .. n + 1 : g[i] = x
  <2>1. CASE x = c
    BY <1>4, <2>1
  <2>2. CASE x \in T
    <3>1. PICK i \in 1 .. n : f[i] = x
      BY <1>3, <2>2 DEF Once
    <3>2. i \in 1 .. n + 1
      BY <1>4
    <3>3. QED
      BY <1>4, <3>1, <3>2
  <2>3. QED
    BY <2>1, <2>2
<1>7. ASSUME NEW i \in 1 .. n + 1, NEW j \in 1 .. n + 1, g[i] = g[j] PROVE i = j
  <2>1. i \in 1 .. n \/ i = n + 1
    BY <1>4
  <2>2. j \in 1 .. n \/ j = n + 1
    BY <1>4
  <2>3. CASE i \in 1 .. n /\ j \in 1 .. n
    <3>1. f[i] = f[j]
      BY <1>4, <1>7, <2>3
    <3>2. QED
      BY <1>3, <2>3, <3>1 DEF Once
  <2>4. QED
    BY <1>4, <1>5, <1>7, <2>1, <2>2, <2>3
<1>8. QED
  BY <1>2, <1>3, <1>4, <1>6, <1>7 DEF Once

(* As TreeExact says it. *)
LEMMA OnceIs ==
  ASSUME NEW T, NEW f, Once(f, T)
  PROVE  Cardinality(ToSet(f)) = Len(f) /\ ToSet(f) = T
<1>1. f \in Seq(T) /\ Len(f) \in Nat /\ DOMAIN f = 1 .. Len(f)
  BY LenProperties DEF Once
<1>2. \A i \in 1 .. Len(f) : f[i] \in T
  BY <1>1, ElementOfSeq
<1>3. ToSet(f) = T
  BY <1>1, <1>2 DEF ToSet, Once
<1>4. PICK n \in Nat : n = Len(f)
  BY <1>1
<1> DEFINE g == [i \in 1 .. n |-> f[i]]
<1>5. g \in Bijection(1 .. n, T)
  <2>1. g \in [1 .. n -> T] /\ \A i \in 1 .. n : g[i] = f[i]
    BY <1>2, <1>4
  <2> HIDE DEF g
  <2>2. \A i, j \in 1 .. n : g[i] = g[j] => i = j
    BY <1>4, <2>1 DEF Once
  <2>3. \A x \in T : \E i \in 1 .. n : g[i] = x
    BY <1>4, <2>1 DEF Once
  <2>4. QED
    BY ONLY <2>1, <2>2, <2>3 DEF Bijection, Injection, Surjection, IsInjective
<1> HIDE DEF g
<1>6. ExistsBijection(1 .. n, T)
  BY <1>5 DEF ExistsBijection
<1>7. Cardinality(T) = n
  BY <1>6, FS_CountingElements
<1>8. QED
  BY <1>3, <1>4, <1>7
-----------------------------------------------------------------------------
(* The newest entry of a name.                                             *)

LEMMA NewestNext ==
  ASSUME NEW e, NEW n, Entries(e, n), Entries(e, n + 1), NEW a, NEW i, Newest(e, n, a, i)
  PROVE  Newest(e, n + 1, a, IF e[n + 1].path = a /\ (i = 0 \/ e[i].ver < e[n + 1].ver)
                             THEN n + 1 ELSE i)
<1>1. n \in Nat /\ 1 .. n + 1 = (1 .. n) \cup {n + 1} /\ \A j \in 1 .. n + 1 : e[j].ver \in Nat
  <2>1. n \in Nat
    BY PathIs
  <2>2. \A j \in 1 .. n + 1 : e[j].ver \in Nat
    BY PathIs
  <2>3. QED
    BY <2>1, <2>2
<1>2. CASE e[n + 1].path # a
  BY <1>1, <1>2 DEF Newest
<1>3. CASE e[n + 1].path = a /\ i = 0
  BY <1>1, <1>3 DEF Newest
<1>4. CASE e[n + 1].path = a /\ i # 0 /\ e[i].ver < e[n + 1].ver
  <2>1. /\ i \in 1 .. n /\ e[i].path = a
        /\ \A j \in 1 .. n : e[j].path = a =>
             e[j].ver < e[i].ver \/ (e[j].ver = e[i].ver /\ i <= j)
    BY <1>4 DEF Newest
  <2>2. \A j \in 1 .. n : e[j].path = a => e[j].ver < e[n + 1].ver
    BY <1>1, <1>4, <2>1
  <2>3. \A j \in 1 .. n + 1 : e[j].path = a =>
          e[j].ver < e[n + 1].ver \/ (e[j].ver = e[n + 1].ver /\ n + 1 <= j)
    BY <1>1, <2>2
  <2>4. Newest(e, n + 1, a, n + 1)
    BY <1>1, <1>4, <2>3 DEF Newest
  <2>5. QED
    BY <1>4, <2>4
<1>5. CASE e[n + 1].path = a /\ i # 0 /\ ~(e[i].ver < e[n + 1].ver)
  <2>1. /\ i \in 1 .. n /\ e[i].path = a
        /\ \A j \in 1 .. n : e[j].path = a =>
             e[j].ver < e[i].ver \/ (e[j].ver = e[i].ver /\ i <= j)
    BY <1>5 DEF Newest
  <2>2. e[n + 1].ver < e[i].ver \/ (e[n + 1].ver = e[i].ver /\ i <= n + 1)
    BY <1>1, <1>5, <2>1
  <2>3. \A j \in 1 .. n + 1 : e[j].path = a =>
          e[j].ver < e[i].ver \/ (e[j].ver = e[i].ver /\ i <= j)
    BY <1>1, <2>1, <2>2
  <2>4. Newest(e, n + 1, a, i)
    BY <1>1, <2>1, <2>3 DEF Newest
  <2>5. QED
    BY <1>5, <2>4
<1>6. QED
  BY <1>2, <1>3, <1>4, <1>5

(* There is one. *)
LEMMA NewestIs ==
  ASSUME FSType, NEW a, NEW i, Newest(arc, Len(arc), a, i)
  PROVE  i = Latest(a)
<1>1. \A j \in 1 .. Len(arc) : arc[j].ver \in Nat
  BY PathIs DEF FSType, Entries
<1> DEFINE all == {j \in 1 .. Len(arc) : arc[j].path = a}
           best == {j \in all : \A m \in all : arc[m].ver <= arc[j].ver}
<1>2. CASE i = 0 /\ all = {}
  BY <1>2 DEF Latest
<1>3. CASE all # {}
  <2>1. i \in all /\ \A m \in all : arc[m].ver < arc[i].ver \/ (arc[m].ver = arc[i].ver /\ i <= m)
    BY <1>3 DEF Newest
  <2>2. i \in best
    BY <1>1, <2>1
  <2>3. \A m \in best : arc[m].ver = arc[i].ver /\ i <= m
    BY <1>1, <2>1
  <2>4. \A m \in best : m \in Int
    OBVIOUS
  <2>5. \A m \in best : (\A j \in best : m <= j) => m = i
    BY <2>2, <2>3, <2>4
  <2>6. Latest(a) = CHOOSE m \in best : \A j \in best : m <= j
    BY <1>3 DEF Latest
  <2> HIDE DEF all, best
  <2>7. QED
    BY <2>2, <2>3, <2>5, <2>6
<1>4. QED
  BY <1>2, <1>3 DEF Newest
-----------------------------------------------------------------------------
(* OpenFS puts an entry into the tree.                                     *)

(* An entry of a name that the tree has. *)
LEMMA NodesAgain ==
  ASSUME NEW e, NEW n, Entries(e, n), Entries(e, n + 1), NEW N, Nodes(e, n, N),
         NEW p, p = e[n + 1].path, p \in Known(e, n), DOMAIN N = Known(e, n),
         NEW M, M = IF N[p].blocks = 0 \/ e[N[p].blocks].ver < e[n + 1].ver
                    THEN [N EXCEPT ![p].blocks = n + 1] ELSE N
  PROVE  /\ Known(e, n + 1) = Known(e, n) /\ DOMAIN M = Known(e, n)
         /\ Nodes(e, n + 1, M)
<1>1. Known(e, n + 1) = Known(e, n)
  <2>1. Pre(p) \subseteq Known(e, n)
    BY KnownIs
  <2>2. QED
    BY <2>1, KnownNext
<1>2. DOMAIN N[p] = {"blocks", "files"}
  BY DEF Nodes
<1>3. /\ DOMAIN M = Known(e, n)
      /\ \A a \in Known(e, n) : a # p => M[a] = N[a]
  OBVIOUS
<1>4. /\ DOMAIN M[p] = {"blocks", "files"} /\ M[p].files = N[p].files
      /\ M[p].blocks = IF N[p].blocks = 0 \/ e[N[p].blocks].ver < e[n + 1].ver
                       THEN n + 1 ELSE N[p].blocks
  BY <1>2
<1>5. ASSUME NEW a \in Known(e, n)
      PROVE  /\ DOMAIN M[a] = {"blocks", "files"} /\ M[a].files = N[a].files
             /\ Newest(e, n + 1, a, M[a].blocks)
  <2>1. Newest(e, n, a, N[a].blocks) /\ DOMAIN N[a] = {"blocks", "files"}
    BY DEF Nodes
  <2>2. Newest(e, n + 1, a, IF e[n + 1].path = a /\ (N[a].blocks = 0 \/ e[N[a].blocks].ver < e[n + 1].ver)
                            THEN n + 1 ELSE N[a].blocks)
    BY <2>1, NewestNext
  <2>3. CASE a = p
    BY <1>4, <2>2, <2>3
  <2>4. CASE a # p
    BY <1>3, <2>1, <2>2, <2>4
  <2>5. QED
    BY <2>3, <2>4
<1>6. \A a \in Known(e, n) : Once(N[a].files, Inside(Known(e, n), a))
  BY DEF Nodes
<1>7. QED
  BY <1>1, <1>3, <1>5, <1>6 DEF Nodes

(* The new nodes, and the parents that get a file. *)
Grows(p, D, N, M, i) ==
  /\ DOMAIN M = D \cup Pre(p)
  /\ M[p] = [blocks |-> i, files |-> <<>>]
  /\ \A a \in Above(p, D) :
       M[a] = [blocks |-> IF a \in D THEN N[a].blocks ELSE 0,
               files |-> Append(IF a \in D THEN N[a].files ELSE <<>>, Toward(p, a))]
  /\ \A a \in D : a \notin Above(p, D) => M[a] = N[a]

LEMMA NodesNew ==
  ASSUME NEW e, NEW n, Entries(e, n), Entries(e, n + 1), NEW N, Nodes(e, n, N),
         NEW p, p = e[n + 1].path, p \notin Known(e, n),
         NEW M, Grows(p, Known(e, n), N, M, n + 1)
  PROVE  Known(e, n + 1) = Known(e, n) \cup Pre(p) /\ Nodes(e, n + 1, M)
<1>1. Known(e, n + 1) = Known(e, n) \cup Pre(p)
  BY KnownNext
<1>2. n \in Nat /\ p \in Seq(Element)
  <2>1. n \in Nat /\ n + 1 \in 1 .. n + 1
    BY PathIs
  <2>2. QED
    BY <2>1, PathIs
<1>3. PICK D : D = Known(e, n)
  OBVIOUS
<1>0. p \notin D
  BY <1>3
<1>4. Closed(D)
  BY <1>3, KnownIs DEF Closed
<1>5. \A j \in 1 .. n : e[j].path \in D
  BY <1>3, KnownIs
<1>6. ASSUME NEW a \in D \cup Pre(p)
      PROVE  /\ DOMAIN M[a] = {"blocks", "files"} /\ Newest(e, n + 1, a, M[a].blocks)
             /\ Once(M[a].files, Inside(D \cup Pre(p), a))
  <2>1. a \notin D => Newest(e, n, a, 0) /\ Inside(D, a) = {}
    <3>1. a \notin D => Newest(e, n, a, 0)
      BY <1>5 DEF Newest
    <3>2. a \notin D => Inside(D, a) = {}
      BY <1>0, <1>2, <1>4, InsideNext
    <3>3. QED
      BY <3>1, <3>2
  <2>2. a \in D => /\ DOMAIN N[a] = {"blocks", "files"} /\ Newest(e, n, a, N[a].blocks)
                   /\ Once(N[a].files, Inside(D, a))
    BY <1>3 DEF Nodes
  <2>3. CASE a = p
    <3>1. M[a] = [blocks |-> n + 1, files |-> <<>>]
      BY <2>3 DEF Grows
    <3>2. Newest(e, n + 1, a, n + 1)
      <4>1. Newest(e, n, a, 0)
        BY <1>3, <2>1, <2>3
      <4>2. Newest(e, n + 1, a, IF e[n + 1].path = a /\ (0 = 0 \/ e[0].ver < e[n + 1].ver)
                                THEN n + 1 ELSE 0)
        BY <4>1, NewestNext
      <4>3. QED
        BY <4>2, <2>3
    <3>3. Inside(D \cup Pre(p), a) = {}
      BY <1>0, <1>2, <1>4, <2>3, InsideNext
    <3>4. Once(M[a].files, {})
      BY <3>1, OnceNone
    <3>5. DOMAIN M[a] = {"blocks", "files"} /\ M[a].blocks = n + 1
      BY ONLY <3>1
    <3>6. QED
      BY ONLY <3>2, <3>3, <3>4, <3>5
  <2>4. ASSUME a # p, NEW i, Newest(e, n, a, i) PROVE Newest(e, n + 1, a, i)
    <3>1. Newest(e, n + 1, a, IF e[n + 1].path = a /\ (i = 0 \/ e[i].ver < e[n + 1].ver)
                              THEN n + 1 ELSE i)
      BY <2>4, NewestNext
    <3>2. QED
      BY <2>4, <3>1
  <2>5. CASE a \in Above(p, D)
    <3>1. a # p
      BY <1>2, <1>3, <1>4, <2>5, ChildIs
    <3>2. M[a] = [blocks |-> IF a \in D THEN N[a].blocks ELSE 0,
                  files |-> Append(IF a \in D THEN N[a].files ELSE <<>>, Toward(p, a))]
      BY <1>3, <2>5 DEF Grows
    <3>3. PICK f : f = IF a \in D THEN N[a].files ELSE <<>>
      OBVIOUS
    <3>4. Once(f, Inside(D, a))
      BY <2>1, <2>2, <3>3, OnceNone
    <3>5. /\ Inside(D \cup Pre(p), a) = Inside(D, a) \cup {Toward(p, a)}
          /\ Toward(p, a) \notin Inside(D, a)
      BY <1>2, <1>3, <1>4, <2>5, InsideNext
    <3>6. Once(Append(f, Toward(p, a)), Inside(D \cup Pre(p), a))
      <4>1. Once(Append(f, Toward(p, a)), Inside(D, a) \cup {Toward(p, a)})
        BY ONLY <3>4, <3>5, OnceMore
      <4>2. QED
        BY ONLY <4>1, <3>5
    <3>7. Newest(e, n + 1, a, M[a].blocks)
      BY <2>1, <2>2, <2>4, <3>1, <3>2
    <3>8. QED
      BY <3>2, <3>3, <3>6, <3>7
  <2>6. CASE a # p /\ a \notin Above(p, D)
    <3>1. Inside(D \cup Pre(p), a) = Inside(D, a) /\ a \in D
      <4>1. a # p /\ a \notin Above(p, D) => Inside(D \cup Pre(p), a) = Inside(D, a) /\ a \in D
        BY ONLY <1>0, <1>2, <1>4, a \in D \cup Pre(p), InsideNext
      <4>2. QED
        BY ONLY <4>1, <2>6
    <3>2. M[a] = N[a]
      BY <1>3, <2>6, <3>1 DEF Grows
    <3>3. QED
      BY <2>2, <2>4, <2>6, <3>1, <3>2
  <2>7. QED
    BY <2>3, <2>5, <2>6
<1>7. QED
  BY <1>1, <1>3, <1>6 DEF Nodes

LEMMA AddedIs ==
  ASSUME Closed(DOMAIN ftree), DOMAIN node = DOMAIN ftree,
         NEW p \in Seq(Element), p \notin DOMAIN ftree, NEW i
  PROVE  Grows(p, DOMAIN ftree, node, Added(p, i), i)
<1>1. PICK D : D = DOMAIN ftree
  OBVIOUS
<1>2. Linked(p) = Above(p, D)
  BY <1>1 DEF Linked, Above
<1>3. D \cup ((Above(p, D) \ D) \cup {p}) = D \cup Pre(p)
  <2>1. Above(p, D) \subseteq Pre(p) /\ p \in Pre(p)
    BY <1>1, ChildIs, PreSelf
  <2>2. \A c \in Pre(p) : c \in D \/ c = p \/ c \in Above(p, D)
    BY <1>1, AboveIs
  <2>3. QED
    BY <2>1, <2>2
<1>4. \A a \in Above(p, D) : a # p /\ a \in D \cup Pre(p)
  BY <1>1, ChildIs
<1>5. p \in D \cup Pre(p)
  BY PreSelf
<1> DEFINE M == [a \in D \cup Pre(p) |->
        CASE a = p -> [blocks |-> i, files |-> <<>>]
          [] a # p /\ a \in Above(p, D) ->
               [blocks |-> IF a \in D THEN node[a].blocks ELSE 0,
                files |-> Append(IF a \in D THEN node[a].files ELSE <<>>, Toward(p, a))]
          [] OTHER -> node[a]]
<1>6. Added(p, i) = M
  BY <1>1, <1>2, <1>3 DEF Added, Toward, Part
<1>7. /\ DOMAIN M = D \cup Pre(p)
      /\ M[p] = [blocks |-> i, files |-> <<>>]
  BY <1>5
<1>8. \A a \in Above(p, D) :
        M[a] = [blocks |-> IF a \in D THEN node[a].blocks ELSE 0,
                files |-> Append(IF a \in D THEN node[a].files ELSE <<>>, Toward(p, a))]
  BY <1>4
<1>9. \A a \in D : a \notin Above(p, D) => M[a] = node[a]
  BY <1>1
<1> HIDE DEF M
<1>10. QED
  BY <1>1, <1>6, <1>7, <1>8, <1>9 DEF Grows
-----------------------------------------------------------------------------
(* The steps.                                                              *)

LEMMA EntriesIs ==
  ASSUME FSType
  PROVE  /\ Entries(arc, upto) /\ Entries(arc, Len(arc)) /\ Len(arc) \in Nat /\ upto \in Nat
         /\ upto < Len(arc) => Entries(arc, upto + 1) /\ upto + 1 \in 0 .. Len(arc)
BY LenProperties DEF FSType, Entries

LEMMA InitHolds == FSInit => FSInv
<1> SUFFICES ASSUME FSInit PROVE FSInv
  OBVIOUS
<1>1. FSType
  <2>1. arc \in Seq(Header) /\ openCheck \in BOOLEAN /\ upto = 0 /\ pc = "list"
    BY EntryAssumption DEF FSInit
  <2>2. Len(arc) \in Nat
    BY <2>1, LenProperties
  <2>3. QED
    BY <2>1, <2>2 DEF FSType
<1>2. ListInv
  BY DEF FSInit, ListInv
<1>3. BuildInv
  BY DEF FSInit, BuildInv
<1>4. TreeInv /\ SoundArchiveOpens /\ ResolvesToLatest
  BY DEF FSInit, TreeInv, SoundArchiveOpens, ResolvesToLatest, NoCall
<1>5. QED
  BY <1>1, <1>2, <1>3, <1>4 DEF FSInv

(* No entry is known before the first. *)
LEMMA KnownNone == ASSUME NEW e PROVE Known(e, 0) = {}
BY DEF Known

LEMMA ListStep == FSInv /\ ListFile => FSInv'
<1> SUFFICES ASSUME FSInv, ListFile PROVE FSInv'
  OBVIOUS
<1>1. /\ FSType /\ ListInv /\ BuildInv /\ SoundArchiveOpens /\ pc = "list"
      /\ UNCHANGED <<openCheck, arc, node, ftree, root, call, res>>
  BY DEF FSInv, ListFile
<1>2. /\ decoded = {j \in 1 .. upto : Decodes(j)} /\ node = <<>> /\ ftree = <<>>
      /\ root = <<>> /\ call = NoCall /\ upto \in Nat /\ Len(arc) \in Nat
  BY <1>1, EntriesIs DEF ListInv, BuildInv
<1>3. ResolvesToLatest'
  BY <1>1, <1>2 DEF ResolvesToLatest, NoCall
<1>4. CASE upto = Len(arc) /\ pc' = "build" /\ upto' = 0 /\ UNCHANGED decoded
  <2>1. FSType' /\ ListInv' /\ TreeInv' /\ SoundArchiveOpens'
    BY <1>1, <1>2, <1>4 DEF FSType, ListInv, TreeInv, SoundArchiveOpens
  <2>2. Known(arc', upto') = {}
    BY <1>4, KnownNone
  <2>3. BuildInv'
    BY <1>1, <1>2, <1>4, <2>2 DEF BuildInv, Nodes
  <2>4. QED
    BY <1>3, <2>1, <2>3 DEF FSInv
<1>5. CASE /\ upto < Len(arc) /\ Checks(upto + 1) /\ ~Verifies(upto + 1)
           /\ pc' = "failed" /\ UNCHANGED <<upto, decoded>>
  <2>1. FSType' /\ ListInv' /\ TreeInv' /\ BuildInv'
    BY <1>1, <1>2, <1>5 DEF FSType, ListInv, TreeInv, BuildInv
  <2>2. SoundArchiveOpens'
    <3> DEFINE Fine == \A i \in 1 .. Len(arc) :
                         /\ arc[i].good /\ arc[i].valid
                         /\ arc[i].comp /\ arc[i].sum => \A j \in Below(i) : arc[j].sum
    <3>1. SUFFICES ASSUME Fine PROVE FALSE
      <4>1. arc' = arc /\ \A i : Below(i)' = Below(i)
        BY <1>1 DEF Below
      <4>2. QED
        BY Zenon, <4>1 DEF SoundArchiveOpens, Undamaged
    <3>2. PICK i : i = upto + 1
      OBVIOUS
    <3>3. i \in 1 .. Len(arc) /\ Checks(i) /\ ~Verifies(i)
      BY <1>2, <1>5, <3>2
    <3>4. \A j \in Below(i) : j \in 1 .. upto /\ j \in 1 .. Len(arc) /\ arc[j].comp
      BY <1>2, <1>5, <3>2 DEF Below
    <3>5. arc[i].comp => \A j \in Below(i) : Decodes(j)
      BY ONLY Zenon, <3>1, <3>3, <3>4 DEF Decodes, Checks, Fine
    <3>6. arc[i].comp => Below(i) \subseteq decoded
      BY <1>2, <3>4, <3>5
    <3>7. QED
      BY ONLY Zenon, <3>1, <3>3, <3>6 DEF Verifies, Fine
  <2>3. QED
    BY <1>3, <2>1, <2>2 DEF FSInv
<1>6. CASE /\ upto < Len(arc) /\ (Checks(upto + 1) => Verifies(upto + 1))
           /\ upto' = upto + 1 /\ UNCHANGED pc
           /\ decoded' = IF Decodes(upto + 1) THEN decoded \cup {upto + 1} ELSE decoded
  <2>1. FSType'
    BY <1>1, <1>2, <1>6 DEF FSType
  <2>2. ListInv'
    <3>1. 1 .. upto + 1 = (1 .. upto) \cup {upto + 1}
      BY <1>2
    <3>2. \A j : Decodes(j)' <=> Decodes(j)
      BY <1>1 DEF Decodes, Checks
    <3>3. decoded' = {j \in 1 .. upto + 1 : Decodes(j)}
      BY <1>2, <1>6, <3>1
    <3>4. {j \in 1 .. upto' : Decodes(j)'} = {j \in 1 .. upto + 1 : Decodes(j)}
      BY <1>6, <3>2
    <3>5. QED
      BY <1>1, <1>2, <3>3, <3>4 DEF ListInv
  <2>3. BuildInv' /\ TreeInv' /\ SoundArchiveOpens'
    BY <1>1, <1>2, <1>6 DEF BuildInv, TreeInv, SoundArchiveOpens
  <2>4. QED
    BY <1>3, <2>1, <2>2, <2>3 DEF FSInv
<1>7. QED
  BY <1>4, <1>5, <1>6 DEF ListFile

(* AddFile's four ways. *)
LEMMA AddStep == FSInv /\ AddFile => FSInv'
<1> SUFFICES ASSUME FSInv, AddFile PROVE FSInv'
  OBVIOUS
<1>1. /\ FSType /\ BuildInv /\ SoundArchiveOpens /\ pc = "build"
      /\ UNCHANGED <<openCheck, arc, decoded, root, call, res>>
  BY DEF FSInv, AddFile
<1>2. /\ root = <<>> /\ call = NoCall /\ upto \in Nat /\ Len(arc) \in Nat /\ upto \in 0 .. Len(arc)
      /\ Entries(arc, upto)
  BY <1>1, EntriesIs DEF BuildInv, FSType
<1>3. /\ DOMAIN ftree = Known(arc, upto) /\ DOMAIN node = Known(arc, upto)
      /\ \A a \in Known(arc, upto) : ftree[a] = a
      /\ Nodes(arc, upto, node)
  BY <1>1 DEF BuildInv
<1>4. ResolvesToLatest'
  BY <1>1, <1>2 DEF ResolvesToLatest, NoCall
<1>5. CASE upto = Len(arc) /\ pc' = "ready" /\ UNCHANGED <<upto, node, ftree>>
  <2>1. FSType' /\ ListInv' /\ BuildInv' /\ SoundArchiveOpens'
    BY <1>1, <1>2, <1>5 DEF FSType, ListInv, BuildInv, SoundArchiveOpens
  <2>2. PICK D : D = Known(arc, Len(arc))
    OBVIOUS
  <2>3. \A c \in D : c \in Seq(Element) /\ Cat(<<>>, c) = c
    BY <1>2, <1>5, <2>2, KnownIs, CatEmpty
  <2>4. \A c \in Seq(Element) : Cat(<<>>, c) = c
    BY CatEmpty
  <2>5. Within(arc, <<>>) = D
    BY <2>2, <2>3, <2>4 DEF Within
  <2>6. /\ D \subseteq DOMAIN node /\ Nodes(arc, Len(arc), node) /\ DOMAIN ftree = D
        /\ \A a \in D : ftree[a] = a
    BY <1>3, <1>5, <2>2
  <2>7. \A q \in D : ftree[q] = Cat(<<>>, q)
    BY <2>3, <2>6
  <2>8. <<>> \in Seq(Element)
    BY EmptySeq
  <2>9. TreeInv
    BY <1>2, <2>2, <2>5, <2>6, <2>7, <2>8 DEF TreeInv
  <2>10. /\ arc' = arc /\ node' = node /\ ftree' = ftree /\ root' = root
    BY <1>1, <1>5
  <2>11. TreeInv'
    BY <1>2, <2>2, <2>5, <2>6, <2>7, <2>8, <2>10 DEF TreeInv
  <2>12. QED
    BY <1>4, <2>1, <2>11 DEF FSInv
<1>6. CASE /\ upto < Len(arc) /\ ~arc[upto + 1].valid
           /\ pc' = "failed" /\ UNCHANGED <<upto, node, ftree>>
  <2>1. FSType' /\ ListInv' /\ TreeInv' /\ BuildInv'
    BY <1>1, <1>2, <1>6 DEF FSType, ListInv, TreeInv, BuildInv
  <2>2. SoundArchiveOpens'
    <3>1. PICK i : i = upto + 1
      OBVIOUS
    <3>2. i \in 1 .. Len(arc)
      BY <1>2, <1>6, <3>1
    <3>3. ~arc[i].valid /\ arc' = arc
      BY <1>1, <1>6, <3>1
    <3>4. QED
      BY ONLY Zenon, <3>2, <3>3 DEF SoundArchiveOpens, Undamaged
  <2>3. QED
    BY <1>4, <2>1, <2>2 DEF FSInv
<1>7. ASSUME upto < Len(arc), upto' = upto + 1, pc' = pc, DOMAIN ftree' = Known(arc, upto + 1),
             DOMAIN node' = Known(arc, upto + 1), \A a \in Known(arc, upto + 1) : ftree'[a] = a,
             Nodes(arc, upto + 1, node')
      PROVE  FSInv'
  <2>1. FSType' /\ ListInv' /\ TreeInv' /\ SoundArchiveOpens'
    BY <1>1, <1>2, <1>7 DEF FSType, ListInv, TreeInv, SoundArchiveOpens
  <2>2. arc' = arc /\ upto' = upto + 1 /\ root' = root /\ call' = call
    BY <1>1, <1>7
  <2>3. Nodes(arc', upto', node')
    BY ONLY <1>7, <2>2
  <2>4. BuildInv'
    BY <1>1, <1>2, <1>7, <2>2, <2>3 DEF BuildInv
  <2>5. QED
    BY <1>4, <2>1, <2>4 DEF FSInv
<1>8. ASSUME upto < Len(arc), upto' = upto + 1, pc' = pc
      PROVE  /\ Entries(arc, upto + 1)
             /\ arc[upto + 1].path \in Seq(Element)
  <2>1. Entries(arc, upto + 1) /\ upto + 1 \in 1 .. upto + 1
    BY <1>1, <1>2, <1>8, EntriesIs
  <2>2. QED
    BY <2>1, PathIs
<1>9. ASSUME upto < Len(arc), arc[upto + 1].path \in DOMAIN ftree,
             node' = IF Supersedes(node[arc[upto + 1].path].blocks, upto + 1)
                     THEN [node EXCEPT ![arc[upto + 1].path].blocks = upto + 1] ELSE node,
             upto' = upto + 1, UNCHANGED <<pc, ftree>>
      PROVE  FSInv'
  <2>1. PICK p : p = arc[upto + 1].path
    OBVIOUS
  <2>2. Entries(arc, upto + 1)
    BY <1>8, <1>9
  <2>3. node' = IF node[p].blocks = 0 \/ arc[node[p].blocks].ver < arc[upto + 1].ver
                THEN [node EXCEPT ![p].blocks = upto + 1] ELSE node
    BY <1>9, <2>1 DEF Supersedes
  <2>4. p \in Known(arc, upto)
    BY <1>3, <1>9, <2>1
  <2>5. PICK M : M = node'
    OBVIOUS
  <2>6. /\ Known(arc, upto + 1) = Known(arc, upto) /\ DOMAIN M = Known(arc, upto)
        /\ Nodes(arc, upto + 1, M)
    <3>1. Entries(arc, upto) /\ Entries(arc, upto + 1) /\ Nodes(arc, upto, node)
          /\ DOMAIN node = Known(arc, upto)
      BY <1>2, <1>3, <1>9, <2>2
    <3>2. M = IF node[p].blocks = 0 \/ arc[node[p].blocks].ver < arc[upto + 1].ver
              THEN [node EXCEPT ![p].blocks = upto + 1] ELSE node
      BY ONLY <2>3, <2>5
    <3>3. QED
      BY ONLY Zenon, <2>1, <2>4, <3>1, <3>2, NodesAgain
  <2>7. QED
    BY <1>3, <1>7, <1>9, <2>5, <2>6
<1>10. ASSUME upto < Len(arc), arc[upto + 1].path \notin DOMAIN ftree,
              node' = Added(arc[upto + 1].path, upto + 1), ftree' = [a \in DOMAIN node' |-> a],
              upto' = upto + 1, UNCHANGED pc
       PROVE  FSInv'
  <2>1. PICK p : p = arc[upto + 1].path
    OBVIOUS
  <2>2. Entries(arc, upto + 1) /\ p \in Seq(Element)
    BY <1>8, <1>10, <2>1
  <2>3. Closed(DOMAIN ftree)
    BY <1>2, <1>3, KnownIs DEF Closed
  <2>4. PICK M : M = node'
    OBVIOUS
  <2>5. M = Added(p, upto + 1) /\ p \notin DOMAIN ftree
    BY <1>10, <2>1, <2>4
  <2>6. Grows(p, DOMAIN ftree, node, M, upto + 1)
    <3>1. Grows(p, DOMAIN ftree, node, Added(p, upto + 1), upto + 1)
      BY <1>3, <2>2, <2>3, <2>5, AddedIs
    <3>2. QED
      BY ONLY Zenon, <2>5, <3>1
  <2>7. Known(arc, upto + 1) = Known(arc, upto) \cup Pre(p) /\ Nodes(arc, upto + 1, M)
    <3>1. Grows(p, Known(arc, upto), node, M, upto + 1) /\ p \notin Known(arc, upto)
      BY ONLY Zenon, <1>3, <2>5, <2>6
    <3>2. Entries(arc, upto) /\ Nodes(arc, upto, node) /\ Entries(arc, upto + 1)
      BY ONLY <1>2, <1>3, <2>2
    <3>3. QED
      BY ONLY <2>1, <3>1, <3>2, NodesNew
  <2>8. DOMAIN M = Known(arc, upto + 1)
    BY <1>3, <2>6, <2>7 DEF Grows
  <2>9. QED
    BY <1>7, <1>10, <2>4, <2>7, <2>8
<1>11. QED
  BY <1>5, <1>6, <1>9, <1>10 DEF AddFile

(* A name of the current RarFS has the node of its name in the archive. *)
LEMMA NameIs ==
  ASSUME FSType, TreeInv, pc = "ready", NEW q \in DOMAIN ftree
  PROVE  /\ q \in Seq(Element) /\ root \in Seq(Element)
         /\ Cat(root, q) \in Known(arc, Len(arc)) /\ Cat(root, q) \in Seq(Element)
         /\ q # <<>> => /\ ftree[q] = Cat(root, q)
                        /\ node[ftree[q]].blocks = Latest(Cat(root, q))
<1>1. /\ q \in Seq(Element) /\ Cat(root, q) \in Known(arc, Len(arc)) /\ root \in Seq(Element)
      /\ q # <<>> => ftree[q] = Cat(root, q)
      /\ Nodes(arc, Len(arc), node)
  BY DEF TreeInv, Within
<1>2. Cat(root, q) \in Seq(Element)
  BY <1>1, CatLen
<1>3. PICK a : a = Cat(root, q)
  OBVIOUS
<1>4. Newest(arc, Len(arc), a, node[a].blocks)
  BY <1>1, <1>3 DEF Nodes
<1>5. node[a].blocks = Latest(a)
  BY <1>4, NewestIs
<1>6. QED
  BY <1>1, <1>2, <1>3, <1>5

LEMMA AnswerIs ==
  ASSUME NEW op, NEW name, Answer(op, name)
  PROVE  /\ call' = [op |-> op, name |-> name]
         /\ name \notin DOMAIN ftree => res'.err = "ErrNotExist"
         /\ name \in DOMAIN ftree => res'.entry = node[ftree[name]].blocks
<1>1. CASE name \notin DOMAIN ftree
  BY <1>1 DEF Answer, Returns
<1>2. CASE name \in DOMAIN ftree
  <2>1. PICK e \in Errors(op, ftree[name]) : Returns(op, name, e, node[ftree[name]].blocks)
    BY Zenon, <1>2 DEF Answer
  <2>2. QED
    BY <1>2, <2>1 DEF Returns
<1>3. QED
  BY <1>1, <1>2

LEMMA CallStep ==
  ASSUME FSInv, NEW op, NEW name, Call(op, name)
  PROVE  FSInv'
<1>1. /\ pc = "ready" /\ FSType /\ TreeInv /\ Answer(op, name)
      /\ UNCHANGED <<openCheck, arc, pc, upto, decoded, node, ftree, root>>
  BY DEF FSInv, Call
<1>2. FSType' /\ ListInv' /\ BuildInv' /\ TreeInv' /\ SoundArchiveOpens'
  BY <1>1 DEF FSInv, FSType, ListInv, BuildInv, TreeInv, SoundArchiveOpens
<1>3. /\ call' = [op |-> op, name |-> name]
      /\ name \notin DOMAIN ftree => res'.err = "ErrNotExist"
      /\ name \in DOMAIN ftree => res'.entry = node[ftree[name]].blocks
  BY <1>1, AnswerIs
<1>4. ASSUME name \in DOMAIN ftree, name # <<>>
      PROVE  res'.entry = Latest(root \o name)
  <2>1. node[ftree[name]].blocks = Latest(Cat(root, name))
    BY <1>1, <1>4, NameIs
  <2>2. QED
    BY <1>3, <1>4, <2>1 DEF Cat
<1>5. \A a : Latest(a)' = Latest(a)
  BY <1>1 DEF Latest
<1>6. ResolvesToLatest'
  <2>1. SUFFICES ASSUME res'.err # "ErrNotExist", call'.name # <<>>
                 PROVE  res'.entry = Latest(root \o call'.name)
    BY <1>1, <1>5 DEF ResolvesToLatest
  <2>2. call'.name = name /\ name \in DOMAIN ftree
    BY <1>3, <2>1
  <2>3. QED
    BY <1>4, <2>1, <2>2
<1>7. QED
  BY <1>2, <1>6 DEF FSInv

LEMMA CatCat ==
  ASSUME NEW S, NEW s \in Seq(S), NEW t \in Seq(S), NEW r \in Seq(S)
  PROVE  Cat(Cat(s, t), r) = Cat(s, Cat(t, r))
BY ConcatAssociative DEF Cat

(* The names of a Sub. *)
LEMMA SubNamesIs ==
  ASSUME FSType, TreeInv, pc = "ready", NEW dir \in DOMAIN ftree, dir # <<>>
  PROVE  /\ SubNames(dir) \cup {<<>>} = Within(arc, Cat(root, dir))
         /\ \A q \in Within(arc, Cat(root, dir)) : q # <<>> =>
              /\ Cat(dir, q) \in DOMAIN ftree /\ Cat(dir, q) # <<>>
              /\ Cat(root, Cat(dir, q)) = Cat(Cat(root, dir), q)
<1>1. /\ dir \in Seq(Element) /\ root \in Seq(Element) /\ Cat(root, dir) \in Seq(Element)
      /\ Cat(root, dir) \in Known(arc, Len(arc))
  BY NameIs
<1>2. /\ DOMAIN ftree = Within(arc, root)
      /\ \A s \in DOMAIN ftree : s \in Seq(Element) /\ Cat(root, s) \in Known(arc, Len(arc))
  BY DEF TreeInv, Within
<1>3. SubNames(dir) =
        {Part(s, Len(dir) + 1, Len(s)) : s \in {x \in DOMAIN ftree : IsStrictPrefix(dir, x)}}
  BY DEF SubNames, Part
<1>4. ASSUME NEW q \in SubNames(dir) PROVE q \in Within(arc, Cat(root, dir))
  <2>1. PICK s \in DOMAIN ftree : IsStrictPrefix(dir, s) /\ q = Part(s, Len(dir) + 1, Len(s))
    BY <1>3
  <2>2. s \in Seq(Element) /\ IsPrefix(dir, s)
    BY <1>2, <2>1 DEF IsStrictPrefix
  <2>3. q \in Seq(Element) /\ Cat(dir, q) = s
    BY <1>1, <2>1, <2>2, CatPrefix
  <2>4. Cat(Cat(root, dir), q) = Cat(root, s)
    BY <1>1, <2>3, CatCat
  <2>5. Cat(root, s) \in Known(arc, Len(arc))
    BY <1>2
  <2>6. QED
    BY <2>3, <2>4, <2>5 DEF Within
<1>5. <<>> \in Within(arc, Cat(root, dir))
  <2>1. <<>> \in Seq(Element) /\ Cat(Cat(root, dir), <<>>) = Cat(root, dir)
    BY <1>1, EmptySeq, CatEmpty
  <2>2. QED
    BY <1>1, <2>1 DEF Within
<1>6. ASSUME NEW q \in Within(arc, Cat(root, dir)), q # <<>>
      PROVE  /\ Cat(dir, q) \in DOMAIN ftree /\ Cat(dir, q) # <<>>
             /\ Cat(root, Cat(dir, q)) = Cat(Cat(root, dir), q)
             /\ q \in SubNames(dir)
  <2>1. q \in Seq(Element) /\ Cat(Cat(root, dir), q) \in Known(arc, Len(arc))
    BY DEF Within
  <2>2. PICK s : s = Cat(dir, q)
    OBVIOUS
  <2>3. Cat(root, s) = Cat(Cat(root, dir), q)
    BY <1>1, <2>1, <2>2, CatCat
  <2>4. /\ s \in Seq(Element) /\ Len(s) = Len(dir) + Len(q) /\ Len(dir) \in Nat
        /\ Len(q) \in Nat
    BY <1>1, <2>1, <2>2, CatLen
  <2>5. s \in DOMAIN ftree
    BY <1>2, <2>1, <2>3, <2>4 DEF Within
  <2>6. Len(q) # 0
    BY <1>6, <2>1, EmptySeq
  <2>7. s # <<>> /\ s # dir
    BY <2>4, <2>6, EmptySeq
  <2>8. Part(s, 1, Len(dir)) = dir /\ Part(s, Len(dir) + 1, Len(s)) = q
    BY <1>1, <2>1, <2>2, <2>4, CatParts
  <2>9. IsStrictPrefix(dir, s)
    <3>1. Len(dir) <= Len(s)
      BY <2>4
    <3>2. IsPrefix(dir, s)
      BY <1>1, <2>4, <2>8, <3>1, PrefixIs
    <3>3. QED
      BY <2>7, <3>2 DEF IsStrictPrefix
  <2>10. q \in SubNames(dir)
    BY <1>3, <2>5, <2>8, <2>9
  <2>11. QED
    BY <2>2, <2>3, <2>5, <2>7, <2>10
<1>7. QED
  BY <1>4, <1>5, <1>6

(* The node of a Sub is none of the tree's. *)
LEMMA TopIsNew ==
  ASSUME NEW r \in Seq(Element)
  PROVE  Append(r, ".") \notin Seq(Element)
<1>1. r \in Seq(STRING) /\ Len(r) \in Nat
  BY SeqMonotonic, LenProperties DEF Element
<1>2. Append(r, ".")[Len(r) + 1] = "." /\ Len(Append(r, ".")) = Len(r) + 1
  BY <1>1, AppendProperties
<1>3. SUFFICES ASSUME Append(r, ".") \in Seq(Element) PROVE FALSE
  OBVIOUS
<1>4. Len(r) + 1 \in 1 .. Len(Append(r, "."))
  BY <1>1, <1>2
<1>5. Append(r, ".")[Len(r) + 1] \in Element
  BY <1>3, <1>4, ElementOfSeq
<1>6. QED
  BY <1>2, <1>5 DEF Element

LEMMA SubStep ==
  ASSUME FSInv, NEW dir, Sub(dir)
  PROVE  FSInv'
<1>1. /\ pc = "ready" /\ dir # <<>> /\ FSType /\ TreeInv
      /\ UNCHANGED <<openCheck, arc, pc, upto, decoded>>
  BY DEF FSInv, Sub
<1>2. FSType' /\ ListInv' /\ BuildInv' /\ SoundArchiveOpens'
  BY <1>1 DEF FSInv, FSType, ListInv, BuildInv, SoundArchiveOpens
<1>3. call'.op = "sub"
  BY DEF Sub, Returns
<1>4. ResolvesToLatest'
  BY <1>3 DEF ResolvesToLatest
<1>5. CASE UNCHANGED <<node, ftree, root>>
  <2>1. TreeInv'
    BY <1>1, <1>5 DEF TreeInv
  <2>2. QED
    BY <1>2, <1>4, <2>1 DEF FSInv
<1>6. CASE dir \in DOMAIN ftree /\ isDir(ftree[dir]) /\ ~UNCHANGED <<node, ftree, root>>
  <2>1. PICK r : r = Cat(root, dir)
    OBVIOUS
  <2>2. PICK top : top = Append(r, ".")
    OBVIOUS
  <2>3. /\ root' = r
        /\ node' = [a \in DOMAIN node \cup {top} |->
                     IF a = top THEN [blocks |-> 0, files |-> node[ftree[dir]].files]
                     ELSE node[a]]
        /\ ftree' = [q \in SubNames(dir) \cup {<<>>} |->
                      IF q = <<>> THEN top ELSE ftree[Cat(dir, q)]]
    <3>1. root' = r
      BY <1>6, <2>1 DEF Sub, Cat
    <3>2. QED
      BY <1>6, <2>2, <3>1 DEF Sub, Cat
  <2>4. PICK K : K = Known(arc, Len(arc))
    OBVIOUS
  <2>5. /\ K \subseteq DOMAIN node /\ Nodes(arc, Len(arc), node)
        /\ DOMAIN ftree = Within(arc, root)
        /\ \A q \in Within(arc, root) :
             /\ q # <<>> => ftree[q] = Cat(root, q)
             /\ node[ftree[q]].files = node[Cat(root, q)].files
    BY <1>1, <2>4 DEF TreeInv
  <2>6. r \in K /\ r \in Seq(Element) /\ dir \in Seq(Element) /\ root \in Seq(Element)
    BY <1>1, <1>6, <2>1, <2>4, NameIs
  <2>7. r # <<>>
    BY <1>1, <2>1, <2>6, CatFront
  <2>8. \A a \in K : a # top /\ node'[a] = node[a] /\ a \in DOMAIN node'
    <3>1. top \notin Seq(Element)
      BY <2>2, <2>6, TopIsNew
    <3>2. \A a \in K : a \in Seq(Element)
      BY <1>1, <2>4, KnownIs, EntriesIs
    <3>3. \A a \in K : a # top /\ a \in DOMAIN node
      BY <2>5, <3>1, <3>2
    <3>4. QED
      BY <2>3, <3>3
  <2>9. node'[top].files = node'[r].files
    <3>1. node'[top].files = node[ftree[dir]].files
      BY <2>3
    <3>2. node[ftree[dir]].files = node[r].files
      BY <1>6, <2>1, <2>5
    <3>3. QED
      BY <2>6, <2>8, <3>1, <3>2
  <2>10. DOMAIN ftree' = Within(arc, r)
    BY <1>1, <1>6, <2>1, <2>3, SubNamesIs
  <2>11. ASSUME NEW q \in Within(arc, r)
         PROVE  /\ q # <<>> => ftree'[q] = Cat(r, q)
                /\ node'[ftree'[q]].files = node'[Cat(r, q)].files
    <3>1. q \in DOMAIN ftree'
      BY <2>10
    <3>2. CASE q = <<>>
      <4>1. ftree'[q] = top /\ Cat(r, q) = r
        BY <2>3, <2>6, <3>2, CatEmpty
      <4>2. QED
        BY <2>9, <3>2, <4>1
    <3>3. CASE q # <<>>
      <4>1. /\ Cat(dir, q) \in DOMAIN ftree /\ Cat(dir, q) # <<>>
            /\ Cat(root, Cat(dir, q)) = Cat(r, q)
        BY <1>1, <1>6, <2>1, <3>3, SubNamesIs
      <4>2. ftree'[q] = ftree[Cat(dir, q)]
        BY <2>3, <3>1, <3>3
      <4>3. ftree'[q] = Cat(r, q)
        BY <2>5, <4>1, <4>2
      <4>4. QED
        BY <4>3
    <3>4. QED
      BY <3>2, <3>3
  <2>12. Nodes(arc, Len(arc), node')
    BY <2>4, <2>5, <2>8 DEF Nodes
  <2>13. TreeInv'
    <3>1. arc' = arc /\ root' = r /\ pc' = pc
      BY <1>1, <2>3
    <3>2. K \subseteq DOMAIN node'
      BY <2>8
    <3>3. QED
      BY <2>4, <2>6, <2>10, <2>11, <2>12, <3>1, <3>2 DEF TreeInv
  <2>14. QED
    BY <1>2, <1>4, <2>13 DEF FSInv
<1>7. QED
  BY <1>5, <1>6 DEF Sub
-----------------------------------------------------------------------------
(* The tree of the current RarFS.                                          *)

(* Its names are those of the entries it sees. *)
LEMMA NamesAre ==
  ASSUME FSType, TreeInv, pc = "ready"
  PROVE  DOMAIN ftree =
           UNION {{SubSeq(q, Len(root) + 1, Len(q)) :
                     q \in {a \in Ancestors(arc[i].path) \cup {arc[i].path} : IsPrefix(root, a)}} :
                   i \in {j \in 1 .. Len(arc) : Sees(j)}}
<1>1. /\ Entries(arc, Len(arc)) /\ root \in Seq(Element) /\ DOMAIN ftree = Within(arc, root)
  BY EntriesIs DEF TreeInv
<1>2. \A i \in 1 .. Len(arc) : /\ arc[i].path \in Seq(Element)
                               /\ Ancestors(arc[i].path) \cup {arc[i].path} = Pre(arc[i].path)
  BY <1>1, PathIs, AncestorsIs
<1> DEFINE Under(i) == {Part(q, Len(root) + 1, Len(q)) :
                           q \in {a \in Pre(arc[i].path) : IsPrefix(root, a)}}
           All == UNION {Under(i) : i \in {j \in 1 .. Len(arc) : Sees(j)}}
<1>3. All = UNION {{SubSeq(q, Len(root) + 1, Len(q)) :
                     q \in {a \in Ancestors(arc[i].path) \cup {arc[i].path} : IsPrefix(root, a)}} :
                   i \in {j \in 1 .. Len(arc) : Sees(j)}}
  BY <1>2 DEF Part
<1>4. ASSUME NEW q \in Within(arc, root) PROVE q \in All
  <2>1. q \in Seq(Element) /\ Cat(root, q) \in Known(arc, Len(arc))
    BY DEF Within
  <2>2. PICK a \in {Cat(root, q)}, i \in 1 .. Len(arc) : a \in Pre(arc[i].path)
    BY <2>1 DEF Known
  <2>3. /\ a \in Seq(Element) /\ Len(a) = Len(root) + Len(q) /\ Len(root) \in Nat
        /\ Len(q) \in Nat
    BY <1>1, <2>1, <2>2, CatLen
  <2>4. Part(a, 1, Len(root)) = root /\ Part(a, Len(root) + 1, Len(a)) = q
    BY <1>1, <2>1, <2>2, <2>3, CatParts
  <2>5. IsPrefix(root, a)
    <3>1. Len(root) <= Len(a)
      BY <2>3
    <3>2. QED
      BY <1>1, <2>3, <2>4, <3>1, PrefixIs
  <2>6. root \in Pre(a) /\ Pre(a) \subseteq Pre(arc[i].path)
    BY <1>1, <1>2, <2>2, <2>3, <2>5, PrefixPre, PreIs
  <2>7. IsPrefix(root, arc[i].path)
    BY <1>2, <2>6, PreIs
  <2>8. q \in Under(i) /\ Sees(i)
    BY <2>2, <2>4, <2>5, <2>7 DEF Sees
  <2>9. QED
    BY <2>8
<1>5. ASSUME NEW q \in All PROVE q \in Within(arc, root)
  <2>1. PICK i \in 1 .. Len(arc) : q \in Under(i)
    OBVIOUS
  <2>2. PICK a \in Pre(arc[i].path) : IsPrefix(root, a) /\ q = Part(a, Len(root) + 1, Len(a))
    BY <2>1
  <2>3. a \in Seq(Element)
    BY <1>2, PreIs
  <2>4. q \in Seq(Element) /\ Cat(root, q) = a
    BY <1>1, <2>2, <2>3, CatPrefix
  <2>5. a \in Known(arc, Len(arc))
    BY DEF Known
  <2>6. QED
    BY <2>4, <2>5 DEF Within
<1> HIDE DEF All
<1>6. QED
  BY <1>1, <1>3, <1>4, <1>5

(* Its lists hold the nodes of the names below. *)
LEMMA ListsAre ==
  ASSUME FSType, TreeInv, pc = "ready", NEW q \in DOMAIN ftree
  PROVE  LET list == node[ftree[q]].files
         IN /\ Cardinality(ToSet(list)) = Len(list)
            /\ ToSet(list) = {ftree[c] : c \in {d \in DOMAIN ftree : d # <<>> /\ Front(d) = q}}
<1>1. PICK a, f, K : a = Cat(root, q) /\ f = node[ftree[q]].files /\ K = Known(arc, Len(arc))
  OBVIOUS
<1>2. /\ Entries(arc, Len(arc)) /\ DOMAIN ftree = Within(arc, root)
      /\ f = node[a].files /\ Nodes(arc, Len(arc), node)
  BY <1>1, EntriesIs DEF TreeInv
<1>3. /\ q \in Seq(Element) /\ root \in Seq(Element) /\ a \in K
  BY <1>1, NameIs
<1>4. Once(f, Inside(K, a))
  BY <1>1, <1>2, <1>3 DEF Nodes
<1>5. Cardinality(ToSet(f)) = Len(f) /\ ToSet(f) = Inside(K, a)
  BY <1>4, OnceIs
<1> DEFINE C == {d \in DOMAIN ftree : d # <<>> /\ Front(d) = q}
<1>6. ASSUME NEW d \in C PROVE ftree[d] \in Inside(K, a)
  <2>1. d \in Seq(Element) /\ ftree[d] = Cat(root, d) /\ Cat(root, d) \in K
    BY <1>1, NameIs
  <2>2. Cat(root, d) # <<>> /\ Front(Cat(root, d)) = Cat(root, q)
    BY <1>3, <2>1, CatFront
  <2>3. QED
    BY <1>1, <2>1, <2>2 DEF Inside
<1>7. ASSUME NEW c \in Inside(K, a) PROVE \E d \in C : c = ftree[d]
  <2>1. c \in K /\ c # <<>> /\ Front(c) = a /\ c \in Seq(Element)
    BY <1>1, <1>2, KnownIs DEF Inside
  <2>2. /\ Len(c) \in Nat /\ Len(c) >= 1 /\ a = Part(c, 1, Len(c) - 1) /\ a \in Seq(Element)
        /\ Len(a) = Len(c) - 1
    BY <2>1, FrontIs
  <2>3. /\ Len(a) = Len(root) + Len(q) /\ Len(root) \in Nat /\ Len(q) \in Nat
        /\ Part(a, 1, Len(root)) = root
    BY <1>1, <1>3, CatLen, CatParts
  <2>4. IsPrefix(root, c)
    <3>1. PICK i, j : i = Len(c) - 1 /\ j = Len(root)
      OBVIOUS
    <3>2. i \in 0 .. Len(c) /\ j \in 0 .. i /\ j <= Len(c)
      BY <2>2, <2>3, <3>1
    <3>3. Part(Part(c, 1, i), 1, j) = Part(c, 1, j)
      BY <2>1, <3>2, PartOfPart
    <3>4. root = Part(c, 1, j)
      BY <2>2, <2>3, <3>1, <3>3
    <3>5. QED
      BY <1>3, <2>1, <3>1, <3>2, <3>4, PrefixIs
  <2>5. PICK d : d = Part(c, Len(root) + 1, Len(c))
    OBVIOUS
  <2>6. d \in Seq(Element) /\ Cat(root, d) = c
    BY <1>3, <2>1, <2>4, <2>5, CatPrefix
  <2>7. d # <<>>
    <3>1. SUFFICES ASSUME d = <<>> PROVE FALSE
      OBVIOUS
    <3>2. c = root
      BY <1>3, <2>6, <3>1, CatEmpty
    <3>3. QED
      BY <2>2, <2>3, <3>2
  <2>8. Cat(root, Front(d)) = Cat(root, q) /\ Front(d) \in Seq(Element)
    BY <1>1, <1>3, <2>1, <2>6, <2>7, CatFront, FrontIs
  <2>9. Front(d) = q
    BY <1>3, <2>8, CatCancel
  <2>10. d \in DOMAIN ftree
    BY <1>1, <1>2, <2>1, <2>6 DEF Within
  <2>11. ftree[d] = c
    BY <2>6, <2>7, <2>10, NameIs
  <2>12. QED
    BY <2>7, <2>9, <2>10, <2>11
<1>8. ToSet(f) = {ftree[c] : c \in C}
  BY <1>5, <1>6, <1>7
<1>9. QED
  BY <1>1, <1>5, <1>8
-----------------------------------------------------------------------------
(* FSInv is inductive (ListFile and AddFile are the loops of fs.go, Call   *)
(* and Sub the methods of RarFS).                                          *)
THEOREM FSInvariance == FSSpec => []FSInv
<1>1. FSInit => FSInv
  BY InitHolds
<1>2. FSInv /\ [FSNext]_fsVars => FSInv'
  <2> SUFFICES ASSUME FSInv, [FSNext]_fsVars PROVE FSInv'
    OBVIOUS
  <2>1. CASE ListFile
    BY <2>1, ListStep
  <2>2. CASE AddFile
    BY <2>2, AddStep
  <2>3. ASSUME NEW op \in {"stat", "readdir", "open", "readfile"}, NEW name \in Names,
               Call(op, name)
        PROVE  FSInv'
    BY <2>3, CallStep
  <2>4. ASSUME NEW dir \in Names, Sub(dir) PROVE FSInv'
    BY <2>4, SubStep
  <2>5. CASE UNCHANGED fsVars
    <3>1. \A j : Decodes(j)' <=> Decodes(j)
      BY <2>5 DEF fsVars, Decodes, Checks
    <3>2. ListInv'
      <4>1. {j \in 1 .. upto' : Decodes(j)'} = {j \in 1 .. upto : Decodes(j)}
        BY <2>5, <3>1 DEF fsVars
      <4>2. QED
        BY <2>5, <4>1 DEF fsVars, FSInv, ListInv
    <3>3. FSType' /\ BuildInv' /\ TreeInv'
      BY <2>5 DEF fsVars, FSInv, FSType, BuildInv, TreeInv
    <3>4. ResolvesToLatest'
      <4>1. arc' = arc /\ root' = root /\ call' = call /\ res' = res /\ ResolvesToLatest
        BY <2>5 DEF fsVars, FSInv
      <4>2. QED
        BY ONLY ZenonT(40), <4>1 DEF ResolvesToLatest, Latest
    <3>5. SoundArchiveOpens'
      <4>1. arc' = arc /\ pc' = pc /\ SoundArchiveOpens
        BY <2>5 DEF fsVars, FSInv
      <4>2. \A i : Below(i)' = Below(i)
        BY <4>1 DEF Below
      <4>3. QED
        BY ONLY Zenon, <4>1, <4>2 DEF SoundArchiveOpens, Undamaged
    <3>6. QED
      BY <3>2, <3>3, <3>4, <3>5 DEF FSInv
  <2>6. QED
    BY <2>1, <2>2, <2>3, <2>4, <2>5 DEF FSNext
<1>3. QED
  BY <1>1, <1>2, PTL DEF FSSpec

(* A name stands for the first entry of the highest version, for OpenFS's  *)
(* tree and through any number of calls of Sub.                            *)
THEOREM NamesResolve == FSSpec => []ResolvesToLatest
<1>1. FSInv => ResolvesToLatest
  BY DEF FSInv
<1>2. QED
  BY <1>1, FSInvariance, PTL

(* OpenFSCheck, which decodes the files one on top of the other as it      *)
(* lists them, fails for no archive that has no damage, no invalid name    *)
(* and a checksum for every packed file; nor does OpenFS.                  *)
THEOREM SoundOpens == FSSpec => []SoundArchiveOpens
<1>1. FSInv => SoundArchiveOpens
  BY DEF FSInv
<1>2. QED
  BY <1>1, FSInvariance, PTL

(* The loop over the parents of a new file gives every directory its       *)
(* files, each once, in whatever order the entries come; and Sub cuts a    *)
(* tree out of it.                                                         *)
THEOREM TreeKept == FSSpec => []TreeExact
<1>1. FSInv => TreeExact
  <2>1. SUFFICES ASSUME FSInv, pc = "ready" PROVE TreeExact
    BY DEF TreeExact
  <2>2. FSType /\ TreeInv
    BY <2>1 DEF FSInv
  <2>3. QED
    BY <2>1, <2>2, NamesAre, ListsAre DEF TreeExact
<1>2. QED
  BY <1>1, FSInvariance, PTL
==============================================================================
