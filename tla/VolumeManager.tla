---------------------------- MODULE VolumeManager ----------------------------
(***************************************************************************)
(* volumeManager and fileVolume (volume.go): the names of an archive's     *)
(* volumes, shared by all readers of the archive, and each reader's way    *)
(* from one volume file to the next.                                       *)
(*                                                                         *)
(* Main is the volume that OpenReader, List and OpenFS walk through the    *)
(* archive with; once it has come to the end the other readers (File.Open, *)
(* RarFS.Open, each in a goroutine of its own) open the volumes they need. *)
(* openVolumeFile holds vm.mu from its first to its last line and is one   *)
(* step; the three parts of fileVolume.open are steps of their own.        *)
(***************************************************************************)
EXTENDS VolumeNames, Integers

CONSTANTS
  Main, Readers,   \* the walk through the archive, files opened later
  Archives         \* the archives that are read, records of
                   \*   first: the name OpenReader or List is given
                   \*   content: files that may be on disk, what is in them
                   \*   statuses: what Open may say of a file
                   \*   reclose: a closed file of this file system may be closed
                   \*     again (option FileSystem; os.File says ErrClosed)
                   \*   volumes, changes: bounds, on the volumes and on how
                   \*     often a file comes, goes or is locked

(* content[name] is [sig, num, end, old]: whether it starts as a volume,   *)
(* the volume number in its header (-1: none), what comes after its last   *)
(* file block ("more": an end block and the archive goes on, "last": an    *)
(* end block, "none": the end of the file), and the old naming flag.       *)
ASSUME ArchiveAssumption ==
  \A a \in Archives :
    /\ IsName(a.first) /\ a.statuses \subseteq {"ok", "missing", "denied"}
    /\ a.volumes \in Nat /\ a.changes \in Nat /\ a.reclose \in BOOLEAN
    /\ \A name \in DOMAIN a.content :
         a.content[name] \in [sig : BOOLEAN, num : Nat \cup {-1},
                             end : {"more", "last", "none"}, old : BOOLEAN]
ASSUME RoleAssumption == Main \notin Readers /\ IsFiniteSet(Readers)

Procs == {Main} \cup Readers

VARIABLES
  arch,            \* the archive, one of Archives
  files, old,      \* vm.files, vm.old
  vol,             \* the volume of each reader, see NoVolume
  nopen,           \* file handles the file system has given out and not back
  disk,            \* status of every file
  listed, seen,    \* the walk has come to the end; volumes it went through
  changes

vm == <<files, old>>
vars == <<vm, vol, nopen, disk, listed, seen, changes, arch>>

(* f: name of v.f, and whether it is open; src: name of the file that      *)
(* v.br reads; num: v.num; want: volume number that is being opened;       *)
(* why: what it is opened for; ret: result of the last call.               *)
NoVolume == [pc |-> "none", f |-> <<>>, fopen |-> FALSE, src |-> <<>>, num |-> 0,
             want |-> 0, why |-> "more", next |-> <<>>, ret |-> "nil"]

Content == arch.content
Status(name) == IF name \in DOMAIN Content THEN disk[name] ELSE "missing"

\* a file that Open returns is closed by someone; a name it does not find is not
NotExist == "ErrNotExist"
OpenError(name) ==
  CASE Status(name) = "missing" -> NotExist
    [] Status(name) = "denied" -> "denied"
    [] OTHER -> "nil"
-----------------------------------------------------------------------------
(* volumeManager.                                                          *)

\* seeded bug: the old scheme is used and not remembered
TryNewNameForgets(file) ==
  LET new == nextNewVolName(file)
      alt == nextOldVolName(file)
  IN CASE Status(new) # "missing" ->
            [files |-> Append(files, new), old |-> old, name |-> new]
       [] Status(new) = "missing" /\ Status(alt) # "missing" ->
            [files |-> Append(files, alt), old |-> old, name |-> alt]
       [] OTHER -> [files |-> files, old |-> old, name |-> new]

(* The second volume of an archive whose name has a number: the new        *)
(* scheme, or the old one if there is no such file.                        *)
tryNewName(file) ==
  LET new == nextNewVolName(file)
      alt == nextOldVolName(file)
  IN CASE Status(new) # "missing" ->
            [files |-> Append(files, new), old |-> old, name |-> new]
       [] Status(new) = "missing" /\ Status(alt) # "missing" ->
            [files |-> Append(files, alt), old |-> TRUE, name |-> alt]
       [] OTHER -> [files |-> files, old |-> old, name |-> new]

\* the k names after file
Following(file, o, k) ==
  LET Name[j \in 0 .. k] ==
        IF j = 0 THEN file
        ELSE IF o THEN nextOldVolName(Name[j - 1]) ELSE nextNewVolName(Name[j - 1])
  IN [j \in 1 .. k |-> Name[j]]

(* openVolumeFile up to its call of Open: the name it opens and what it    *)
(* has made of vm.  (Open's error, where it matters, is in the name.)      *)
openVolumeFile(volnum) ==
  IF volnum < Len(files)
  THEN [files |-> files, old |-> old, name |-> files[volnum + 1]]
  ELSE LET first == Len(files) = 1
           file == IF first THEN fixFileExtension(files[1]) ELSE files[Len(files)]
           o == old \/ first
           more == Following(file, o, volnum + 1 - Len(files))
       IN IF first /\ ~old /\ hasDigits(file)
          THEN tryNewName(file)
          ELSE [files |-> files \o more, old |-> o, name |-> more[Len(more)]]

(* vm.newVolume up to newVolume(f): by openVolume, and by openBlockOffset  *)
(* for a block of a volume that the walk has seen.                         *)
newVolume(p, volnum) ==
  /\ vol[p].pc = "none"
  /\ IF p = Main THEN volnum = 0 ELSE listed /\ vol[Main].pc = "done" /\ volnum < seen
  /\ LET o == openVolumeFile(volnum)
         e == OpenError(o.name)
     IN /\ files' = o.files /\ old' = o.old
        /\ IF e = "nil"
           THEN /\ vol' = [vol EXCEPT ![p] = [NoVolume EXCEPT !.pc = "new",
                                               !.next = o.name, !.want = volnum]]
                /\ nopen' = nopen + 1
           ELSE /\ vol' = [vol EXCEPT ![p].pc = "failed", ![p].ret = e]
                /\ UNCHANGED nopen
  /\ UNCHANGED <<disk, listed, seen, changes, arch>>

(* readerVolume.init of volume volnum: the error, or "nil". *)
init(name, volnum) ==
  CASE ~Content[name].sig -> "ErrNoSig"
    [] Content[name].sig /\ Content[name].num \notin {-1, volnum} -> "ErrBadVolumeNumber"
    [] OTHER -> "nil"

(* The rest of newVolume; openVolume also asks for the naming scheme. *)
newVolumeInit(p) ==
  LET v == vol[p]
      e == init(v.next, v.want)
  IN /\ v.pc = "new"
     /\ IF e = "nil"
        THEN /\ vol' = [vol EXCEPT ![p].pc = "ready", ![p].f = v.next, ![p].fopen = TRUE,
                                   ![p].src = v.next, ![p].num = v.want]
             /\ old' = IF p = Main THEN Content[v.next].old ELSE old
             /\ UNCHANGED nopen
        ELSE /\ vol' = [vol EXCEPT ![p].pc = "failed", ![p].ret = e]
             /\ nopen' = nopen - 1
             /\ UNCHANGED old
     /\ seen' = IF p = Main /\ e = "nil" THEN 1 ELSE seen
     /\ UNCHANGED <<files, disk, listed, changes, arch>>
-----------------------------------------------------------------------------
(* fileVolume.                                                             *)

(* open: v.Close(), for volume volnum.  After an open that failed v.f is a *)
(* closed file still.                                                      *)
openStart(p, volnum, why) ==
  /\ IF vol[p].fopen \/ arch.reclose
     THEN vol' = [vol EXCEPT ![p].pc = "open", ![p].fopen = FALSE,
                             ![p].want = volnum, ![p].why = why]
     ELSE vol' = [vol EXCEPT ![p].ret = "ErrClosed"]
  /\ nopen' = IF vol[p].fopen THEN nopen - 1 ELSE nopen
  /\ UNCHANGED <<vm, disk, listed, seen, changes, arch>>

(* nextBlock at the end of the volume.  A reader of one file stops at the  *)
(* file's last block, in a volume that the walk has seen.                  *)
nextBlock(p) ==
  /\ vol[p].pc = "ready" /\ vol[p].ret = "nil"
  /\ Content[vol[p].src].end # "last"
  /\ IF p = Main THEN vol[p].num + 1 < arch.volumes ELSE vol[p].num + 1 < seen
  /\ openStart(p, vol[p].num + 1, Content[vol[p].src].end)

(* A volume that was refused for its number is open as far as v.br and     *)
(* v.num go, and a further call reads on behind its header: what is        *)
(* buffered, from a file that is closed.                                   *)
nextBlockRefused(p) ==
  /\ vol[p].pc = "ready" /\ vol[p].ret = "ErrBadVolumeNumber"
  /\ \E e \in {"nil", "ErrClosed"} : vol' = [vol EXCEPT ![p].ret = e]
  /\ UNCHANGED <<vm, nopen, disk, listed, seen, changes, arch>>

nextBlockEnd(p) ==
  /\ vol[p].pc = "ready" /\ vol[p].ret = "nil"
  /\ Content[vol[p].src].end = "last"
  /\ vol' = [vol EXCEPT ![p].ret = "EOF"]
  /\ listed' = (listed \/ p = Main)
  /\ UNCHANGED <<vm, nopen, disk, seen, changes, arch>>

(* openBlock, for Seek: also after an error. *)
openBlock(p, volnum) ==
  /\ p # Main /\ vol[p].pc = "ready" /\ volnum < seen
  /\ \/ /\ vol[p].num # volnum
        /\ openStart(p, volnum, "more")
     \/ /\ vol[p].num = volnum
        /\ \E e \in {"nil"} \cup IF vol[p].fopen THEN {} ELSE {"ErrClosed"} :
             vol' = [vol EXCEPT ![p].ret = e]   \* what is buffered can be had
        /\ UNCHANGED <<vm, nopen, disk, listed, seen, changes, arch>>

\* seeded bug: the volume counts as the current one before its file is open
OpenFileNumbers(p) ==
  /\ vol[p].pc = "open"
  /\ LET o == openVolumeFile(vol[p].want)
         e == OpenError(o.name)
         end == e = NotExist /\ vol[p].why = "none"
     IN /\ files' = o.files /\ old' = o.old
        /\ IF e = "nil"
           THEN /\ vol' = [vol EXCEPT ![p].pc = "init", ![p].next = o.name]
                /\ nopen' = nopen + 1
           ELSE /\ vol' = [vol EXCEPT ![p].pc = "ready", ![p].num = vol[p].want,
                                      ![p].ret = IF end THEN "EOF" ELSE e]
                /\ UNCHANGED nopen
        /\ listed' = (listed \/ (end /\ p = Main))
  /\ UNCHANGED <<disk, seen, changes, arch>>

\* open: v.vm.openVolumeFile; a volume that is not there may be the end
openFile(p) ==
  /\ vol[p].pc = "open"
  /\ LET o == openVolumeFile(vol[p].want)
         e == OpenError(o.name)
         end == e = NotExist /\ vol[p].why = "none"
     IN /\ files' = o.files /\ old' = o.old
        /\ IF e = "nil"
           THEN /\ vol' = [vol EXCEPT ![p].pc = "init", ![p].next = o.name]
                /\ nopen' = nopen + 1
           ELSE /\ vol' = [vol EXCEPT ![p].pc = "ready",
                                      ![p].ret = IF end THEN "EOF" ELSE e]
                /\ UNCHANGED nopen
        /\ listed' = (listed \/ (end /\ p = Main))
  /\ UNCHANGED <<disk, seen, changes, arch>>

\* seeded bug: a file that turns out not to be the volume stays open
OpenInitKeeps(p) ==
  LET v == vol[p]
      e == init(v.next, v.want)
  IN /\ v.pc = "init"
     /\ vol' = [vol EXCEPT
          ![p].pc = "ready", ![p].ret = e, ![p].src = v.next,
          ![p].num = IF e = "ErrNoSig" THEN @ ELSE v.want,
          ![p].f = IF e = "nil" THEN v.next ELSE @, ![p].fopen = (e = "nil")]
     /\ seen' = IF p = Main /\ e = "nil" THEN v.want + 1 ELSE seen
     /\ UNCHANGED <<vm, nopen, disk, listed, changes, arch>>

(* open: v.readerVolume.init.  The buffered reader has been reset to the   *)
(* new file whatever comes of it, and v.num is set before the number in    *)
(* the volume is compared.                                                 *)
openInit(p) ==
  LET v == vol[p]
      e == init(v.next, v.want)
  IN /\ v.pc = "init"
     /\ vol' = [vol EXCEPT
          ![p].pc = "ready", ![p].ret = e, ![p].src = v.next,
          ![p].num = IF e = "ErrNoSig" THEN @ ELSE v.want,
          ![p].f = IF e = "nil" THEN v.next ELSE @, ![p].fopen = (e = "nil")]
     /\ nopen' = IF e = "nil" THEN nopen ELSE nopen - 1
     /\ seen' = IF p = Main /\ e = "nil" THEN v.want + 1 ELSE seen
     /\ UNCHANGED <<vm, disk, listed, changes, arch>>

(* Close, by the caller of OpenReader or Open, or when List is done. *)
Close(p) ==
  /\ vol[p].pc = "ready"
  /\ vol' = [vol EXCEPT
       ![p].pc = "done", ![p].fopen = FALSE,
       ![p].ret = IF vol[p].fopen \/ arch.reclose THEN "nil" ELSE "ErrClosed"]
  /\ nopen' = IF vol[p].fopen THEN nopen - 1 ELSE nopen
  /\ UNCHANGED <<vm, disk, listed, seen, changes, arch>>
-----------------------------------------------------------------------------
\* the file system: another program brings, takes or locks a file
Change(name) ==
  /\ changes < arch.changes
  /\ disk' \in {[disk EXCEPT ![name] = s] : s \in arch.statuses \ {disk[name]}}
  /\ changes' = changes + 1
  /\ UNCHANGED <<vm, vol, nopen, listed, seen, arch>>

Init ==
  /\ arch \in Archives
  /\ files = <<arch.first>> /\ old = FALSE
  /\ vol = [p \in Procs |-> NoVolume]
  /\ nopen = 0 /\ listed = FALSE /\ seen = 0 /\ changes = 0
  /\ disk \in [DOMAIN Content -> arch.statuses]

Next ==
  \/ \E p \in Procs :
       \/ \E volnum \in 0 .. arch.volumes - 1 : newVolume(p, volnum) \/ openBlock(p, volnum)
       \/ newVolumeInit(p) \/ nextBlock(p) \/ nextBlockRefused(p) \/ nextBlockEnd(p)
       \/ openFile(p) \/ openInit(p) \/ Close(p)
  \/ \E name \in DOMAIN Content : Change(name)

Spec == Init /\ [][Next]_vars
-----------------------------------------------------------------------------
(* Every handle the file system has given out is some reader's v.f, or on  *)
(* its way there: none is lost when a volume is missing, is locked or      *)
(* turns out to be something else.                                         *)
NoHandleLost ==
  nopen = Cardinality({p \in Procs : vol[p].fopen})
        + Cardinality({p \in Procs : vol[p].pc \in {"new", "init"}})

(* The names are those of one naming scheme, whichever files were there    *)
(* when each of them was first asked for, and whoever asked.               *)
OneScheme ==
  \A k \in 1 .. Len(files) - 1 :
    files[k + 1] = IF old THEN OldName(files[1], k) ELSE NewName(files[1], k)

(* No file that has the name of a volume is something else. *)
SoundVolumes ==
  \A k \in 1 .. Len(files) :
    files[k] \in DOMAIN Content => init(files[k], k - 1) = "nil"

(* What a reader is served is volume v.num, after any number of opens that *)
(* failed: the buffered reader has the file of that name, and it is the    *)
(* volume of that number.  So it is whenever v.f is open, and also while   *)
(* it is closed after an open that found no file or a locked one; only a   *)
(* file that was opened and refused can be in the buffer by mistake.       *)
CurrentVolume ==
  \A p \in Procs :
    /\ vol[p].fopen => vol[p].src = vol[p].f
    /\ vol[p].pc = "ready" /\ (vol[p].fopen \/ SoundVolumes) =>
         /\ vol[p].src = files[vol[p].num + 1]
         /\ init(vol[p].src, vol[p].num) = "nil"

(* A call that says nothing is wrong was served from "current volume file" *)
(* v.br, the file of "current volume number" v.num (the fields' comments). *)
ServesCurrentVolume ==
  \A p \in Procs : vol[p].pc = "ready" /\ vol[p].ret = "nil" =>
    vol[p].src = files[vol[p].num + 1] /\ init(vol[p].src, vol[p].num) = "nil"

(* At the end of the archive the list, which Volumes returns, is of the    *)
(* volumes that have been used.                                            *)
ListsUsedVolumes == listed => Len(files) = seen
=============================================================================
