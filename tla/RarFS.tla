-------------------------------- MODULE RarFS --------------------------------
(***************************************************************************)
(* OpenFS, List's listFileBlocks and RarFS (fs.go): the files of an        *)
(* archive are listed (and checked, with OpenFSCheck), put into a tree,    *)
(* and found by name.                                                      *)
(*                                                                         *)
(* A name is the sequence of its elements, <<>> for ".".  An entry of the  *)
(* archive is                                                              *)
(*   path         its name after path.Clean;  valid  fs.ValidPath(name)    *)
(*   dir, ver     IsDir and Version                                        *)
(*   comp, solid  it is packed; it goes on with the window before it       *)
(*   known        its size is known                                        *)
(*   sum          it has a checksum;  good  its data is what was archived, *)
(*                and can be read (the password is known)                  *)
(***************************************************************************)
EXTENDS Integers, Sequences, FiniteSets, SequencesExt

CONSTANTS
  Unchecked,   \* archives opened with OpenFS: sequences of entries
  Checked,     \* archives opened with OpenFSCheck
  Names        \* names callers ask for

\* path.Clean leaves "." nowhere but as a name of its own
Element == STRING \ {"."}
Header == [path : Seq(Element), valid : BOOLEAN, dir : BOOLEAN, ver : Nat, comp : BOOLEAN,
           solid : BOOLEAN, known : BOOLEAN, sum : BOOLEAN, good : BOOLEAN]
ASSUME EntryAssumption == \A a \in Unchecked \cup Checked : a \in Seq(Header)

VARIABLES
  openCheck,   \* opt.openCheck
  arc,         \* the archive
  pc,          \* "list" (listFileBlocks), "build" (OpenFS), "ready", "failed"
  upto,        \* entries that have been listed or put into the tree
  decoded,     \* packed entries whose data has gone through the window
  node,        \* the fsNodes: blocks (an entry, or 0 for nil) and files
  ftree,       \* the map from names to nodes of the current RarFS
  root,        \* the directory of the archive the current RarFS is of
  call, res    \* the last call and its result

fsVars == <<openCheck, arc, pc, upto, decoded, node, ftree, root, call, res>>

NoCall == [op |-> "none", name |-> <<>>]
NoResult == [err |-> "nil", entry |-> 0]
-----------------------------------------------------------------------------
(* listFileBlocks.                                                         *)

\* the packed entries entry i is decoded on top of
Below(i) ==
  {j \in 1 .. i - 1 : arc[j].comp /\ \A m \in j + 1 .. i : arc[m].comp => arc[m].solid}

Checks(i) == openCheck /\ arc[i].sum

(* Reading all of entry i gives what its checksum is of. *)
Verifies(i) ==
  /\ arc[i].good
  /\ arc[i].comp => Below(i) \subseteq decoded

\* seeded bug: every file is checked with a decoder of its own
DecodesAlone(i) == FALSE

\* the data of entry i goes through the window of pr.dr
Decodes(i) == Checks(i) /\ arc[i].comp

ListFile ==
  /\ pc = "list"
  /\ \/ /\ upto = Len(arc)
        /\ pc' = "build" /\ upto' = 0 /\ UNCHANGED decoded
     \/ /\ upto < Len(arc) /\ Checks(upto + 1) /\ ~Verifies(upto + 1)
        /\ pc' = "failed" /\ UNCHANGED <<upto, decoded>>
     \/ /\ upto < Len(arc) /\ (Checks(upto + 1) => Verifies(upto + 1))
        /\ upto' = upto + 1 /\ UNCHANGED pc
        /\ decoded' = IF Decodes(upto + 1) THEN decoded \cup {upto + 1} ELSE decoded
  /\ UNCHANGED <<openCheck, arc, node, ftree, root, call, res>>
-----------------------------------------------------------------------------
(* OpenFS.  A node is known by the name it is made for.                    *)

Ancestors(path) == {SubSeq(path, 1, i) : i \in 0 .. Len(path) - 1}

\* seeded bug: a later entry takes the place of an earlier one
SupersedesAlways(old, new) == TRUE

\* "node.blocks == nil || node.firstBlock().Version < h.Version"
Supersedes(old, new) == old = 0 \/ arc[old].ver < arc[new].ver

\* seeded bug: the walk up goes on behind the first parent that is there
LinkedToAll(path) == Ancestors(path)

\* the parents that get a new file: the new ones, and the first old one
Linked(path) ==
  {a \in Ancestors(path) : \A b \in Ancestors(path) \cap DOMAIN ftree : Len(b) <= Len(a)}

(* The node of a new name and the parents that are missing; prev of the    *)
(* code is the child of each on the way to path.                           *)
Added(path, i) ==
  LET new == (Linked(path) \ DOMAIN ftree) \cup {path}
      Child(a) == SubSeq(path, 1, Len(a) + 1)
      OldFiles(a) == IF a \in DOMAIN ftree THEN node[a].files ELSE <<>>
      OldBlocks(a) == IF a \in DOMAIN ftree THEN node[a].blocks ELSE 0
  IN [a \in DOMAIN node \cup new |->
        CASE a = path -> [blocks |-> i, files |-> <<>>]
          [] a # path /\ a \in Linked(path) ->
               [blocks |-> OldBlocks(a), files |-> Append(OldFiles(a), Child(a))]
          [] OTHER -> node[a]]

AddFile ==
  /\ pc = "build"
  /\ \/ upto = Len(arc) /\ pc' = "ready" /\ UNCHANGED <<upto, node, ftree>>
     \/ /\ upto < Len(arc) /\ ~arc[upto + 1].valid
        /\ pc' = "failed" /\ UNCHANGED <<upto, node, ftree>>
     \/ LET path == arc[upto + 1].path IN
        /\ upto < Len(arc) /\ arc[upto + 1].valid /\ path \in DOMAIN ftree
        /\ node' = IF Supersedes(node[path].blocks, upto + 1)
                   THEN [node EXCEPT ![path].blocks = upto + 1] ELSE node
        /\ upto' = upto + 1 /\ UNCHANGED <<pc, ftree>>
     \/ LET path == arc[upto + 1].path IN
        /\ upto < Len(arc) /\ arc[upto + 1].valid /\ path \notin DOMAIN ftree
        /\ node' = Added(path, upto + 1)
        /\ ftree' = [a \in DOMAIN node' |-> a]
        /\ upto' = upto + 1 /\ UNCHANGED pc
  /\ UNCHANGED <<openCheck, arc, decoded, root, call, res>>
-----------------------------------------------------------------------------
(* The methods of RarFS.  Names that are no valid path are ErrInvalid.     *)

Returns(op, name, e, entry) ==
  call' = [op |-> op, name |-> name] /\ res' = [err |-> e, entry |-> entry]

isDir(id) == node[id].blocks = 0 \/ (node[id].blocks # 0 /\ arc[node[id].blocks].dir)

(* Reading the whole file.  errorFile answers with the header's errors and *)
(* for a file whose password is not known, and volumes may be cut off      *)
(* ("ErrFile").  ReadFile reads as many bytes as the header says, and not  *)
(* the EOF behind them that checksumReader checks at, or all of a file of  *)
(* unknown size.                                                           *)
ReadErrors(i) ==
  {"ErrFile", IF arc[i].known \/ ~arc[i].sum \/ arc[i].good
              THEN "nil" ELSE "ErrBadFileChecksum"}

(* What op may return for a node.  openArchiveFile refuses solid files;    *)
(* the volume of another may be gone or replaced by now, or its window too *)
(* large ("ErrOpen").                                                      *)
Errors(op, id) ==
  LET i == node[id].blocks IN
  CASE op = "stat" -> {"nil"}
    [] op = "readdir" -> {IF isDir(id) THEN "nil" ELSE "ErrInvalid"}
    [] op \in {"open", "readfile"} ->
         CASE isDir(id) -> {"nil"}
           [] ~isDir(id) /\ arc[i].solid -> {"ErrSolidOpen"}
           [] ~isDir(id) /\ ~arc[i].solid ->
                {"ErrOpen"} \cup (IF op = "open" THEN {"nil"} ELSE ReadErrors(i))

Answer(op, name) ==
  IF name \notin DOMAIN ftree THEN Returns(op, name, "ErrNotExist", 0)
  ELSE \E e \in Errors(op, ftree[name]) : Returns(op, name, e, node[ftree[name]].blocks)

Call(op, name) ==
  /\ pc = "ready"
  /\ Answer(op, name)
  /\ UNCHANGED <<openCheck, arc, pc, upto, decoded, node, ftree, root>>

\* strings.TrimPrefix(upto, prefix) of the names that have the prefix
SubNames(dir) ==
  {SubSeq(q, Len(dir) + 1, Len(q)) : q \in {r \in DOMAIN ftree : IsStrictPrefix(dir, r)}}

Sub(dir) ==
  /\ pc = "ready" /\ dir # <<>>     \* Sub(".") is the RarFS itself
  /\ \/ /\ dir \notin DOMAIN ftree
        /\ Returns("sub", dir, "ErrNotExist", 0) /\ UNCHANGED <<node, ftree, root>>
     \/ /\ dir \in DOMAIN ftree
        /\ \/ /\ ~isDir(ftree[dir])
              /\ Returns("sub", dir, "ErrInvalid", 0) /\ UNCHANGED <<node, ftree, root>>
           \/ /\ isDir(ftree[dir])
              /\ root' = root \o dir
              /\ LET top == Append(root', ".")     \* a node of its own
                 IN /\ node' = [a \in DOMAIN node \cup {top} |->
                                  IF a = top THEN [blocks |-> 0, files |-> node[ftree[dir]].files]
                                  ELSE node[a]]
                    /\ ftree' = [q \in SubNames(dir) \cup {<<>>} |->
                                   IF q = <<>> THEN top ELSE ftree[dir \o q]]
              /\ Returns("sub", dir, "nil", 0)
  /\ UNCHANGED <<openCheck, arc, pc, upto, decoded>>

FSInit ==
  /\ \/ openCheck = FALSE /\ arc \in Unchecked
     \/ openCheck = TRUE /\ arc \in Checked
  /\ pc = "list" /\ upto = 0 /\ decoded = {}
  /\ node = <<>> /\ ftree = <<>> /\ root = <<>>
  /\ call = NoCall /\ res = NoResult

FSNext ==
  \/ ListFile
  \/ AddFile
  \/ \E op \in {"stat", "readdir", "open", "readfile"}, name \in Names : Call(op, name)
  \/ \E dir \in Names : Sub(dir)

FSSpec == FSInit /\ [][FSNext]_fsVars
-----------------------------------------------------------------------------
Sees(i) == IsPrefix(root, arc[i].path)

(* The tree is exactly the archive, in whatever order its entries come:    *)
(* every entry and every directory above one has a name, each is in the    *)
(* list of its parent, once, and lists hold nothing else.                  *)
TreeExact ==
  pc = "ready" =>
    /\ arc # <<>> => DOMAIN ftree =
         UNION {{SubSeq(q, Len(root) + 1, Len(q)) :
                   q \in {a \in Ancestors(arc[i].path) \cup {arc[i].path} : IsPrefix(root, a)}} :
                 i \in {j \in 1 .. Len(arc) : Sees(j)}}
    /\ \A q \in DOMAIN ftree :
         LET files == node[ftree[q]].files IN
         /\ Cardinality(ToSet(files)) = Len(files)
         /\ ToSet(files) = {ftree[c] : c \in {d \in DOMAIN ftree : d # <<>> /\ Front(d) = q}}

\* the entry a name stands for: the first one of the highest version
Latest(path) ==
  LET all == {i \in 1 .. Len(arc) : arc[i].path = path}
      top == {i \in all : \A j \in all : arc[j].ver <= arc[i].ver}
  IN IF all = {} THEN 0 ELSE CHOOSE i \in top : \A j \in top : i <= j

(* A name gives the newest version of the file, also through any number of *)
(* calls of Sub.                                                           *)
ResolvesToLatest ==
  (call.op \in {"stat", "open", "readfile"} /\ res.err # "ErrNotExist" /\ call.name # <<>>) =>
    res.entry = Latest(root \o call.name)

Undamaged == \A i \in 1 .. Len(arc) : arc[i].good /\ arc[i].valid

(* OpenFSCheck decodes every file it checks on top of the ones below it,   *)
(* through one window, and opens an archive that has no damage, if the     *)
(* files that a checked solid file goes on with are all checked as well:   *)
(* a file without a checksum is passed over without being decoded.         *)
SoundArchiveOpens ==
  (/\ Undamaged
   /\ \A i \in 1 .. Len(arc) :
        arc[i].comp /\ arc[i].sum => \A j \in Below(i) : arc[j].sum) => pc # "failed"

(* "Solid files retain decode tables and dictionary from previous solid    *)
(* files in the archive." (archive.go:83)  So a sound archive opens,       *)
(* whichever of its files have checksums.                                  *)
SolidFilesRetain == Undamaged => pc # "failed"
=============================================================================
