-------------------------- MODULE MCPackedFileReader --------------------------
(* Small archives for PackedFileReader. *)
EXTENDS PackedFileReader

\* a block that is there, and one that has lost bytes
B(name, first, last, size) ==
  [name |-> name, first |-> first, last |-> last, size |-> size, have |-> size]
Cut(b, have) == [b EXCEPT !.have = have]
V(bs, end) == [blocks |-> bs, end |-> end]

Only(name, size) == B(name, TRUE, TRUE, size)
Begin(name, size) == B(name, TRUE, FALSE, size)
Middle(name, size) == B(name, FALSE, FALSE, size)
End(name, size) == B(name, FALSE, TRUE, size)

(* Files in one, two and three volumes, with empty blocks among them. *)
Whole == {
  <<V(<<Only("a", 2), Begin("b", 1)>>, "more"), V(<<Middle("b", 2)>>, "more"),
    V(<<End("b", 1), Only("c", 0), Only("d", 3)>>, "last")>>,
  <<V(<<Begin("a", 2)>>, "none"), V(<<Middle("a", 0)>>, "none"),
    V(<<End("a", 3), Only("b", 1)>>, "none")>>,
  <<V(<<Only("a", 3), Only("b", 2)>>, "none")>>,
  <<V(<<Only("a", 1)>>, "none"), V(<<Only("b", 1)>>, "more"), V(<<Only("c", 1)>>, "last")>>,
  <<V(<<>>, "last")>>}

(* A volume missing, a foreign volume, a continuation without a start, a   *)
(* file that never ends, volumes cut off in the middle of a block.         *)
Damaged == {
  <<V(<<Only("a", 1), Begin("b", 2)>>, "more")>>,
  <<V(<<Begin("b", 2)>>, "none")>>,
  <<V(<<Begin("b", 2)>>, "more"), V(<<End("c", 2), Only("d", 1)>>, "last")>>,
  <<V(<<Begin("b", 2)>>, "more"), V(<<Only("b", 2)>>, "last")>>,
  <<V(<<End("a", 1), Only("b", 1)>>, "last")>>,
  <<V(<<Only("a", 1), Begin("b", 2)>>, "last")>>,
  <<V(<<Only("a", 1), Cut(Only("b", 3), 1)>>, "none")>>,
  <<V(<<Only("a", 1), Cut(Only("b", 3), 1)>>, "broken")>>,
  <<V(<<Cut(Begin("b", 3), 1)>>, "none"), V(<<End("b", 2), Only("c", 1)>>, "none")>>}

Mode(archives, files, seekable, opened, ops) ==
  [archives |-> archives, files |-> files, seekable |-> seekable,
   opened |-> opened, ops |-> ops]

(* Complete archives, walked through and with their files opened, damaged  *)
(* ones, and the first volumes of all from a stream that cannot seek.      *)
MCModes == {
  Mode(Whole, TRUE, TRUE, FALSE, {"read", "byte", "write"}),
  Mode(Whole, TRUE, TRUE, TRUE, {"read", "byte", "write"}),
  Mode(Damaged, TRUE, TRUE, FALSE, {"read", "byte"}),
  Mode({<<a[1]>> : a \in Whole \cup Damaged}, FALSE, FALSE, FALSE, {"read", "byte"})}
=============================================================================
