------------------------------- MODULE MCRarFS -------------------------------
(* Small archives for RarFS. *)
EXTENDS RarFS

Entry(path, dir, ver) ==
  [path |-> path, dir |-> dir, ver |-> ver, valid |-> TRUE, comp |-> FALSE,
   solid |-> FALSE, known |-> TRUE, sum |-> TRUE, good |-> TRUE]

Paths == {<<"a">>, <<"b">>, <<"a", "a">>, <<"a", "b">>, <<"a", "b", "a">>}
AskedFor == Paths \cup {<<>>, <<"b", "a">>}

(* Files and directories in every order, more than once, with versions; a  *)
(* file in the place of a directory; the root; a name that is not valid.   *)
Entries ==
  {Entry(p, FALSE, ver) : p \in Paths, ver \in 0 .. 1} \cup {Entry(<<"a">>, TRUE, 0)}
  \cup {Entry(<<>>, TRUE, 0), [Entry(<<"..">>, FALSE, 0) EXCEPT !.valid = FALSE]}
Trees == {<<>>} \cup {<<a, b>> : a \in Entries, b \in Entries}
               \cup {<<a, b, c>> : a \in Entries, b \in Entries, c \in Entries}

(* Data: stored, packed and solid files, good and damaged ones, with and   *)
(* without a checksum.                                                     *)
Contents(p) ==
  {[Entry(p, FALSE, 0) EXCEPT !.comp = x[1], !.solid = x[1] /\ x[2], !.sum = x[3],
                              !.good = x[4], !.known = x[5]] : x \in [1 .. 5 -> BOOLEAN]}
Mixed == {<<a, b, c>> : a \in {e \in Contents(<<"a">>) : ~e.solid /\ e.known},
                        b \in Contents(<<"b">>), c \in {e \in Contents(<<"a", "b">>) : e.known}}

TreesAndMixed == Trees \cup Mixed
=============================================================================
