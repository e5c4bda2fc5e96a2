---------------------------- MODULE MCArchiveReader ----------------------------
(* Small archives for ArchiveReader. *)
EXTENDS ArchiveReader

\* a stored file, with and without a checksum, and a packed one
Stored(data, sum) == [size |-> Len(data), sum |-> sum, comp |-> FALSE, solid |-> FALSE,
                      open |-> "ok", data |-> data, fails |-> "EOF"]
Packed(data, sum, solid) == [Stored(data, sum) EXCEPT !.comp = TRUE, !.solid = solid]

(* Good data, other data than the checksum's, too little data, padding     *)
(* behind the data, a decoder that fails, sizes that are not known, no     *)
(* data at all; files that cannot be read.                                 *)
Files ==
  LET d == <<1, 2, 3>> IN
  { Stored(d, d), Stored(d, NoSum), Stored(<<>>, <<>>), Packed(d, d, FALSE),
    [Stored(d, d) EXCEPT !.data = <<1, 4, 3>>],
    [Stored(d, d) EXCEPT !.data = <<1, 2>>],
    [Stored(d, d) EXCEPT !.data = <<>>], [Stored(d, NoSum) EXCEPT !.data = <<1, 2>>],
    [Packed(d, d, FALSE) EXCEPT !.data = <<1, 2, 3, 0>>],
    [Packed(d, d, FALSE) EXCEPT !.data = <<1, 2>>, !.fails = "corrupt"],
    [Packed(d, d, FALSE) EXCEPT !.size = -1],
    [Packed(d, NoSum, FALSE) EXCEPT !.size = -1, !.data = <<1, 2>>],
    [Stored(d, d) EXCEPT !.open = "errs"], [Packed(d, d, FALSE) EXCEPT !.open = "dict"] }

Singles == {<<a>> : a \in Files}
Pairs == {<<a, b>> : a \in Files, b \in Files}

(* Every kind of file, and files that are opened in turn. *)
Reopened == Singles \cup {<<Stored(<<1, 2, 3>>, <<1, 2, 3>>), Stored(<<4, 5>>, NoSum)>>}

(* Solid archives: packed, stored and unreadable files between each other. *)
SolidFiles(solid) == { Packed(<<1, 2>>, <<1, 2>>, solid), Packed(<<1>>, NoSum, solid),
                       [Packed(<<1>>, NoSum, solid) EXCEPT !.data = <<1, 0>>],
                       [Packed(<<1>>, NoSum, solid) EXCEPT !.fails = "corrupt"] }
SolidArchives ==
  {<<a, b, c>> : a \in SolidFiles(FALSE),
                 b \in SolidFiles(TRUE) \cup {Stored(<<3>>, <<3>>)},
                 c \in SolidFiles(TRUE) \cup SolidFiles(FALSE)}

MCModes == {
  [archives |-> Pairs, solid |-> FALSE, opened |-> FALSE, skipCheck |-> FALSE],
  [archives |-> Reopened, solid |-> FALSE, opened |-> TRUE, skipCheck |-> FALSE],
  [archives |-> SolidArchives, solid |-> TRUE, opened |-> FALSE, skipCheck |-> TRUE]}
=============================================================================
