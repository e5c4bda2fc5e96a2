--------------------------- MODULE MCVolumeManager ---------------------------
(* Small archives for VolumeManager. *)
EXTENDS VolumeManager

X == Word("x", 23)
Part(n) == <<X, Dot, Word("part", 15), Num(IF n < 10 THEN 1 ELSE 2, n), Dot, Rar>>
PartOld(n) == <<X, Dot, Word("part", 15), Num(1, 9), Dot, Letter(17), Num(2, n)>>
Plain == <<X, Dot, Rar>>
PlainOld(n) == <<X, Dot, Letter(17), Num(2, n)>>
Sfx == <<X, Dot, Word("exe", 4)>>

Volume(num, end, o) == [sig |-> TRUE, num |-> num, end |-> end, old |-> o]
Other == [sig |-> FALSE, num |-> -1, end |-> "none", old |-> FALSE]

Of(pairs) == [name \in {q[1] : q \in pairs} |-> (CHOOSE q \in pairs : q[1] = name)[2]]

(* x.part9.rar, x.part10.rar, x.part11.rar without end blocks, and files   *)
(* of the old scheme beside them.                                          *)
NewScheme ==
  [first |-> Part(9), statuses |-> {"ok", "missing"}, volumes |-> 3, changes |-> 1,
   reclose |-> FALSE,
   content |-> Of({<<Part(9), Volume(-1, "none", FALSE)>>,
                   <<Part(10), Volume(-1, "none", FALSE)>>,
                   <<Part(11), Volume(-1, "last", FALSE)>>,
                   <<PartOld(0), Volume(-1, "none", FALSE)>>,
                   <<PartOld(1), Volume(-1, "last", FALSE)>>})]

(* x.exe, x.r00, x.r01, with end blocks. *)
OldScheme ==
  [first |-> Sfx, statuses |-> {"ok", "missing", "denied"}, volumes |-> 4, changes |-> 2,
   reclose |-> TRUE,
   content |-> Of({<<Sfx, Volume(-1, "more", TRUE)>>,
                   <<PlainOld(0), Volume(-1, "more", TRUE)>>,
                   <<PlainOld(1), Volume(-1, "none", TRUE)>>})]

(* RAR 5 volumes with their numbers; one of them is out of place, one is   *)
(* no volume at all.                                                       *)
Damaged ==
  [first |-> Part(9), statuses |-> {"ok", "missing", "denied"}, volumes |-> 4, changes |-> 1,
   reclose |-> FALSE,
   content |-> Of({<<Part(9), Volume(0, "more", FALSE)>>,
                   <<Part(10), Volume(1, "more", FALSE)>>,
                   <<Part(11), Other>>,
                   <<PartOld(0), Volume(3, "more", FALSE)>>})]

(* Volumes where counting carries: x.998, 999, A00, and x.r98, r99, s00,   *)
(* and x.part9of12.rar, part10of12.rar, part11of12.rar.                    *)
Three(names, o) ==
  [first |-> names[1], statuses |-> {"ok", "missing"}, volumes |-> 4, changes |-> 0,
   reclose |-> FALSE,
   content |-> [name \in {names[1], names[2], names[3]} |-> Volume(-1, "none", o)]]

Numbers == Three(<<<<X, Dot, Num(3, 998)>>, <<X, Dot, Num(3, 999)>>,
                   <<X, Dot, Letter(UpperA), Num(2, 0)>>>>, TRUE)
Letters == Three(<<<<X, Dot, Letter(17), Num(2, 98)>>, PlainOld(99),
                   <<X, Dot, Letter(18), Num(2, 0)>>>>, TRUE)

PartOf(n) == <<X, Num(1, 7), Dot, Word("part", 15), Num(IF n < 10 THEN 1 ELSE 2, n),
               Word("of", 14), Num(2, 12), Dot, Rar>>
PartsOf == Three(<<PartOf(9), PartOf(10), PartOf(11)>>, FALSE)

MCArchives == {NewScheme, OldScheme, Damaged, [Damaged EXCEPT !.reclose = TRUE],
               Numbers, Letters, PartsOf}
=============================================================================
