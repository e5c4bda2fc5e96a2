----------------------------- MODULE VolumeNames -----------------------------
(***************************************************************************)
(* Names of an archive's volumes (volume.go): how the name of the next     *)
(* volume is made from the name of the last one.                           *)
(*                                                                         *)
(* A name is a sequence of tokens: dots, words, numbers with their width,  *)
(* and single letters as the extensions of the old naming scheme have      *)
(* them.  A letter is its position in the character set from 'a', a word   *)
(* has its first letter.                                                   *)
(***************************************************************************)
EXTENDS Naturals, Sequences, FiniteSets

CONSTANT Words   \* the words names are made of

ASSUME WordAssumption == "rar" \in Words

Dot == [k |-> "dot"]
Word(w, c) == [k |-> "word", w |-> w, c |-> c]
Letter(c) == [k |-> "letter", c |-> c]
Num(width, n) == [k |-> "num", width |-> width, n |-> n]

Token == [k : {"dot"}] \cup [k : {"word"}, w : Words, c : Nat]
         \cup [k : {"letter"}, c : Nat] \cup [k : {"num"}, width : Nat, n : Nat]

Rar == Word("rar", 17)
UpperA == 100                       \* 'A', kept apart from the lower case

Highest(S) == CHOOSE i \in S : \A j \in S : j <= i
PlacesOf(file, kind) == {i \in 1 .. Len(file) : file[i].k = kind}
LastDot(file) == Highest({0} \cup PlacesOf(file, "dot"))
Extension(file) == SubSeq(file, LastDot(file) + 1, Len(file))
UpToDot(file) == SubSeq(file, 1, LastDot(file))

hasDigits(file) == PlacesOf(file, "num") # {}

fixFileExtension(file) ==
  CASE LastDot(file) = 0 -> file \o <<Dot, Rar>>
    [] LastDot(file) > 0 /\ Extension(file) \in
         {<<>>, <<Word("exe", 4)>>, <<Word("sfx", 18)>>} -> UpToDot(file) \o <<Rar>>
    [] OTHER -> file

\* of numbers with up to ten digits
Digits(n) ==
  1 + Cardinality({t \in {10, 100, 1000, 10000, 100000, 1000000, 10000000, 100000000,
                          1000000000} : t <= n})

PlusOne(t) ==
  Num(IF Digits(t.n + 1) > t.width THEN Digits(t.n + 1) ELSE t.width, t.n + 1)

(* Which number of a name counts the volumes: the last one, or of          *)
(* name.part###of### the one before it.                                    *)
VolumeNumberAt(file) ==
  LET nums == PlacesOf(file, "num")
      last == Highest(nums)
      prev == Highest(nums \ {last})
      DotIn(a, b) == \E i \in a .. b : file[i] = Dot
  IN IF Cardinality(nums) = 1 \/ DotIn(prev, last) \/ ~DotIn(1, prev - 1)
     THEN last ELSE prev

nextNewVolName(file) ==
  [file EXCEPT ![VolumeNumberAt(file)] = PlusOne(@)]

(* A letter and two digits, or three digits, count up, with a carry into   *)
(* the letter; of any other extension the first letter stays.              *)
NextExtension(ext) ==
  CASE Len(ext) = 2 /\ ext[2].n < 99 -> <<ext[1], Num(2, ext[2].n + 1)>>
    [] Len(ext) = 2 /\ ext[2].n = 99 -> <<Letter(ext[1].c + 1), Num(2, 0)>>
    [] Len(ext) = 1 /\ ext[1].k = "num" /\ ext[1].n < 999 -> <<Num(3, ext[1].n + 1)>>
    [] Len(ext) = 1 /\ ext[1].k = "num" /\ ext[1].n = 999 -> <<Letter(UpperA), Num(2, 0)>>
    [] OTHER -> <<Letter(ext[1].c), Num(2, 0)>>

nextOldVolName(file) == UpToDot(file) \o NextExtension(Extension(file))

(* The names that are modelled: an extension with digits is a letter and   *)
(* two digits, or three digits.                                            *)
IsExtension(ext) ==
  \/ /\ Len(ext) = 2 /\ ext[1].k = "letter"
     /\ ext[2].k = "num" /\ ext[2].width = 2 /\ ext[2].n <= 99
  \/ Len(ext) = 1 /\ ext[1].k = "num" /\ ext[1].width = 3 /\ ext[1].n <= 999
  \/ Len(ext) = 1 /\ ext[1].k \in {"letter", "word"}

IsName(file) == file \in Seq(Token) /\ IsExtension(Extension(fixFileExtension(file)))
-----------------------------------------------------------------------------
(* What the two schemes come to, without going through the names before:   *)
(* the name of volume k > 0 of an archive whose first volume is file.      *)

Counted(t, k) ==
  Num(IF Digits(t.n + k) > t.width THEN Digits(t.n + k) ELSE t.width, t.n + k)

NewName(file, k) ==
  LET f == fixFileExtension(file) IN
  [f EXCEPT ![VolumeNumberAt(f)] = Counted(@, k)]

OldExtension(ext, k) ==
  IF ext[1].k = "num"
  THEN LET n == ext[1].n + k IN
       IF n < 1000 THEN <<Num(3, n)>>
       ELSE <<Letter(UpperA + ((n - 1000) \div 100)), Num(2, n % 100)>>
  ELSE LET n == IF Len(ext) = 2 THEN ext[2].n + k ELSE k - 1 IN
       <<Letter(ext[1].c + (n \div 100)), Num(2, n % 100)>>

OldName(file, k) ==
  LET f == fixFileExtension(file) IN UpToDot(f) \o OldExtension(Extension(f), k)
=============================================================================
