------------------------------ MODULE MCHeaders ------------------------------
(* Small archives for ArchiveHeaders, written with the password "p1".       *)
EXTENDS ArchiveHeaders

Hdr(type, data) == [u |-> "head", cut |-> FALSE, key |-> None, good |-> TRUE, fits |-> TRUE,
                     type |-> type, data |-> data]
Data == [u |-> "data", cut |-> FALSE]
Salt(n) == [u |-> "salt", cut |-> FALSE, salt |-> n]

Enc(salt, kdf, check, mac) ==
  [known |-> TRUE, salt |-> salt, kdf |-> kdf, check |-> check, mac |-> mac]
File(name, first, last, enc, method) ==
  [name |-> name, first |-> first, last |-> last, enc |-> enc, method |-> method] @@ Hdr("file", TRUE)
Arc(multiVol, isSolid, volnum, isEnc) ==
  [multi |-> multiVol, solid |-> isSolid, volnum |-> volnum, encrypted |-> isEnc] @@ Hdr("arc", FALSE)
EndBlock(notLast) == [notLast |-> notLast] @@ Hdr("end", FALSE)
Encrypt(salt, kdf, check) ==
  [known |-> TRUE, salt |-> salt, kdf |-> kdf, check |-> check] @@ Hdr("encrypt", FALSE)
Service == Hdr("service", TRUE)
Comment == Hdr("comment", FALSE)

(* Units of a volume of RAR 5 with the headers hs, of which an encryption   *)
(* block says how they are encrypted; of RAR 1.5, where every header has a  *)
(* salt of its own.                                                         *)
WithData(h) == IF h.data THEN <<h, Data>> ELSE <<h>>
Plain(hs) == FlattenSeq([i \in DOMAIN hs |-> WithData(hs[i])])
Locked5(e, hs) ==
  <<e>> \o FlattenSeq([i \in DOMAIN hs |->
             <<Salt("iv")>> \o WithData([hs[i] EXCEPT !.key = KeyOf("p1", e.salt, e.kdf)])])
Locked15(salts, hs) ==
  FlattenSeq([i \in DOMAIN hs |->
    IF hs[i].type = "arc" THEN WithData(hs[i])
    ELSE LET s1 == salts[(i % Len(salts)) + 1]
         IN <<Salt(s1)>> \o WithData([hs[i] EXCEPT !.key = KeyOf("p1", s1, 0)])])

Vol(version, us) == [ver |-> version, units |-> us]
-----------------------------------------------------------------------------
(* RAR 5: two volumes, the second file goes over both.                      *)
Encs == {None} \cup {Enc(s1, k, ch, m) : s1 \in {"s1", "s2"}, k \in {1, 2}, ch \in {None, "p1"}, m \in BOOLEAN}
Files1(e1, e2) == <<Arc(TRUE, TRUE, 0, FALSE), File("a", TRUE, TRUE, e1, "50"), Service,
                    File("b", TRUE, FALSE, e2, "70"), EndBlock(TRUE)>>
Files2(n, e1, e2) == <<Arc(TRUE, TRUE, n, FALSE), File("b", FALSE, TRUE, e2, "stored"), Comment,
                       File("c", TRUE, TRUE, e1, "stored"), EndBlock(FALSE)>>
Volumes5(lock1, lock2, n, e1, e2) ==
  LET us(l, hs) == IF l = None THEN Plain(hs) ELSE Locked5(l, hs)
  IN <<Vol(50, us(lock1, Files1(e1, e2))), Vol(50, us(lock2, Files2(n, e1, e2)))>>
Locks == {None, Encrypt("s1", 1, "p1"), Encrypt("s3", 1, None)}
Sound5 == {Volumes5(l1, l2, n, e1, e2) : l1, l2 \in Locks, n \in {1, -1}, e1, e2 \in Encs}

(* RAR 1.5: with and without end blocks and encrypted headers.              *)
Salts15 == {None} \cup {[known |-> TRUE, salt |-> s1, kdf |-> 0, check |-> None, mac |-> FALSE] : s1 \in {"s1", "s2"}}
Volumes15(locked, ends, e1, e2) ==
  LET us(hs) == IF locked THEN Locked15(<<"s1", "s2", "s3">>, hs) ELSE Plain(hs)
      h1 == <<Arc(TRUE, FALSE, -1, locked), File("a", TRUE, TRUE, e1, "20"), Service, Comment,
              File("b", TRUE, FALSE, e2, "29")>>
      h2 == <<Arc(TRUE, FALSE, -1, locked), File("b", FALSE, TRUE, e2, "29"), File("c", TRUE, TRUE, e1, "29")>>
  IN <<Vol(15, us(h1 \o IF ends THEN <<EndBlock(TRUE)>> ELSE <<>>)),
       Vol(15, us(h2 \o IF ends THEN <<EndBlock(FALSE)>> ELSE <<>>))>>
Sound15 == {Volumes15(l, e, e1, e2) : l, e \in BOOLEAN, e1, e2 \in Salts15}

MCSound == Sound5 \cup Sound15

(* Damage: a volume ends at or within some unit; a header that is wrong; a  *)
(* volume that is missing, in the wrong place or of another format.         *)
CutAt(us, k, within) ==
  IF within THEN [SubSeq(us, 1, k) EXCEPT ![k].cut = TRUE] ELSE SubSeq(us, 1, k - 1)
E1 == Enc("s1", 1, "p1", TRUE)
Samples == {Volumes5(None, Encrypt("s1", 1, "p1"), 1, E1, None), Volumes15(TRUE, TRUE, None, None),
            Volumes15(FALSE, FALSE, None, None), Volumes15(FALSE, TRUE, None, None)}
MCCut == UNION {{[a EXCEPT ![v].units = CutAt(@, k, w)] : k \in 1 .. Len(a[v].units), w \in BOOLEAN} :
                  a \in Samples, v \in 1 .. 2}
Wrong == UNION {{[a EXCEPT ![1].units[k].good = FALSE], [a EXCEPT ![1].units[k].fits = FALSE]} :
                  a \in Samples, k \in {1, 2}}
Other5 == Volumes5(None, None, 1, E1, E1)
MCFaulty ==
  Wrong \cup {<<a[1]>> : a \in Samples} \cup {<<a[1], a[1]>> : a \in Samples} \cup
  { <<Other5[2]>>, <<Other5[1], Volumes15(FALSE, TRUE, None, None)[2]>>,
    <<Vol(50, Plain(<<File("a", TRUE, TRUE, None, "50")>>))>>,
    <<Vol(50, Locked5([Encrypt("s1", 1, None) EXCEPT !.known = FALSE], <<Arc(FALSE, FALSE, -1, FALSE)>>))>>,
    <<Vol(50, Plain(<<Arc(FALSE, FALSE, -1, FALSE), File("a", TRUE, TRUE, None, "unknown")>>))>>,
    <<Vol(50, Plain(<<Arc(FALSE, FALSE, -1, FALSE), File("a", TRUE, TRUE, [E1 EXCEPT !.known = FALSE], "50"), EndBlock(TRUE)>>))>>,
    <<Vol(15, Plain(<<Arc(FALSE, FALSE, -1, FALSE), File("a", TRUE, TRUE, None, "15")>>))>> }

MCArchives == MCSound \cup MCCut \cup MCFaulty
MCPasswords == {None, "p1", "p2"}
-----------------------------------------------------------------------------
AllFiles == SelectSeq(FlattenSeq([v \in DOMAIN vols |-> vols[v].units]),
                      LAMBDA x : x.u = "head" /\ x.type = "file")
HeadersLocked ==
  \E v \in DOMAIN vols : \E k \in DOMAIN vols[v].units : vols[v].units[k].u = "salt"

(* A sound archive is read to its end with the right password, and with    *)
(* any password if its headers are not encrypted: every file block of      *)
(* every volume, in order, though volumes are encrypted with different     *)
(* keys or not at all and other blocks lie between.  What is returned is   *)
(* never anything else (archive15.go, archive50.go: init, nextBlock).      *)
SoundArchiveRead ==
  /\ Len(got) <= Len(AllFiles)
  /\ \A i \in DOMAIN got : /\ got[i].name = AllFiles[i].name
                           /\ got[i].first = AllFiles[i].first /\ got[i].last = AllFiles[i].last
  /\ vols \in MCSound /\ (pass = "p1" \/ ~HeadersLocked) /\ Over =>
       status = "EOF" /\ Len(got) = Len(AllFiles)
=============================================================================
