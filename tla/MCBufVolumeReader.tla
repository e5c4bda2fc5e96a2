-------------------------- MODULE MCBufVolumeReader --------------------------
(* Small volumes for BufVolumeReader.  Bytes: 0 is the zero byte, 1 stands  *)
(* for a version or any other byte, 2 and 3 for the signature's prefix.     *)
EXTENDS BufVolumeReader

MCSigPrefix == <<2, 3>>

(* A RAR 5 volume behind a one byte stub, and a RAR 1.5 volume. *)
MCSeekableFiles == {<<1, 2, 3, 1, 0, 4, 5, 6, 7>>, <<2, 3, 0, 8, 9>>}

(* Those, the same kind of volumes on sources that cannot seek, and files   *)
(* that are hard to search: the start of a prefix in front of the signature *)
(* and in every place of the buffer, a prefix with a wrong version, a       *)
(* signature at and behind the limit, one that is cut off, and none.        *)
MCFiles ==
  MCSeekableFiles \cup
  { <<1, 2, 3, 1, 0, 4, 5, 6>>, <<2, 2, 3, 0, 4>>, <<2, 1, 2, 3, 0, 4>>,
    <<2, 3, 2, 3, 0, 4>>, <<2, 3, 1, 1, 2, 3, 0, 4>>, <<1, 1, 1, 2, 3, 0, 4>>,
    <<2, 3, 1, 2, 3, 1, 0, 4>>, <<2, 2, 2, 2, 3, 1, 0>>,
    <<1, 1, 1, 1, 1, 1, 1, 2, 3, 0>>, <<1, 1, 2, 3, 0>>, <<1, 2>>, <<>> }
=============================================================================
