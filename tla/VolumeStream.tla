---------------------------- MODULE VolumeStream ----------------------------
(***************************************************************************)
(* What the rest of the package relies on when it reads a volume file: a   *)
(* cursor over the file's bytes.  Whatever is handed out is the file's own *)
(* content at the cursor, the cursor then stands right behind it, and the  *)
(* end of the file is reported only when the cursor is there.  Buffering,  *)
(* seeking inside the buffer and the search for the signature are not      *)
(* visible here; BufVolumeReader shows that they keep this promise.        *)
(***************************************************************************)
EXTENDS Integers, Sequences

CONSTANTS
  Files,       \* the contents a volume file may have
  Errors       \* the errors a call may return, "nil" and "EOF" among them

VARIABLES
  file,        \* content of the volume being read
  pos,         \* cursor: number of bytes in front of it
  got,         \* bytes the last step handed out, and their offset
  ret          \* error returned by the last call

vars == <<file, pos, got, ret>>

Nothing == [at |-> 0, data |-> <<>>]

Init ==
  /\ file \in Files
  /\ pos = 0
  /\ got = Nothing
  /\ ret = "nil"

(* Another volume file takes the place of the current one. *)
Open ==
  /\ file' \in Files
  /\ pos' = 0
  /\ ret' = "nil"
  /\ got' = Nothing

(* Bytes are handed out: the ones at the cursor, and no others. *)
Deliver ==
  /\ pos' \in pos .. Len(file)
  /\ got' = [at |-> pos, data |-> SubSeq(file, pos + 1, pos')]
  /\ ret' = "nil"
  /\ UNCHANGED file

(* The cursor moves, or a call fails.  The end of the file is reported     *)
(* only from behind its last byte.                                         *)
Move ==
  /\ pos' \in Nat
  /\ ret' \in Errors
  /\ ret' = "EOF" => pos' >= Len(file)
  /\ got' = Nothing
  /\ UNCHANGED file

Next == Open \/ Deliver \/ Move

Spec == Init /\ [][Next]_vars
=============================================================================
