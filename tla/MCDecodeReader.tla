--------------------------- MODULE MCDecodeReader ---------------------------
(* Archives for DecodeReader, and the bounds that each is decoded with. *)
EXTENDS DecodeReader

(* A file with filters: one more than fit into the queue, and more data    *)
(* than fits into the window.                                              *)
Filtered == [solid |-> FALSE, sizes |-> {3}, versions |-> {29}, features |-> {},
             bytes |-> 5, filters |-> 3, files |-> 1]

(* Solid files whose windows grow, with one decoder and with two. *)
Solid == [solid |-> TRUE, sizes |-> {3, 5}, versions |-> {29, 50}, features |-> {},
          bytes |-> 5, filters |-> 0, files |-> 2]

(* Streams that announce filters late or far ahead. *)
Odd == [solid |-> FALSE, sizes |-> {3}, versions |-> {29}, features |-> {"late", "far"},
        bytes |-> 4, filters |-> 2, files |-> 1]

MCArchives == {Filtered, Solid, Odd}
=============================================================================
