----------------------------- MODULE MCISRRing ------------------------------
(***************************************************************************)
(* A ring of four bytes whose indices wrap at eight.                       *)
(***************************************************************************)
EXTENDS ISRRingBuffer

SmallChunks == {<<0>>, <<1>>, <<0, 1>>, <<1, 0, 0>>, <<0, 1, 1, 0, 1>>}
=============================================================================
