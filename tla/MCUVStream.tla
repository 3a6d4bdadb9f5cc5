----------------------------- MODULE MCUVStream -----------------------------
(* Instance of UVStream for TLC: two requests of two bytes, so that a      *)
(* write may take a part; bursts of one write and of two reads.  The other *)
(* side takes part.                                                        *)
EXTENDS UVStream

CONSTANTS w1, w2
=============================================================================
