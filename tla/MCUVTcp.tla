------------------------------ MODULE MCUVTcp ------------------------------
(* Instances of UVTcp for TLC: one server with connections that come, go   *)
(* and take over an id, or three servers of which one fails to start and   *)
(* others take over its id; one connection with two writes.                *)
EXTENDS UVTcp, TLC

CONSTANTS s1, s2, s3, c1, c2, w1, w2

MCIds == 0..2

Symmetry == Permutations(Servers) \cup Permutations(Conns)
            \cup Permutations(Writes)

(* Bound: several servers, or several connections with ids 0 and 1 that    *)
(* two calls of read, write and close act on, beside those of deinit.      *)
Started == {s \in Servers : hnd[s] # "none"
                            \/ [op |-> "listen", of |-> s] \in Queued}
Written == {w \in Writes : \/ sentTo[w] # None \/ w \in dropped
                           \/ \E cmd \in Queued : cmd.op = "write" /\ cmd.w = w}
Come == {c \in Conns : hnd[c] # "none"}
ServersOrConns ==
  \/ /\ Cardinality(Started) <= 1
     /\ \A h \in Handles : id[h] # 2
     /\ calls + Cardinality(Written) <= 2
  \/ /\ Cardinality(Come) <= 1
     /\ calls = 0 /\ Written = {}
  \/ /\ Cardinality(Started) <= 1 /\ Cardinality(Come) <= 1
     /\ calls <= 1
=============================================================================
