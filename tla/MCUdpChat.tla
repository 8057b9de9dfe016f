----------------------------- MODULE MCUdpChat -----------------------------
(* The clients are alike.                                                    *)
EXTENDS UdpChat

Alike == Permutations(Clients)
=============================================================================
