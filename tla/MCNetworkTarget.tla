-------------------------- MODULE MCNetworkTarget --------------------------
(***************************************************************************)
(* Bounds for model checking NetworkTarget: two threads, two destinations, *)
(* and messages of two units, so that a send can be cut short once.        *)
(* Datagrams are sent in the same steps with both providers, and are tried *)
(* with one.                                                               *)
(***************************************************************************)
EXTENDS NetworkTarget, TLC

CONSTANTS t1, t2, d1, d2

ASSUME ConnectionAssumption == BoundsAssumption

MCThreads == {t1, t2}

MCDestinations == {d1, d2}

Symmetry == Permutations(MCThreads) \cup Permutations(MCDestinations)

ConnectionInit == Init /\ (transport = "udp" => provider = "sys_socket")

ConnectionSpec == ConnectionInit /\ [][Next]_vars
=============================================================================
