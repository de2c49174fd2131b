-------------------------- MODULE MCPeerScheduler --------------------------
(* Small instances of PeerScheduler for TLC. *)
EXTENDS PeerScheduler

Dynamic(n, c) ==
  [servers |-> n, conc |-> c, static |-> FALSE, synchLocal |-> FALSE,
   evalStatic |-> FALSE]
Static(n, c) == [Dynamic(n, c) EXCEPT !.static = TRUE]

(* Three peers that run one job each, and two that run two. *)
Supported ==
  {Dynamic(3, 1), Dynamic(2, 2),
   [Static(3, 1) EXCEPT !.synchLocal = TRUE],
   [Static(2, 2) EXCEPT !.evalStatic = TRUE]}

(* Hybrid parallelism under the static schedule with several other peers. *)
HybridStatic == {Static(3, 2)}
=============================================================================
