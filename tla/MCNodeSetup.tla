---------------------------- MODULE MCNodeSetup -----------------------------
(***************************************************************************)
(* Instances of NodeSetup for TLC.  The draws are those of libstdc++:      *)
(* default_random_engine is minstd_rand0, seeded with 1, and its numbers   *)
(* are scaled to 0..125 (NodeFactory.cpp:29-32).                           *)
(***************************************************************************)
EXTENDS NodeSetup

SomeDraws == <<0, 16, 95>>

NoneGiven == {<<>>}
FirstDrawGiven == {<<0>>}

=============================================================================
