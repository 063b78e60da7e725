---------------------------- MODULE MCOpenCyphal ----------------------------
(***************************************************************************)
(* Instances of OpenCyphal for TLC.  Rank 1 is the rank of the services    *)
(* (CanardPriorityImmediate), ranks 0 and 2 of messages more and less      *)
(* urgent.                                                                 *)
(***************************************************************************)
EXTENDS OpenCyphal

MCRanks == {0, 1, 2}
MCMessageRanks == {0, 2}

=============================================================================
