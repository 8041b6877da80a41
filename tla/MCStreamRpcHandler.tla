------------------------ MODULE MCStreamRpcHandler ------------------------
(***************************************************************************)
(* Small instances of StreamRpcHandler for TLC.                            *)
(***************************************************************************)
EXTENDS StreamRpcHandler, TLC

Writes         == {"write"}
WritesFinishes == {"write", "finish"}
Both           == {"connect", "delete"}

\* Sound for the safety runs only: TLC does not check liveness under symmetry.
Symmetry == Permutations(Calls) \cup Permutations(Addrs) \cup Permutations(Writers)
=============================================================================
