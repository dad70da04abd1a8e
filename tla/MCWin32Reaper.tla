--------------------------- MODULE MCWin32Reaper ---------------------------
(* Small instances of Win32Reaper for TLC.                                 *)
EXTENDS Win32Reaper, TLC

\* All transfers on one endpoint.
OneEndpoint == [tr \in Transfers |-> 1]

ThreadSymmetry == Permutations(Threads)
Symmetry == Permutations(Threads) \cup Permutations(Transfers)
=============================================================================
