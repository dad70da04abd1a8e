---------------------------- MODULE MCUsbfsLoop ----------------------------
(* Small instances of UsbfsLoop for TLC.                                   *)
EXTENDS UsbfsLoop, TLC

CONSTANTS x1, x2, fd1, fd2

\* Two transfers on two devices, or both on one.
TwoDevices == (x1 :> fd1) @@ (x2 :> fd2)
OneDevice == (x1 :> fd1) @@ (x2 :> fd1)
OneTransfer == (x1 :> fd1)

ThreadSymmetry == Permutations(Threads)

\* The two transfers of TwoDevices can be exchanged with their devices.
Symmetry ==
  ThreadSymmetry \cup {(x1 :> x2) @@ (x2 :> x1) @@ (fd1 :> fd2) @@ (fd2 :> fd1)}
=============================================================================
