-------------------------- MODULE MCDeviceRegistry --------------------------
(* Small instances of CppWrapper and of the DeviceRegistry it extends.     *)
EXTENDS CppWrapper, TLC

\* Two threads and devs devices on Windows, n calls, memory that suffices.
Racing(devs, n) ==
  {[win32 |-> TRUE, threads |-> Threads, atomic |-> FALSE,
    allocFails |-> FALSE, devices |-> D, bound |-> n] : D \in kSubset(devs, Addresses)}

\* One thread on either system, all devices, failing allocations.
Alone(n) ==
  {[win32 |-> w, threads |-> {t}, atomic |-> FALSE,
    allocFails |-> TRUE, devices |-> Addresses, bound |-> n] :
      w \in BOOLEAN, t \in Threads}

RegistrySetups == Alone(3) \cup Racing(2, 3)

\* Linux, with counts that are never torn.
UnlinkSetups ==
  {[s EXCEPT !.win32 = FALSE, !.atomic = TRUE] : s \in Racing(2, 3)}

Symmetry ==
  Permutations(Threads) \cup Permutations(Addresses) \cup Permutations(Objects)
    \cup Permutations(Variables)
=============================================================================
