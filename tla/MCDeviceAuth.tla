-------------------------- MODULE MCDeviceAuth --------------------------
EXTENDS DeviceAuth, TLC

CONSTANTS p1, p2

TwoProcs == {p1, p2}
Symmetry == Permutations(TwoProcs)
=============================================================================
