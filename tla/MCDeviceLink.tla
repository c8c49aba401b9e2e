---------------------------- MODULE MCDeviceLink ----------------------------
(* DeviceLink for TLC.  Sockets are interchangeable. *)
EXTENDS DeviceLink, TLC
SocketSymmetry == Permutations(Sockets)
=============================================================================
