--------------------------- MODULE MCRemoteWrite ---------------------------
(* Instances of RemoteWrite for TLC: the configurations give the constants. *)
EXTENDS RemoteWrite
=============================================================================
