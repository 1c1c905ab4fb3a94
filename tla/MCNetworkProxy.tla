--------------------------- MODULE MCNetworkProxy ---------------------------
(***************************************************************************)
(* The HTTP host and the FTP host that can follow it.                      *)
(***************************************************************************)
EXTENDS NetworkProxy

CONSTANTS http, ftp

Hosts == {http, ftp}
FollowsHost == [f \in {ftp} |-> http]
=============================================================================
