------------------------------ MODULE MCIpfsRpc -----------------------------
(* Small instances of IpfsRpc for TLC.                                     *)
EXTENDS IpfsRpc

\* One node of each kind: both families, IPv4 only, IPv6 only.
ThreeKinds == [n \in 0..N-1 |-> CASE n % 3 = 0 -> {"ipv4", "ipv6"}
                                  [] n % 3 = 1 -> {"ipv4"}
                                  [] n % 3 = 2 -> {"ipv6"}]
=============================================================================
