-------------------------------- MODULE MCLease --------------------------------
(* Lease with two addresses, one gateway, two name servers. *)
EXTENDS Lease

CONSTANTS a1, a2, g1, n1, n2

\* The same address with and without a gateway and with another name server,
\* another address, and an ACK that names no DNS server.
MCOffers ==
  [addr : {a1}, gw : {g1}, dns : {n1, n2, NoDns}]
    \cup [addr : {a1}, gw : {NoGateway}, dns : {n1}]
    \cup [addr : {a2}, gw : {g1}, dns : {n1}]

===============================================================================
