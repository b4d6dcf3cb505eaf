----------------------------- MODULE FiveTuple -----------------------------
(***************************************************************************)
(* What parse_pkt makes of a received packet (src/l3enginemux/src/mux/     *)
(* fivetuple.rs).  It is given the first MTU bytes of the packet's buffer, *)
(* whatever the length of the packet: behind a short packet lie the bytes  *)
(* of one that was in the buffer before, and they are parsed as headers    *)
(* all the same.                                                           *)
(*                                                                         *)
(* A frame is what etherparse finds in those bytes: the headers, "bad" for *)
(* one it rejects, "none" where the header before announces no other; and  *)
(* whether all of the headers are the packet's own.                        *)
(***************************************************************************)
EXTENDS Naturals, Sequences

Addr == {"local", "other"}   \* the addresses of LocalIPMac, and others

Frame ==
  {f \in [own: BOOLEAN, dst_mac: Addr, dst_ip: Addr,
          ip: {"v4", "v6", "none", "bad"},
          transport: {"tcp", "udp", "none", "bad"}] :
     /\ f.ip \in {"none", "bad"} => f.transport = "none"
     /\ f.ip # "v4" => f.dst_ip = "other"}

\* The first of the checks that fires decides, and "Ok" if none does.  A
\* check is a condition and the result it leads to.
Verdict(checks) ==
  LET fires == {i \in 1 .. Len(checks) : checks[i][1]} IN
  IF fires = {} THEN "Ok"
  ELSE checks[CHOOSE i \in fires : \A j \in fires : i <= j][2]

\* SlicedPacket::from_ethernet fails.
ReadError(f) == f.ip = "bad" \/ f.transport = "bad"

\* Mutant: the destination's MAC is not compared.
ChecksNoMac(f) ==
  << <<ReadError(f), "ReadError">>,
     <<f.ip = "none", "InvalidIP">>,
     <<f.transport = "none", "InvalidTransport">>,
     <<f.ip = "v6", "NoIPv6">>,
     <<f.transport = "udp", "NoUDP">>,
     <<f.dst_ip # "local", "WrongIP">> >>

\* The early returns of FiveTuple::parse_pkt in turn.
Checks(f) ==
  << <<ReadError(f), "ReadError">>,
     <<f.ip = "none", "InvalidIP">>,
     <<f.transport = "none", "InvalidTransport">>,
     <<f.ip = "v6", "NoIPv6">>,
     <<f.transport = "udp", "NoUDP">>,
     <<f.dst_ip # "local", "WrongIP">>,
     <<f.dst_mac # "local", "WrongMAC">> >>

ParsePkt(f) == Verdict(Checks(f))

\* The packets this host is there for.
ForUs(f) ==
  [ip |-> f.ip, transport |-> f.transport, dst_ip |-> f.dst_ip, dst_mac |-> f.dst_mac]
    = [ip |-> "v4", transport |-> "tcp", dst_ip |-> "local", dst_mac |-> "local"]
=============================================================================
