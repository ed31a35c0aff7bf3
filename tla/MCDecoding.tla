------------------------------ MODULE MCDecoding ------------------------------
(***************************************************************************)
(* Bytes of two bits and words of two bytes.  Packets have bodies of one   *)
(* to three bytes, the sender's copies the TTL 2.                          *)
(***************************************************************************)
EXTENDS IPCopeDecoding, Bitwise

MCByte == 0..3

MCXor(a, b) == a ^^ b

Sent(body) == <<2, Len(body)>> \o body

\* No body ends in a zero byte; two end alike.
MCPacket == {Sent(<<1>>), Sent(<<2, 1>>), Sent(<<0, 3>>), Sent(<<1, 2, 3>>), Sent(<<0, 0, 1>>)}

\* Bodies that end in zero bytes, as those of packets of a given size do.
MCPadded == {Sent(<<1>>), Sent(<<2, 1>>), Sent(<<1, 0>>), Sent(<<3, 0, 0>>)}

MCRadios ==
  <<[ip |-> 11, mac |-> 1, channel |-> 1], [ip |-> 12, mac |-> 2, channel |-> 6]>>

MCWaiting ==
  {[recps |-> <<>>, acks |-> <<>>],
   [recps |-> <<41, 42, 41>>, acks |-> <<>>],
   [recps |-> <<42>>, acks |-> <<[ip |-> 21, pid |-> 42], [ip |-> 31, pid |-> 42]>>]}
===============================================================================
