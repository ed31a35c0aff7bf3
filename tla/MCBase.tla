-------------------------------- MODULE MCBase --------------------------------
(***************************************************************************)
(* Shorthands for the instances: radios, hellos, data and coded frames.    *)
(***************************************************************************)
EXTENDS IPCopeProtocol

Radio(ip, mac, channel) == [ip |-> ip, mac |-> mac, channel |-> channel]

To(mac, pid) == [mac |-> mac, pid |-> pid]
AckOf(ip, pid) == [ip |-> ip, pid |-> pid]

\* from's radio d says hello.
Hello(from, d) ==
  [hello |-> TRUE, from |-> from, src |-> RadiosOf[from][d].mac, dest |-> Broadcast,
   natives |-> {}, payload |-> {}, reports |-> {}, acks |-> <<>>]

\* from's radio d sends the natives to MAC dest.
Data(from, d, dest, natives, reports, acks) ==
  [hello |-> FALSE, from |-> from, src |-> RadiosOf[from][d].mac, dest |-> dest,
   natives |-> natives, payload |-> {x.pid : x \in natives},
   reports |-> reports, acks |-> acks]

On(d, f) == [radio |-> d, frame |-> f]
===============================================================================
