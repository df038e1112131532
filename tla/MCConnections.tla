---------------------------- MODULE MCConnections ----------------------------
(* Two addresses and bytes of four values: two packets, which fit into the    *)
(* buffer together, and a third that begins; and a stream for each way a      *)
(* stream can be refused.                                                     *)
EXTENDS Connections

Ping == <<1, 2, 2, 0, 1, 0>>

Add  == <<1, 2, 3, 0, 3, 0, 2>>   \* with a body of one byte

MCStreams ==
  {Ping \o Add \o <<1>>,
   Ping \o <<2, 1, 0, 0>>,         \* a wrong prefix
   <<1, 2, 1, 0, 1>>,              \* no room for a command
   <<1, 2, 2, 0, 1, 1>>,           \* an unknown command
   <<1, 2, 2, 2, 1, 0, 0, 0, 0, 0, 0, 0, 0, 0>>}  \* larger than the buffer

=============================================================================
