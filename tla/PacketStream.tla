----------------------------- MODULE PacketStream -----------------------------
(***************************************************************************)
(* What the receiving side of a connection promises, without chunks and    *)
(* buffers: the bytes that arrive form one stream, its packets are taken   *)
(* one after the other, and the stream is refused only for a cause.        *)
(* Connections implements it for every connection.                         *)
(***************************************************************************)
EXTENDS Codec

CONSTANTS Commands, AddReq, Room, NoPacket

VARIABLES
  stream,   \* all bytes since the connection was accepted
  cursor,   \* how many of them belong to packets that were taken
  packet,   \* the packet taken last
  refused   \* no further packet will be taken

streamVars == <<stream, cursor, packet, refused>>

Init == stream = << >> /\ cursor = 0 /\ packet = NoPacket /\ refused = FALSE

Unread == SubSeq(stream, cursor + 1, Len(stream))

Grows == Len(stream') >= Len(stream) /\ SubSeq(stream', 1, Len(stream)) = stream

Arrive ==
  /\ ~refused
  /\ Grows
  /\ UNCHANGED <<cursor, packet, refused>>

\* The bytes at the cursor are the packet that is taken.
Take ==
  /\ ~refused
  /\ cursor' > cursor /\ cursor' <= Len(stream)
  /\ Frames(SubSeq(stream, cursor + 1, cursor'), packet')
  /\ packet'.cmd \in Commands
  /\ UNCHANGED <<stream, refused>>

\* No packet the server knows begins at the cursor.
Malformed ==
  /\ Len(Unread) >= SizedLen
  /\ \/ SubSeq(Unread, 1, 2) # <<PrefixT, PrefixC>>
     \/ Word(Unread[3], Unread[4]) < CmdLen
     \/ Len(Unread) >= HeadLen /\ Word(Unread[5], Unread[6]) \notin Commands

\* The answer of an addition, the packet at the cursor, could not be sent.
Unanswered ==
  /\ Len(Unread) >= HeadLen
  /\ Word(Unread[5], Unread[6]) = AddReq

Refuse ==
  /\ ~refused /\ refused'
  /\ Grows
  /\ Malformed \/ Unanswered \/ Len(stream') - cursor > Room
  /\ UNCHANGED <<cursor, packet>>

\* Another connection at the same address begins with an empty stream.
Restart == stream' = << >> /\ cursor' = 0 /\ packet' = NoPacket /\ ~refused'

Next == Arrive \/ Take \/ Refuse \/ Restart

Spec == Init /\ [][Next]_streamVars

=============================================================================
