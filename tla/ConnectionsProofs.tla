-------------------------- MODULE ConnectionsProofs --------------------------
(***************************************************************************)
(* The receiving side for every number of byte values, every buffer size   *)
(* and every stream: the packets handled are those of the byte stream,     *)
(* whatever the chunks; handles and buffers keep in step.                  *)
(***************************************************************************)
EXTENDS Connections, CodecProofs

-----------------------------------------------------------------------------
(* The invariant.                                                          *)

\* OnRecv works only for a connection it has not refused, whose handle is
\* allocated; a refused one is not read any more.
WorksOnHandle ==
  /\ running # NoClient => handle[running] # "free" /\ ~refused[running]
  /\ \A c \in Clients : refused[c] => handle[c] # "open"

\* No more is handled than arrived.
HandledArrived == \A c \in Clients : cursor[c] <= Len(arrived[c])

\* A buffer OnRecv has left holds no complete packet.
BuffersWait ==
  \A c \in Clients :
    running # c /\ handle[c] = "open" => CheckPack(peer[c]) = 0

ConnInv ==
  /\ TypeOK
  /\ ClosedOnce
  /\ WorksOnHandle
  /\ HandledArrived
  /\ BufferHoldsUnread
  /\ BuffersWait

\* No connection, no buffer.
LEMMA InitConn == Init => ConnInv
<1> SUFFICES ASSUME Init PROVE ConnInv
  OBVIOUS
<1>1. << >> \in Seq(Byte) /\ Len(<< >>) = 0
  OBVIOUS
<1>2. TypeOK
  BY <1>1, ConnectionsAssumption DEF Init, All, TypeOK
<1> QED
  BY <1>1, <1>2
  DEF Init, All, ConnInv, ClosedOnce, WorksOnHandle,
      HandledArrived, BufferHoldsUnread, BuffersWait

\* A handle that is not free has a buffer.
LEMMA BufferType ==
  ASSUME ConnInv, NEW c \in Clients, handle[c] # "free", ~refused[c]
  PROVE  /\ peer[c] \in Seq(Byte)
         /\ peer[c] = Rest(arrived[c], cursor[c])
         /\ Len(peer[c]) <= BufferSize
<1>1. peer[c] = Rest(arrived[c], cursor[c])
  BY DEF ConnInv, BufferHoldsUnread, Rest
<1>2. /\ arrived[c] \in Seq(Byte)
      /\ cursor[c] \in 0 .. Len(arrived[c])
  BY DEF ConnInv, TypeOK, HandledArrived
<1>3. peer[c] \in Seq(Byte)
  BY <1>1, <1>2, RestType
<1>4. peer[c] # NoPeer
  BY <1>3, ConnectionsAssumption
<1> QED
  BY <1>1, <1>3, <1>4 DEF ConnInv, TypeOK

\* A connection is accepted where no entry is left.
LEMMA AcceptConn ==
  ASSUME ConnInv, NEW c \in Clients, Accept(c)
  PROVE  ConnInv'
<1>1. << >> \in Seq(Byte) /\ Len(<< >>) = 0 /\ SubSeq(<< >>, 1, 0) = << >>
  OBVIOUS
<1>2. peer[c] = NoPeer /\ peer' = [peer EXCEPT ![c] = << >>]
  BY DEF Accept, ConnInv, BufferHoldsUnread
<1>3. TypeOK'
  BY <1>1, <1>2, ConnectionsAssumption DEF Accept, ConnInv, TypeOK
<1>4. ClosedOnce'
  BY DEF Accept, ConnInv, TypeOK, ClosedOnce
<1>5. WorksOnHandle' /\ HandledArrived'
  BY <1>1 DEF Accept, ConnInv, TypeOK, WorksOnHandle, HandledArrived
<1>6. BufferHoldsUnread'
  BY <1>1, <1>2 DEF Accept, ConnInv, TypeOK, BufferHoldsUnread
<1>7. BuffersWait'
  <2>1. CheckPack(<< >>) = 0
    BY <1>1 DEF CheckPack, SizedLen
  <2> QED
    BY <1>2, <2>1 DEF Accept, ConnInv, TypeOK, BuffersWait
<1> QED
  BY <1>3, <1>4, <1>5, <1>6, <1>7 DEF ConnInv

\* OnRecv refuses the stream, and whoever closed the handle, it is closed once.
LEMMA RefusedHandles ==
  ASSUME ConnInv, NEW c \in Clients, handle[c] # "free",
         NEW calls \in 0 .. 1, calls = 1 => handle[c] # "closing",
         Refused(c, calls)
  PROVE  /\ handle' = [handle EXCEPT ![c] = "closing"]
         /\ closes' = [closes EXCEPT ![c] = 1]
         /\ refused' = [refused EXCEPT ![c] = TRUE]
         /\ running' = NoClient
<1>1. closes[c] = IF handle[c] = "closing" THEN 1 ELSE 0
  BY DEF ConnInv, ClosedOnce
<1>2. handle[c] \in {"open", "closing"} /\ handle \in [Clients -> {"free", "open", "closing"}]
  BY DEF ConnInv, TypeOK
<1>3. CASE handle[c] = "closing"
  <2>1. calls = 0
    BY <1>3
  <2>2. handle' = handle /\ closes' = [closes EXCEPT ![c] = @ + 0]
    BY <1>3, <2>1 DEF Refused, UvClose
  <2> QED
    BY <1>1, <1>2, <1>3, <2>2 DEF Refused
<1>4. CASE handle[c] = "open"
  <2>1. UvClose(c, 1)
    BY <1>4 DEF Refused
  <2>2. closes[c] + 1 = 1
    BY <1>1, <1>4
  <2>3. handle' = [handle EXCEPT ![c] = "closing"]
    BY <2>1 DEF UvClose
  <2>4. closes' = [closes EXCEPT ![c] = closes[c] + 1]
    BY <2>1 DEF UvClose
  <2>5. refused' = [refused EXCEPT ![c] = TRUE] /\ running' = NoClient
    BY DEF Refused
  <2> QED
    BY <2>2, <2>3, <2>4, <2>5
<1> QED
  BY <1>2, <1>3, <1>4

\* What remains to be shown when a stream is refused.
LEMMA RefusedConn ==
  ASSUME ConnInv, NEW c \in Clients,
         handle' = [handle EXCEPT ![c] = "closing"],
         closes' = [closes EXCEPT ![c] = 1],
         refused' = [refused EXCEPT ![c] = TRUE],
         running' = NoClient, running \in {c, NoClient},
         handle[c] # "free",
         peer' = peer, pending' = pending, cursor' = cursor, packet' = packet,
         NEW t \in Seq(Byte), arrived' = [arrived EXCEPT ![c] = @ \o t]
  PROVE  ConnInv'
<1>1. /\ arrived[c] \o t \in Seq(Byte)
      /\ Len(arrived[c] \o t) = Len(arrived[c]) + Len(t)
  BY ConcatProperties DEF ConnInv, TypeOK
<1>2. TypeOK'
  BY <1>1 DEF ConnInv, TypeOK
<1>3. ClosedOnce'
  BY DEF ConnInv, TypeOK, ClosedOnce
<1>4. WorksOnHandle'
  BY DEF ConnInv, TypeOK, WorksOnHandle
<1>5. HandledArrived'
  BY <1>1 DEF ConnInv, TypeOK, HandledArrived
<1>6. BufferHoldsUnread'
  BY DEF ConnInv, TypeOK, BufferHoldsUnread
<1>7. BuffersWait'
  BY DEF ConnInv, TypeOK, BuffersWait
<1> QED
  BY <1>2, <1>3, <1>4, <1>5, <1>6, <1>7 DEF ConnInv

\* A chunk is appended to the buffer, or refused.
LEMMA OnReadConn ==
  ASSUME ConnInv, NEW c \in Clients, NEW chunk \in Seq(Byte), OnRead(c, chunk)
  PROVE  ConnInv'
<1>1. running = NoClient /\ handle[c] = "open" /\ ~refused[c]
  BY DEF OnRead, ConnInv, WorksOnHandle
<1>2. /\ peer[c] \in Seq(Byte)
      /\ peer[c] = Rest(arrived[c], cursor[c])
  BY <1>1, BufferType
<1>3. CASE ~Fits(c, chunk)
  <2>1. Refused(c, 0) /\ peer' = peer
    BY <1>3 DEF OnRead
  <2>2. /\ handle' = [handle EXCEPT ![c] = "closing"]
        /\ closes' = [closes EXCEPT ![c] = 1]
        /\ refused' = [refused EXCEPT ![c] = TRUE]
        /\ running' = NoClient
    BY <1>1, <2>1, RefusedHandles
  <2>3. /\ arrived' = [arrived EXCEPT ![c] = @ \o chunk]
        /\ pending' = pending /\ cursor' = cursor /\ packet' = packet
    BY DEF OnRead
  <2> QED
    BY <1>1, <2>1, <2>2, <2>3, RefusedConn
<1>4. CASE Fits(c, chunk)
  <2>1. /\ peer' = [peer EXCEPT ![c] = @ \o chunk]
        /\ arrived' = [arrived EXCEPT ![c] = @ \o chunk]
        /\ running' = c
        /\ UNCHANGED <<handle, closes, refused, pending, cursor, packet>>
    BY <1>3, <1>4 DEF OnRead
  <2>2. /\ arrived[c] \in Seq(Byte) /\ cursor[c] \in 0 .. Len(arrived[c])
    BY DEF ConnInv, TypeOK, HandledArrived
  <2>3. /\ peer[c] \o chunk \in Seq(Byte)
        /\ Len(peer[c] \o chunk) = Len(peer[c]) + Len(chunk)
    BY <1>2, ConcatProperties
  <2>4. /\ arrived[c] \o chunk \in Seq(Byte)
        /\ Len(arrived[c] \o chunk) = Len(arrived[c]) + Len(chunk)
    BY <2>2, ConcatProperties
  <2>5. Len(peer[c] \o chunk) <= BufferSize
    BY <1>2, <1>4, <2>3, ConnectionsAssumption DEF Fits
  <2>6. TypeOK'
    BY <2>1, <2>3, <2>4, <2>5 DEF ConnInv, TypeOK
  <2>7. ClosedOnce'
    BY <2>1 DEF ConnInv, ClosedOnce
  <2>8. WorksOnHandle'
    BY <1>1, <2>1 DEF ConnInv, WorksOnHandle
  <2>9. HandledArrived'
    BY <2>1, <2>4 DEF ConnInv, TypeOK, HandledArrived
  <2>10. BufferHoldsUnread'
    <3>1. peer[c] \o chunk = Rest(arrived[c] \o chunk, cursor[c])
      BY <1>2, <2>2, RestGrows
    <3>2. peer'[c] = SubSeq(arrived'[c], cursor'[c] + 1, Len(arrived'[c]))
      BY <2>1, <3>1 DEF ConnInv, TypeOK, Rest
    <3> QED
      BY <1>1, <2>1, <3>2 DEF ConnInv, TypeOK, BufferHoldsUnread
  <2>11. BuffersWait'
    <3> SUFFICES ASSUME NEW d \in Clients, running' # d, handle'[d] = "open"
                 PROVE  CheckPack(peer'[d]) = 0
      BY DEF BuffersWait
    <3>1. d # c /\ peer'[d] = peer[d] /\ handle[d] = "open" /\ running # d
      BY <1>1, <2>1, ConnectionsAssumption DEF ConnInv, TypeOK
    <3> QED
      BY <3>1 DEF ConnInv, BuffersWait
  <2> QED
    BY <2>6, <2>7, <2>8, <2>9, <2>10, <2>11 DEF ConnInv
<1> QED
  BY <1>3, <1>4

\* The peer has closed, or the connection broke.
LEMMA OnReadEndConn ==
  ASSUME ConnInv, NEW c \in Clients, OnReadEnd(c)
  PROVE  ConnInv'
<1>1. /\ handle' = [handle EXCEPT ![c] = "closing"]
      /\ closes' = [closes EXCEPT ![c] = 1]
      /\ UNCHANGED <<peer, running, pending, ghosts>>
  <2>1. closes[c] + 1 = 1
    BY DEF OnReadEnd, ConnInv, ClosedOnce
  <2>2. closes' = [closes EXCEPT ![c] = closes[c] + 1]
    BY DEF OnReadEnd, UvClose
  <2>3. /\ handle' = [handle EXCEPT ![c] = "closing"]
        /\ UNCHANGED <<peer, running, pending, ghosts>>
    BY DEF OnReadEnd, UvClose
  <2> QED
    BY <2>1, <2>2, <2>3
<1>2. TypeOK'
  BY <1>1 DEF ConnInv, TypeOK, ghosts
<1>3. ClosedOnce'
  BY <1>1 DEF ConnInv, TypeOK, ClosedOnce
<1>4. WorksOnHandle' /\ HandledArrived'
  BY <1>1 DEF OnReadEnd, ConnInv, TypeOK, WorksOnHandle, HandledArrived, ghosts
<1>5. BufferHoldsUnread' /\ BuffersWait'
  BY <1>1 DEF OnReadEnd, ConnInv, TypeOK, BufferHoldsUnread, BuffersWait, ghosts
<1> QED
  BY <1>2, <1>3, <1>4, <1>5 DEF ConnInv

\* The connection OnRecv works for.
LEMMA RunningConn ==
  ASSUME ConnInv, NEW c \in Clients, running = c
  PROVE  /\ handle[c] # "free" /\ ~refused[c]
         /\ peer[c] \in Seq(Byte)
         /\ peer[c] = Rest(arrived[c], cursor[c])
         /\ Len(peer[c]) <= BufferSize
         /\ arrived[c] \in Seq(Byte)
         /\ cursor[c] \in 0 .. Len(arrived[c])
         /\ Len(peer[c]) = Len(arrived[c]) - cursor[c]
<1>1. handle[c] # "free" /\ ~refused[c]
  BY ConnectionsAssumption DEF ConnInv, WorksOnHandle
<1>2. arrived[c] \in Seq(Byte) /\ cursor[c] \in 0 .. Len(arrived[c])
  BY DEF ConnInv, TypeOK, HandledArrived
<1> QED
  BY <1>1, <1>2, BufferType, RestType

\* The packet that is handled.
LEMMA KnownPacket ==
  ASSUME ConnInv, NEW c \in Clients, running = c, Known(c)
  PROVE  /\ Size(c) \in 1 .. Len(peer[c])
         /\ Decoded(c) \in [cmd: Commands, body: Seq(Byte)]
         /\ Frames(SubSeq(arrived[c], cursor[c] + 1, cursor[c] + Size(c)), Decoded(c))
         /\ SubSeq(peer[c], Size(c) + 1, Len(peer[c])) = Rest(arrived[c], cursor[c] + Size(c))
<1>1. /\ peer[c] \in Seq(Byte)
      /\ peer[c] = Rest(arrived[c], cursor[c])
      /\ arrived[c] \in Seq(Byte)
      /\ cursor[c] \in 0 .. Len(arrived[c])
      /\ Len(peer[c]) = Len(arrived[c]) - cursor[c]
  BY RunningConn
<1>2. Size(c) \in 1 .. Len(peer[c])
  BY <1>1, CheckPackCases DEF Known, Size, SizedLen
<1>3. /\ Frames(SubSeq(peer[c], 1, Size(c)), Decoded(c))
      /\ Decoded(c).body \in Seq(Byte)
  BY <1>1, PacketFrames DEF Known, Size, Decoded
<1>4. Size(c) \in 0 .. Len(arrived[c]) - cursor[c]
  BY <1>1, <1>2
<1>5. SubSeq(peer[c], 1, Size(c)) = SubSeq(arrived[c], cursor[c] + 1, cursor[c] + Size(c))
  BY <1>1, <1>4, RestBegins
<1>6. Rest(peer[c], Size(c)) = Rest(arrived[c], cursor[c] + Size(c))
  BY <1>1, <1>4, RestOfRest
<1>7. Decoded(c) \in [cmd: Commands, body: Seq(Byte)]
  <2>1. Decoded(c).cmd \in Commands
    BY DEF Known
  <2> QED
    BY <1>3, <2>1 DEF Decoded, Decode
<1> QED
  BY <1>2, <1>3, <1>5, <1>6, <1>7 DEF Rest

\* What a row of sends does to the pending writes.
LEMMA SendingConn ==
  ASSUME ConnInv, NEW c \in Clients, handle[c] # "free",
         NEW sent \in 0 .. 2, SendData(c, sent)
  PROVE  pending' \in [Clients -> 0 .. MaxPending]
<1>1. pending \in [Clients -> 0 .. MaxPending] /\ MaxPending \in Nat
  BY ConnectionsAssumption DEF ConnInv, TypeOK
<1> QED
  BY <1>1 DEF SendData

\* A packet is handled and the rest moved to the front.
LEMMA HandleConn ==
  ASSUME ConnInv, NEW c \in Clients, Handle(c)
  PROVE  ConnInv'
<1>1. running = c /\ Known(c)
  BY DEF Handle
<1>2. /\ handle[c] # "free" /\ ~refused[c]
      /\ peer[c] \in Seq(Byte)
      /\ Len(peer[c]) <= BufferSize
      /\ arrived[c] \in Seq(Byte)
      /\ cursor[c] \in 0 .. Len(arrived[c])
      /\ Len(peer[c]) = Len(arrived[c]) - cursor[c]
  BY <1>1, RunningConn
<1>3. /\ Size(c) \in 1 .. Len(peer[c])
      /\ Decoded(c) \in [cmd: Commands, body: Seq(Byte)]
      /\ SubSeq(peer[c], Size(c) + 1, Len(peer[c])) = Rest(arrived[c], cursor[c] + Size(c))
  BY <1>1, KnownPacket
<1>4. /\ Rest(arrived[c], cursor[c] + Size(c)) \in Seq(Byte)
      /\ Len(Rest(arrived[c], cursor[c] + Size(c))) = Len(arrived[c]) - (cursor[c] + Size(c))
  <2>1. cursor[c] + Size(c) \in 0 .. Len(arrived[c])
    BY <1>2, <1>3
  <2> QED
    BY <1>2, <2>1, RestType
<1>5. /\ peer' = [peer EXCEPT ![c] = Rest(arrived[c], cursor[c] + Size(c))]
      /\ cursor' = [cursor EXCEPT ![c] = @ + Size(c)]
      /\ packet' = [packet EXCEPT ![c] = Decoded(c)]
      /\ UNCHANGED <<running, arrived, refused>>
  BY <1>3 DEF Handle, Consume, ConnInv, TypeOK
<1>6. PICK sent \in 0 .. 2, failed \in 0 .. 2 :
        /\ SendData(c, sent)
        /\ UvClose(c, FailureCloses(c, failed))
  BY DEF Handle
<1>7. pending' \in [Clients -> 0 .. MaxPending]
  BY <1>2, <1>6, SendingConn
<1>8. \/ handle' = handle /\ closes' = closes
      \/ /\ handle[c] = "open" /\ closes[c] = 0
         /\ handle' = [handle EXCEPT ![c] = "closing"]
         /\ closes' = [closes EXCEPT ![c] = 1]
  <2>1. /\ handle[c] \in {"open", "closing"}
        /\ closes \in [Clients -> Nat]
        /\ closes[c] = IF handle[c] = "closing" THEN 1 ELSE 0
    BY <1>2 DEF ConnInv, TypeOK, ClosedOnce
  <2>2. CASE FailureCloses(c, failed) = 0
    BY <1>6, <2>1, <2>2 DEF UvClose
  <2>3. CASE FailureCloses(c, failed) # 0
    <3>1. FailureCloses(c, failed) = 1 /\ handle[c] = "open"
      BY <2>1, <2>3 DEF FailureCloses
    <3> QED
      BY <1>6, <2>1, <3>1 DEF UvClose
  <2> QED
    BY <2>2, <2>3
<1>9. TypeOK'
  <2>1. cursor[c] + Size(c) \in Nat
    BY <1>2, <1>3
  <2>2. Len(Rest(arrived[c], cursor[c] + Size(c))) <= BufferSize
    BY <1>2, <1>3, <1>4, ConnectionsAssumption
  <2>3. /\ handle' \in [Clients -> {"free", "open", "closing"}]
        /\ closes' \in [Clients -> Nat]
    <3>1. handle \in [Clients -> {"free", "open", "closing"}] /\ closes \in [Clients -> Nat]
      BY DEF ConnInv, TypeOK
    <3>2. CASE handle' = handle /\ closes' = closes
      BY <3>1, <3>2
    <3>3. CASE handle' = [handle EXCEPT ![c] = "closing"] /\ closes' = [closes EXCEPT ![c] = 1]
      BY <3>1, <3>3
    <3> QED
      BY <1>8, <3>2, <3>3
  <2>4. /\ peer' \in [Clients -> Seq(Byte) \cup {NoPeer}]
        /\ \A d \in Clients : peer'[d] # NoPeer => Len(peer'[d]) <= BufferSize
    BY <1>4, <1>5, <2>2 DEF ConnInv, TypeOK
  <2>5. cursor' \in [Clients -> Nat]
    BY <1>5, <2>1 DEF ConnInv, TypeOK
  <2>6. packet' \in [Clients -> [cmd: Commands, body: Seq(Byte)] \cup {NoPacket}]
    BY <1>3, <1>5 DEF ConnInv, TypeOK
  <2>7. /\ running' \in Clients \cup {NoClient}
        /\ arrived' \in [Clients -> Seq(Byte)]
        /\ refused' \in [Clients -> BOOLEAN]
    BY <1>5 DEF ConnInv, TypeOK
  <2> QED
    BY <1>7, <2>3, <2>4, <2>5, <2>6, <2>7 DEF TypeOK
<1>10. ClosedOnce'
  BY <1>7, <1>8 DEF ConnInv, TypeOK, ClosedOnce
<1>11. WorksOnHandle'
  BY <1>1, <1>2, <1>5, <1>8 DEF ConnInv, TypeOK, WorksOnHandle
<1>12. HandledArrived'
  BY <1>2, <1>3, <1>5 DEF ConnInv, TypeOK, HandledArrived
<1>13. BufferHoldsUnread'
  <2>1. peer'[c] = SubSeq(arrived'[c], cursor'[c] + 1, Len(arrived'[c]))
    BY <1>5 DEF ConnInv, TypeOK, Rest
  <2>2. \A d \in Clients : handle'[d] = "free" <=> handle[d] = "free"
    BY <1>2, <1>8 DEF ConnInv, TypeOK
  <2> QED
    BY <1>2, <1>5, <2>1, <2>2 DEF ConnInv, TypeOK, BufferHoldsUnread
<1>14. BuffersWait'
  BY <1>1, <1>5, <1>8 DEF ConnInv, TypeOK, BuffersWait
<1> QED
  BY <1>9, <1>10, <1>11, <1>12, <1>13, <1>14 DEF ConnInv

\* A refusal in the loop.
LEMMA AddFailsConn ==
  ASSUME ConnInv, NEW c \in Clients, AddFails(c)
  PROVE  ConnInv'
<1>1. running = c /\ handle[c] # "free"
  BY RunningConn DEF AddFails
<1>2. FailureCloses(c, 1) \in 0 .. 1 /\ (FailureCloses(c, 1) = 1 => handle[c] # "closing")
  BY DEF FailureCloses
<1>3. /\ handle' = [handle EXCEPT ![c] = "closing"]
      /\ closes' = [closes EXCEPT ![c] = 1]
      /\ refused' = [refused EXCEPT ![c] = TRUE]
      /\ running' = NoClient
  BY <1>1, <1>2, RefusedHandles DEF AddFails
<1>4. pending' = pending
  BY DEF AddFails, SendData, ConnInv, TypeOK
<1>5. arrived' = [arrived EXCEPT ![c] = @ \o << >>]
  BY ConcatEmptySeq DEF AddFails, ConnInv, TypeOK
<1>6. << >> \in Seq(Byte)
  OBVIOUS
<1> QED
  BY <1>1, <1>3, <1>4, <1>5, <1>6, RefusedConn DEF AddFails

\* No packet the server knows is in front.
LEMMA MisfitConn ==
  ASSUME ConnInv, NEW c \in Clients, Misfit(c)
  PROVE  ConnInv'
<1>1. running = c /\ handle[c] # "free"
  BY RunningConn DEF Misfit
<1>2. /\ handle' = [handle EXCEPT ![c] = "closing"]
      /\ closes' = [closes EXCEPT ![c] = 1]
      /\ refused' = [refused EXCEPT ![c] = TRUE]
      /\ running' = NoClient
  BY <1>1, RefusedHandles DEF Misfit
<1>3. arrived' = [arrived EXCEPT ![c] = @ \o << >>]
  BY ConcatEmptySeq DEF Misfit, ConnInv, TypeOK
<1>4. << >> \in Seq(Byte)
  OBVIOUS
<1> QED
  BY <1>1, <1>2, <1>3, <1>4, RefusedConn DEF Misfit

\* OnRecv returns when no complete packet is left.
LEMMA ReadDoneConn ==
  ASSUME ConnInv, NEW c \in Clients, ReadDone(c)
  PROVE  ConnInv'
<1>1. TypeOK'
  BY DEF ReadDone, ConnInv, TypeOK, ghosts
<1>2. ClosedOnce' /\ WorksOnHandle' /\ HandledArrived'
      /\ BufferHoldsUnread'
  BY DEF ReadDone, ConnInv, ClosedOnce, WorksOnHandle,
         HandledArrived, BufferHoldsUnread, ghosts
<1>3. BuffersWait'
  BY DEF ReadDone, Size, ConnInv, BuffersWait
<1> QED
  BY <1>1, <1>2, <1>3 DEF ConnInv

\* A write is called back.
LEMMA OnWriteConn ==
  ASSUME ConnInv, NEW c \in Clients, OnWrite(c)
  PROVE  ConnInv'
<1>1. TypeOK'
  <2>1. pending[c] \in 0 .. MaxPending /\ MaxPending \in Nat
    BY ConnectionsAssumption DEF ConnInv, TypeOK
  <2> QED
    BY <2>1 DEF OnWrite, ConnInv, TypeOK, ghosts
<1> QED
  BY <1>1 DEF OnWrite, ConnInv, ClosedOnce, WorksOnHandle, HandledArrived,
              BufferHoldsUnread, BuffersWait, ghosts

\* A closed handle is freed with its entry.
LEMMA OnCloseConn ==
  ASSUME ConnInv, NEW c \in Clients, OnClose(c)
  PROVE  ConnInv'
<1>1. TypeOK'
  BY ConnectionsAssumption DEF OnClose, ConnInv, TypeOK, ghosts
<1>2. ClosedOnce'
  BY DEF OnClose, ConnInv, TypeOK, ClosedOnce
<1>3. WorksOnHandle' /\ HandledArrived'
  BY DEF OnClose, ConnInv, TypeOK, WorksOnHandle, HandledArrived, ghosts
<1>4. BufferHoldsUnread' /\ BuffersWait'
  BY DEF OnClose, ConnInv, TypeOK, BufferHoldsUnread, BuffersWait, ghosts
<1> QED
  BY <1>1, <1>2, <1>3, <1>4 DEF ConnInv

\* A chunk is a part of a stream.
LEMMA ArrivingType ==
  ASSUME ConnInv, NEW c \in Clients, NEW chunk \in Arriving(c)
  PROVE  chunk \in Seq(Byte)
<1> DEFINE k == Len(arrived[c])
<1>1. PICK s \in Streams : \E n \in k .. Len(s) : chunk = SubSeq(s, k + 1, n)
  BY DEF Arriving
<1>4. PICK n \in k .. Len(s) : chunk = SubSeq(s, k + 1, n)
  BY <1>1
<1>2. s \in Seq(Byte) /\ arrived[c] \in Seq(Byte)
  BY ConnectionsAssumption DEF ConnInv, TypeOK
<1>3. k + 1 \in 1 .. Len(s) + 1 /\ n \in (k + 1) - 1 .. Len(s)
  BY <1>2, <1>4
<1> QED
  BY <1>2, <1>3, <1>4, SliceType

\* Every step keeps the invariant.
LEMMA NextConn == ConnInv /\ [Next]_vars => ConnInv'
<1> SUFFICES ASSUME ConnInv, [Next]_vars PROVE ConnInv'
  OBVIOUS
<1>1. CASE UNCHANGED vars
  BY <1>1 DEF vars, ghosts, ConnInv, TypeOK, ClosedOnce,
              WorksOnHandle, HandledArrived, BufferHoldsUnread, BuffersWait
<1>2. ASSUME NEW c \in Clients, NEW chunk \in Arriving(c), OnRead(c, chunk)
      PROVE  ConnInv'
  BY <1>2, ArrivingType, OnReadConn
<1> QED
  BY <1>1, <1>2, AcceptConn, OnReadEndConn, HandleConn, AddFailsConn, MisfitConn,
     ReadDoneConn, OnWriteConn, OnCloseConn
  DEF Next, Round

\* The invariant holds throughout.
THEOREM ConnInvariant == Spec => []ConnInv
<1> QED
  BY InitConn, NextConn, PTL DEF Spec

\* The types, and no buffer beyond its size, for every stream and chunking.
THEOREM ConnTypeOK == Spec => []TypeOK
<1>1. ConnInv => TypeOK
  BY DEF ConnInv
<1> QED
  BY <1>1, ConnInvariant, PTL

\* No handle is closed twice, whichever of on_read and sendData closes it.
THEOREM ConnClosedOnce == Spec => []ClosedOnce
<1>1. ConnInv => ClosedOnce
  BY DEF ConnInv
<1> QED
  BY <1>1, ConnInvariant, PTL

\* A buffer holds the bytes of its own connection that are not handled yet.
THEOREM ConnBufferHoldsUnread == Spec => []BufferHoldsUnread
<1>1. ConnInv => BufferHoldsUnread
  BY DEF ConnInv
<1> QED
  BY <1>1, ConnInvariant, PTL

\* No complete packet and no malformed stream waits between two callbacks.
THEOREM ConnNothingWaits == Spec => []NothingWaits
<1>1. ASSUME ConnInv PROVE NothingWaits
  <2> SUFFICES ASSUME NEW c \in Clients, running = NoClient, handle[c] = "open"
               PROVE  CheckPack(SubSeq(arrived[c], cursor[c] + 1, Len(arrived[c]))) = 0
    BY DEF NothingWaits
  <2>1. ~refused[c] /\ running # c
    BY <1>1, ConnectionsAssumption DEF ConnInv, WorksOnHandle
  <2>2. peer[c] = SubSeq(arrived[c], cursor[c] + 1, Len(arrived[c]))
    BY <1>1, <2>1 DEF ConnInv, BufferHoldsUnread
  <2> QED
    BY <1>1, <2>1, <2>2 DEF ConnInv, BuffersWait
<1> QED
  BY <1>1, ConnInvariant, PTL

-----------------------------------------------------------------------------
(* The loop of OnRecv.                                                     *)

\* A packet that is handled leaves the buffer, and no packet is empty.
LEMMA HandleShortens ==
  ASSUME ConnInv, NEW c \in Clients, Handle(c)
  PROVE  Len(peer'[c]) < Len(peer[c])
<1>1. running = c /\ Known(c)
  BY DEF Handle
<1>2. /\ arrived[c] \in Seq(Byte)
      /\ cursor[c] \in 0 .. Len(arrived[c])
      /\ Len(peer[c]) = Len(arrived[c]) - cursor[c]
  BY <1>1, RunningConn
<1>3. /\ Size(c) \in 1 .. Len(peer[c])
      /\ SubSeq(peer[c], Size(c) + 1, Len(peer[c])) = Rest(arrived[c], cursor[c] + Size(c))
  BY <1>1, KnownPacket
<1>4. cursor[c] + Size(c) \in 0 .. Len(arrived[c])
  BY <1>2, <1>3
<1>5. Len(Rest(arrived[c], cursor[c] + Size(c))) = Len(arrived[c]) - (cursor[c] + Size(c))
  BY <1>2, <1>4, RestType
<1>6. peer'[c] = Rest(arrived[c], cursor[c] + Size(c))
  BY <1>3 DEF Handle, Consume, ConnInv, TypeOK
<1> QED
  BY <1>2, <1>3, <1>5, <1>6

\* A round is gone on after only if it handled a packet.
LEMMA GoesOnHandled ==
  ASSUME ConnInv, [Next]_vars, vars' # vars,
         NEW c \in Clients, running = c, running' = c
  PROVE  Handle(c)
<1>1. c # NoClient
  BY ConnectionsAssumption
<1>2. PICK d \in Clients :
        \/ Accept(d) \/ OnReadEnd(d) \/ Round(d) \/ OnWrite(d) \/ OnClose(d)
        \/ \E chunk \in Arriving(d) : OnRead(d, chunk)
  BY DEF Next
<1>3. Round(d)
  BY <1>1, <1>2 DEF Accept, OnReadEnd, OnWrite, OnClose, OnRead
<1> QED
  BY <1>1, <1>3 DEF Round, Handle, AddFails, Misfit, ReadDone, Refused

\* Whatever bytes a peer sends, the loop of OnRecv cannot go round on them
\* without end: each round it goes on after shortens the buffer.
THEOREM ConnRoundsShorten == Spec => RoundsShorten
<1>1. ConnInv /\ [Next]_vars
        => [\A c \in Clients :
              running = c /\ running' = c => Len(peer'[c]) < Len(peer[c])]_vars
  BY GoesOnHandled, HandleShortens
<1> QED
  BY <1>1, ConnInvariant, PTL DEF Spec, RoundsShorten

-----------------------------------------------------------------------------
(* The packets handled are those of the stream.                            *)

\* A sequence is the beginning of what it grows into.
LEMMA ConcatGrows ==
  ASSUME NEW S, NEW s \in Seq(S), NEW t \in Seq(S)
  PROVE  /\ Len(s \o t) >= Len(s)
         /\ SubSeq(s \o t, 1, Len(s)) = s
<1> DEFINE u == s \o t
           v == SubSeq(u, 1, Len(s))
<1>1. /\ u \in Seq(S)
      /\ Len(u) = Len(s) + Len(t)
      /\ \A i \in 1 .. Len(s) : u[i] = s[i]
  BY ConcatProperties
<1> HIDE DEF u
<1>2. 1 \in 1 .. Len(u) + 1 /\ Len(s) \in 1 - 1 .. Len(u)
  BY <1>1
<1>3. /\ v \in Seq(S)
      /\ Len(v) = Len(s) - 1 + 1
      /\ \A i \in 1 .. Len(s) - 1 + 1 : v[i] = u[1 + i - 1]
  BY <1>1, <1>2, SliceType
<1> HIDE DEF v
<1>4. ASSUME NEW i \in 1 .. Len(s)
      PROVE  v[i] = s[i]
  <2>1. i \in 1 .. Len(s) - 1 + 1 /\ 1 + i - 1 = i
    OBVIOUS
  <2> QED
    BY <1>1, <1>3, <2>1
<1>5. v = s
  BY <1>3, <1>4, SeqEqual
<1> QED
  BY <1>1, <1>5 DEF u, v

\* What is not handled yet when OnRecv works is what its buffer holds.
LEMMA UnreadIsBuffered ==
  ASSUME ConnInv, NEW c \in Clients, running = c
  PROVE  Stream(c)!Unread = peer[c]
BY RunningConn DEF Stream!Unread, Rest

\* A chunk arrives or finds no room.
LEMMA OnReadStream ==
  ASSUME ConnInv, NEW c \in Clients, NEW chunk \in Seq(Byte), OnRead(c, chunk)
  PROVE  Stream(c)!Next
<1>1. running = NoClient /\ handle[c] = "open" /\ ~refused[c]
  BY DEF OnRead, ConnInv, WorksOnHandle
<1>2. /\ arrived[c] \in Seq(Byte) /\ cursor[c] \in 0 .. Len(arrived[c])
      /\ refused \in [Clients -> BOOLEAN]
      /\ arrived'[c] = arrived[c] \o chunk
      /\ cursor'[c] = cursor[c] /\ packet'[c] = packet[c]
  BY DEF OnRead, ConnInv, TypeOK, HandledArrived
<1>3. Stream(c)!Grows
  BY <1>2, ConcatGrows DEF Stream!Grows
<1>4. CASE Fits(c, chunk)
  <2>1. refused'[c] = refused[c]
    BY <1>4 DEF OnRead
  <2> QED
    BY <1>1, <1>2, <1>3, <2>1 DEF Stream!Next, Stream!Arrive
<1>5. CASE ~Fits(c, chunk)
  <2>1. refused'[c]
    BY <1>2, <1>5 DEF OnRead, Refused
  <2>2. Len(arrived'[c]) - cursor[c] > BufferSize
    <3>1. Len(peer[c]) = Len(arrived[c]) - cursor[c]
      BY <1>1, <1>2, BufferType, RestType
    <3>2. Len(arrived'[c]) = Len(arrived[c]) + Len(chunk)
      BY <1>2, ConcatProperties
    <3> QED
      BY <1>2, <1>5, <3>1, <3>2, ConnectionsAssumption DEF Fits
  <2> QED
    BY <1>1, <1>2, <1>3, <2>1, <2>2 DEF Stream!Next, Stream!Refuse
<1> QED
  BY <1>4, <1>5

\* A packet is taken.
LEMMA HandleStream ==
  ASSUME ConnInv, NEW c \in Clients, Handle(c)
  PROVE  Stream(c)!Next
<1>1. running = c /\ Known(c)
  BY DEF Handle
<1>2. /\ ~refused[c]
      /\ cursor[c] \in 0 .. Len(arrived[c])
      /\ Len(peer[c]) = Len(arrived[c]) - cursor[c]
  BY <1>1, RunningConn
<1>3. /\ Size(c) \in 1 .. Len(peer[c])
      /\ Frames(SubSeq(arrived[c], cursor[c] + 1, cursor[c] + Size(c)), Decoded(c))
      /\ Decoded(c).cmd \in Commands
  BY <1>1, KnownPacket DEF Known
<1>4. /\ cursor'[c] = cursor[c] + Size(c)
      /\ packet'[c] = Decoded(c)
      /\ arrived' = arrived /\ refused' = refused
  BY DEF Handle, ConnInv, TypeOK
<1>5. cursor'[c] > cursor[c] /\ cursor'[c] <= Len(arrived[c])
  BY <1>2, <1>3, <1>4
<1>6. Frames(SubSeq(arrived[c], cursor[c] + 1, cursor'[c]), packet'[c])
  BY <1>3, <1>4
<1>7. Stream(c)!Frames(SubSeq(arrived[c], cursor[c] + 1, cursor'[c]), packet'[c])
  BY <1>6 DEF Frames, Word, HeadLen, CmdLen,
              Stream!Frames, Stream!Word, Stream!HeadLen, Stream!CmdLen
<1> QED
  BY <1>2, <1>3, <1>4, <1>5, <1>7 DEF Stream!Next, Stream!Take

\* The stream of a connection that is refused in the loop does not change.
LEMMA StaysStream ==
  ASSUME ConnInv, NEW c \in Clients, arrived' = arrived
  PROVE  Stream(c)!Grows
<1>1. arrived[c] \in Seq(Byte) /\ << >> \in Seq(Byte)
  BY DEF ConnInv, TypeOK
<1>2. arrived[c] \o << >> = arrived[c]
  BY <1>1, ConcatEmptySeq
<1> QED
  BY <1>1, <1>2, ConcatGrows DEF Stream!Grows

\* An addition that cannot be answered is not taken.
LEMMA AddFailsStream ==
  ASSUME ConnInv, NEW c \in Clients, AddFails(c)
  PROVE  Stream(c)!Next
<1>1. running = c /\ Known(c) /\ Decoded(c).cmd = AddReq /\ ~refused[c]
  BY RunningConn DEF AddFails
<1>2. UNCHANGED <<arrived, cursor, packet>> /\ refused'[c]
  BY DEF AddFails, Refused, ConnInv, TypeOK
<1>3. Stream(c)!Grows
  BY <1>2, StaysStream
<1>4. /\ Size(c) \in 1 .. Len(peer[c]) /\ Size(c) >= HeadLen
      /\ Word(peer[c][5], peer[c][6]) = AddReq
  BY <1>1, KnownPacket DEF Known, Decodes, Decoded, Decode
<1>5. Len(peer[c]) \in Nat /\ Len(peer[c]) >= HeadLen
  BY <1>1, <1>4, RunningConn DEF HeadLen
<1>6. Stream(c)!Unanswered
  BY <1>1, <1>4, <1>5, UnreadIsBuffered
  DEF Word, HeadLen, Stream!Unanswered, Stream!Word, Stream!HeadLen
<1> QED
  BY <1>1, <1>2, <1>3, <1>6 DEF Stream!Next, Stream!Refuse

\* What is refused as misfit is malformed.
LEMMA MisfitStream ==
  ASSUME ConnInv, NEW c \in Clients, Misfit(c)
  PROVE  Stream(c)!Next
<1>1. running = c /\ Size(c) # 0 /\ ~Known(c) /\ ~refused[c] /\ peer[c] \in Seq(Byte)
  BY RunningConn DEF Misfit
<1>2. UNCHANGED <<arrived, cursor, packet>> /\ refused'[c]
  BY DEF Misfit, Refused, ConnInv, TypeOK
<1>3. Stream(c)!Grows
  BY <1>2, StaysStream
<1>4. \/ /\ Len(peer[c]) >= SizedLen
         /\ SubSeq(peer[c], 1, 2) # <<PrefixT, PrefixC>>
      \/ /\ Size(c) \in SizedLen .. Len(peer[c])
         /\ Size(c) = Word(peer[c][3], peer[c][4]) + SizedLen
         /\ ~Known(c)
  BY <1>1, CheckPackCases DEF Size
<1>5. Stream(c)!Malformed
  <2>1. CASE /\ Len(peer[c]) >= SizedLen
             /\ SubSeq(peer[c], 1, 2) # <<PrefixT, PrefixC>>
    BY <1>1, <2>1, UnreadIsBuffered
    DEF SizedLen, Stream!Malformed, Stream!SizedLen
  <2>2. CASE /\ Size(c) \in SizedLen .. Len(peer[c])
             /\ Size(c) = Word(peer[c][3], peer[c][4]) + SizedLen
             /\ ~Decodes(Size(c))
    <3>1. Len(peer[c]) >= SizedLen
      BY <2>2 DEF SizedLen
    <3>2. Word(peer[c][3], peer[c][4]) \in Nat
      <4>1. peer[c][3] \in Byte /\ peer[c][4] \in Byte
        BY <1>1, <3>1 DEF SizedLen
      <4> QED
        BY <4>1, WordType
    <3>3. Word(peer[c][3], peer[c][4]) < CmdLen
      BY <2>2, <3>2 DEF Decodes, HeadLen, SizedLen, CmdLen
    <3> QED
      BY <1>1, <3>1, <3>3, UnreadIsBuffered
      DEF SizedLen, CmdLen, Word, Stream!Malformed, Stream!SizedLen, Stream!CmdLen, Stream!Word
  <2>3. CASE /\ Size(c) \in SizedLen .. Len(peer[c])
             /\ Decodes(Size(c))
             /\ Decoded(c).cmd \notin Commands
    <3>1. Len(peer[c]) >= SizedLen /\ Len(peer[c]) >= HeadLen
      BY <1>1, <2>3 DEF SizedLen, Decodes, HeadLen
    <3>2. Word(peer[c][5], peer[c][6]) \notin Commands
      BY <2>3 DEF Decoded, Decode
    <3> QED
      BY <1>1, <3>1, <3>2, UnreadIsBuffered
      DEF SizedLen, HeadLen, Word, Stream!Malformed, Stream!SizedLen, Stream!HeadLen, Stream!Word
  <2>4. Size(c) \in SizedLen .. Len(peer[c]) => Size(c) > 0
    BY DEF SizedLen
  <2> QED
    BY <1>4, <2>1, <2>2, <2>3, <2>4 DEF Known
<1> QED
  BY <1>1, <1>2, <1>3, <1>5 DEF Stream!Next, Stream!Refuse

\* The other actions for a connection leave its stream or begin another.
LEMMA RestOfStream ==
  ASSUME ConnInv, NEW c \in Clients,
         Accept(c) \/ OnReadEnd(c) \/ ReadDone(c) \/ OnWrite(c) \/ OnClose(c)
  PROVE  Stream(c)!Next \/ UNCHANGED Stream(c)!streamVars
<1>1. CASE Accept(c)
  <2>1. arrived'[c] = << >> /\ cursor'[c] = 0 /\ packet'[c] = NoPacket /\ ~refused'[c]
    BY <1>1 DEF Accept, ConnInv, TypeOK
  <2> QED
    BY <2>1 DEF Stream!Next, Stream!Restart
<1>2. CASE OnReadEnd(c) \/ ReadDone(c) \/ OnWrite(c) \/ OnClose(c)
  <2>1. UNCHANGED ghosts
    BY <1>2 DEF OnReadEnd, ReadDone, OnWrite, OnClose
  <2> QED
    BY <2>1 DEF ghosts, Stream!streamVars
<1> QED
  BY <1>1, <1>2

\* What happens on another connection leaves a stream alone.
LEMMA OtherStream ==
  ASSUME ConnInv, NEW c \in Clients, NEW d \in Clients, d # c,
         \/ Accept(d) \/ OnReadEnd(d) \/ Round(d) \/ OnWrite(d) \/ OnClose(d)
         \/ \E chunk \in Arriving(d) : OnRead(d, chunk)
  PROVE  UNCHANGED Stream(c)!streamVars
<1>1. /\ arrived'[c] = arrived[c] /\ cursor'[c] = cursor[c]
      /\ packet'[c] = packet[c] /\ refused'[c] = refused[c]
  BY DEF ConnInv, TypeOK, Accept, OnRead, OnReadEnd, Round, Handle, AddFails, Misfit,
         ReadDone, Refused, OnWrite, OnClose, ghosts
<1> QED
  BY <1>1 DEF Stream!streamVars

\* Every step is one of every stream.
LEMMA NextStream ==
  ASSUME ConnInv, [Next]_vars, NEW c \in Clients
  PROVE  Stream(c)!Next \/ UNCHANGED Stream(c)!streamVars
<1>1. CASE UNCHANGED vars
  BY <1>1 DEF vars, ghosts, Stream!streamVars
<1>2. ASSUME NEW d \in Clients,
             \/ Accept(d) \/ OnReadEnd(d) \/ Round(d) \/ OnWrite(d) \/ OnClose(d)
             \/ \E chunk \in Arriving(d) : OnRead(d, chunk)
      PROVE  Stream(c)!Next \/ UNCHANGED Stream(c)!streamVars
  <2>1. CASE d # c
    BY <1>2, <2>1, OtherStream
  <2>2. CASE d = c
    <3>1. ASSUME NEW chunk \in Arriving(c), OnRead(c, chunk) PROVE Stream(c)!Next
      BY <3>1, ArrivingType, OnReadStream
    <3> QED
      BY <1>2, <2>2, <3>1, RestOfStream, HandleStream, AddFailsStream, MisfitStream DEF Round
  <2> QED
    BY <2>1, <2>2
<1> QED
  BY <1>1, <1>2 DEF Next

\* For every buffer size and every cut into chunks, the packets handled on a
\* connection are those of its byte stream.
THEOREM ConnImplementsStream == Spec => ImplementsStream
<1>1. Init => \A c \in Clients : Stream(c)!Init
  BY DEF Init, All, Stream!Init
<1>2. ConnInv /\ [Next]_vars
        => [\A c \in Clients : Stream(c)!Next \/ UNCHANGED Stream(c)!streamVars]_vars
  BY NextStream
<1> QED
  BY <1>1, <1>2, ConnInvariant, PTL DEF Spec, ImplementsStream

-----------------------------------------------------------------------------
(* The life of the handles.                                                *)

\* A callback outside OnRecv opens, closes or frees a handle.
LEMMA CallbackLife ==
  ASSUME ConnInv, NEW c \in Clients,
         Accept(c) \/ OnReadEnd(c) \/ OnWrite(c) \/ OnClose(c)
  PROVE  Life!Next \/ UNCHANGED Life!lifeVars
<1>1. running = NoClient /\ running' = NoClient
  BY DEF Accept, OnReadEnd, OnWrite, OnClose
<1>2. CASE Accept(c)
  BY <1>1, <1>2 DEF Accept, Life!Next, Life!Opens
<1>3. CASE OnReadEnd(c)
  <2>1. handle[c] = "open" /\ handle' = [handle EXCEPT ![c] = "closing"]
    BY <1>3 DEF OnReadEnd, UvClose
  <2> QED
    BY <1>1, <2>1 DEF Life!Next, Life!Closes
<1>4. CASE OnWrite(c)
  BY <1>1, <1>4 DEF OnWrite, Life!lifeVars
<1>5. CASE OnClose(c)
  BY <1>1, <1>5 DEF OnClose, Life!Next, Life!Freed
<1> QED
  BY <1>2, <1>3, <1>4, <1>5

\* A refusal closes the handle, or ends the chunk it was closed in.
LEMMA RefusedLife ==
  ASSUME ConnInv, NEW c \in Clients, handle[c] # "free",
         handle' = [handle EXCEPT ![c] = "closing"], running' = NoClient
  PROVE  Life!Next
<1>1. handle[c] \in {"open", "closing"} /\ handle \in [Clients -> {"free", "open", "closing"}]
  BY DEF ConnInv, TypeOK
<1>2. CASE handle[c] = "open"
  BY <1>2 DEF Life!Next, Life!Closes
<1>3. CASE handle[c] = "closing"
  <2>1. handle' = handle
    BY <1>1, <1>3
  <2> QED
    BY <2>1 DEF Life!Next, Life!ChunkEnds
<1> QED
  BY <1>1, <1>2, <1>3

\* on_read opens no handle, frees none, and closes the one it reads from.
LEMMA ReadLife ==
  ASSUME ConnInv, NEW c \in Clients,
         Round(c) \/ \E chunk \in Arriving(c) : OnRead(c, chunk)
  PROVE  Life!Next \/ UNCHANGED Life!lifeVars
<1>1. CASE Handle(c)
  <2>1. /\ running = c /\ running' = c /\ c # NoClient
        /\ handle \in [Clients -> {"free", "open", "closing"}]
    BY <1>1, ConnectionsAssumption DEF Handle, ConnInv, TypeOK
  <2>2. PICK failed \in 0 .. 2 : UvClose(c, FailureCloses(c, failed))
    BY <1>1 DEF Handle
  <2>3. CASE handle' = handle
    BY <2>1, <2>3 DEF Life!lifeVars
  <2>4. CASE handle' # handle
    <3>1. handle[c] = "open" /\ handle' = [handle EXCEPT ![c] = "closing"]
      <4>1. handle[c] # "free" /\ handle[c] # "closing"
        BY <2>1, <2>2, <2>4, RunningConn DEF UvClose, FailureCloses
      <4> QED
        BY <2>1, <2>2, <2>4, <4>1 DEF UvClose
    <3> QED
      BY <2>1, <3>1 DEF Life!Next, Life!Closes
  <2> QED
    BY <2>3, <2>4
<1>2. CASE AddFails(c)
  <2>1. handle[c] # "free"
    BY <1>2, RunningConn DEF AddFails
  <2>2. FailureCloses(c, 1) \in 0 .. 1 /\ (FailureCloses(c, 1) = 1 => handle[c] # "closing")
    BY DEF FailureCloses
  <2> QED
    BY <1>2, <2>1, <2>2, RefusedHandles, RefusedLife DEF AddFails
<1>3. CASE Misfit(c)
  <2>1. handle[c] # "free"
    BY <1>3, RunningConn DEF Misfit
  <2> QED
    BY <1>3, <2>1, RefusedHandles, RefusedLife DEF Misfit
<1>4. CASE ReadDone(c)
  BY <1>4 DEF ReadDone, Life!Next, Life!ChunkEnds
<1>5. ASSUME NEW chunk \in Arriving(c), OnRead(c, chunk)
      PROVE  Life!Next \/ UNCHANGED Life!lifeVars
  <2>1. handle[c] = "open"
    BY <1>5 DEF OnRead
  <2>2. CASE Fits(c, chunk)
    BY <1>5, <2>1, <2>2 DEF OnRead, Life!Next, Life!ChunkEnds
  <2>3. CASE ~Fits(c, chunk)
    BY <1>5, <2>1, <2>3, RefusedHandles, RefusedLife DEF OnRead
  <2> QED
    BY <2>2, <2>3
<1> QED
  BY <1>1, <1>2, <1>3, <1>4, <1>5 DEF Round

\* Handles are opened, closed and freed in this order, and only the on_read
\* that was running goes on with a closing one.
THEOREM ConnImplementsHandleLife == Spec => ImplementsHandleLife
<1>1. Init => Life!Gone
  BY DEF Init, All, Life!Gone
<1>2. ConnInv /\ [Next]_vars => [Life!Next]_(Life!lifeVars)
  <2> SUFFICES ASSUME ConnInv, [Next]_vars
               PROVE  Life!Next \/ UNCHANGED Life!lifeVars
    OBVIOUS
  <2>1. CASE UNCHANGED vars
    BY <2>1 DEF vars, Life!lifeVars
  <2> QED
    BY <2>1, CallbackLife, ReadLife DEF Next
<1> QED
  BY <1>1, <1>2, ConnInvariant, PTL DEF Spec, ImplementsHandleLife, Life!Spec

=============================================================================
