----------------------------- MODULE Connections -----------------------------
(***************************************************************************)
(* The connections below the handlers: the callbacks of libuv in           *)
(* utils/utils.cpp and the receive buffers of netpack/nethandle.cpp. The   *)
(* bytes of a connection arrive in chunks; OnRecv cuts packets out of them.*)
(* What a handler does besides sending is left to GameServer, and so is    *)
(* the end of the process.                                                 *)
(*                                                                         *)
(* A callback runs to its end before the next one begins. on_read is cut   *)
(* into the rounds of the loop of OnRecv, and `running` keeps the other    *)
(* callbacks out meanwhile.                                                *)
(***************************************************************************)
EXTENDS Codec, Identities, SequencesExt

CONSTANTS
  NoClient,    \* no connection
  NoPeer,      \* the connection has no entry in s_clientMap
  NoPacket,    \* no packet was handled yet
  BufferSize,  \* the size of recv_buf and of the buffer libuv reads into
  Commands,    \* the commands _OnPackHandle knows
  AddReq,      \* the one whose handler may fail
  Streams,     \* bound: what peers send
  MaxPending   \* bound: no more writes of a connection are pending

VARIABLES
  handle,   \* the state of the handle at each address
  peer,     \* s_clientMap: the used part of recv_buf
  running,  \* the connection whose on_read is on the stack
  pending,  \* how many writes libuv has not called back for
  closes,   \* ghost: how often uv_close was called on the handle
  arrived,  \* ghost: the bytes read since the connection was accepted
  cursor,   \* ghost: how many of them were packets that were handled
  packet,   \* ghost: the packet handled last
  refused   \* ghost: OnRecv returned false

ghosts == <<arrived, cursor, packet, refused>>
vars == <<handle, peer, running, pending, closes, ghosts>>

ASSUME ConnectionsAssumption ==
  /\ NoClient \notin Clients
  /\ NoPeer \notin Seq(Byte)
  /\ BufferSize \in Nat
  /\ AddReq \in Commands
  /\ Streams \subseteq Seq(Byte)
  /\ MaxPending \in Nat

All(value) == [c \in Clients |-> value]

Init ==
  /\ handle = All("free")
  /\ peer = All(NoPeer)
  /\ running = NoClient
  /\ pending = All(0)
  /\ closes = All(0)
  /\ arrived = All(<< >>)
  /\ cursor = All(0)
  /\ packet = All(NoPacket)
  /\ refused = All(FALSE)

-----------------------------------------------------------------------------
(* Closing and sending.                                                    *)

\* Mutation of UvClose: the handle is freed where it is closed.
UvCloseFrees(c, n) ==
  /\ handle' = IF n > 0 THEN [handle EXCEPT ![c] = "free"] ELSE handle
  /\ closes' = [closes EXCEPT ![c] = @ + n]

\* uv_close is called n times on the handle of c.
UvClose(c, n) ==
  /\ handle' = IF n > 0 THEN [handle EXCEPT ![c] = "closing"] ELSE handle
  /\ closes' = [closes EXCEPT ![c] = @ + n]

\* The calls of uv_close after `failed` sends of a row failed: the first one
\* closes the handle unless it is closing already.
FailureCloses(c, failed) ==
  IF failed > 0 /\ handle[c] # "closing" THEN 1 ELSE 0

\* A row of calls of sendData, of which the first `sent` start a write: uv_write
\* fails on a handle that is closing.
SendData(c, sent) ==
  /\ pending[c] + sent <= MaxPending
  /\ handle[c] = "closing" => sent = 0
  /\ pending' = [pending EXCEPT ![c] = @ + sent]

\* on_write, with whatever status, also for the writes a close cancels.
OnWrite(c) ==
  /\ running = NoClient
  /\ pending[c] > 0
  /\ pending' = [pending EXCEPT ![c] = @ - 1]
  /\ UNCHANGED <<handle, peer, running, closes, ghosts>>

\* Mutations of OnClose: a connection nobody is logged in on leaves
\* OnCloseClient at once; the handle is not freed.
OnCloseLeavesBuffer(c) ==
  /\ running = NoClient
  /\ handle[c] = "closing" /\ pending[c] = 0
  /\ handle' = [handle EXCEPT ![c] = "free"]
  /\ closes' = [closes EXCEPT ![c] = 0]
  /\ UNCHANGED <<peer, running, pending, ghosts>>

OnCloseKeepsHandle(c) ==
  /\ running = NoClient
  /\ handle[c] = "closing" /\ pending[c] = 0
  /\ peer' = [peer EXCEPT ![c] = NoPeer]
  /\ UNCHANGED <<handle, closes, running, pending, ghosts>>

\* on_close with OnCloseClient, once the cancelled writes have returned.
OnClose(c) ==
  /\ running = NoClient
  /\ handle[c] = "closing" /\ pending[c] = 0
  /\ peer' = [peer EXCEPT ![c] = NoPeer]
  /\ handle' = [handle EXCEPT ![c] = "free"]
  /\ closes' = [closes EXCEPT ![c] = 0]
  /\ UNCHANGED <<running, pending, ghosts>>

-----------------------------------------------------------------------------
(* Accepting and reading.                                                  *)

\* on_new_connection with OnNewClient, when both succeed. insert leaves an
\* entry that is there already.
Accept(c) ==
  /\ running = NoClient
  /\ handle[c] = "free"
  /\ handle' = [handle EXCEPT ![c] = "open"]
  /\ peer' = IF peer[c] = NoPeer THEN [peer EXCEPT ![c] = << >>] ELSE peer
  /\ arrived' = [arrived EXCEPT ![c] = << >>]
  /\ cursor' = [cursor EXCEPT ![c] = 0]
  /\ packet' = [packet EXCEPT ![c] = NoPacket]
  /\ refused' = [refused EXCEPT ![c] = FALSE]
  /\ UNCHANGED <<running, pending, closes>>

\* Mutation of Refused: on_read does not ask uv_is_closing.
RefusedUnasked(c, calls) ==
  /\ UvClose(c, calls + 1)
  /\ refused' = [refused EXCEPT ![c] = TRUE]
  /\ running' = NoClient

\* OnRecv returns false to on_read; `calls` of uv_close were made meanwhile.
Refused(c, calls) ==
  /\ UvClose(c, IF handle[c] = "closing" THEN calls
                ELSE IF calls > 0 THEN calls ELSE 1)
  /\ refused' = [refused EXCEPT ![c] = TRUE]
  /\ running' = NoClient

\* Mutation of Fits: what the buffer holds already is not counted.
FitsEmpty(c, chunk) == BufferSize >= Len(chunk)

Fits(c, chunk) == BufferSize - Len(peer[c]) >= Len(chunk)

\* on_read with a chunk, up to the loop of OnRecv. libuv does not call it for
\* a handle that is closing.
OnRead(c, chunk) ==
  /\ running = NoClient
  /\ handle[c] = "open"
  /\ arrived' = [arrived EXCEPT ![c] = @ \o chunk]
  /\ \/ /\ ~Fits(c, chunk)
        /\ Refused(c, 0)
        /\ UNCHANGED peer
     \/ /\ Fits(c, chunk)
        /\ peer' = [peer EXCEPT ![c] = @ \o chunk]
        /\ running' = c
        /\ UNCHANGED <<handle, closes, refused>>
  /\ UNCHANGED <<pending, cursor, packet>>

\* on_read at the end of the stream or after an error.
OnReadEnd(c) ==
  /\ running = NoClient
  /\ handle[c] = "open"
  /\ UvClose(c, 1)
  /\ UNCHANGED <<peer, running, pending, ghosts>>

\* What arrives next is a part of a stream, no longer than a buffer.
Arriving(c) ==
  UNION {{SubSeq(s, Len(arrived[c]) + 1, n) :
            n \in {n \in Len(arrived[c]) .. Len(s) : n <= Len(arrived[c]) + BufferSize}} :
         s \in {s \in Streams : IsPrefix(arrived[c], s)}}

-----------------------------------------------------------------------------
(* The loop of OnRecv.                                                     *)

Size(c) == CheckPack(peer[c])

Decoded(c) == Decode(peer[c], Size(c))

Known(c) == Size(c) > 0 /\ Decodes(Size(c)) /\ Decoded(c).cmd \in Commands

\* Mutations of Consume: the buffer is emptied whatever follows the packet;
\* a packet nothing follows stays in it.
ConsumeAll(c) == peer' = [peer EXCEPT ![c] = << >>]

ConsumeKeepsLast(c) ==
  peer' = IF Size(c) < Len(peer[c])
          THEN [peer EXCEPT ![c] = SubSeq(@, Size(c) + 1, Len(@))]
          ELSE peer

Consume(c) == peer' = [peer EXCEPT ![c] = SubSeq(@, Size(c) + 1, Len(@))]

\* Mutation of Handle: the loop ends after the first packet.
HandleOnce(c) ==
  /\ running = c
  /\ Known(c)
  /\ \E sent, failed \in 0 .. 2 :
       /\ sent + failed <= 2
       /\ SendData(c, sent)
       /\ UvClose(c, FailureCloses(c, failed))
  /\ Consume(c)
  /\ cursor' = [cursor EXCEPT ![c] = @ + Size(c)]
  /\ packet' = [packet EXCEPT ![c] = Decoded(c)]
  /\ running' = NoClient
  /\ UNCHANGED <<arrived, refused>>

\* A round that handles a packet; a handler sends up to two packets. Its
\* result is not asked, except that of an addition.
Handle(c) ==
  /\ running = c
  /\ Known(c)
  /\ \E sent, failed \in 0 .. 2 :
       /\ IF Decoded(c).cmd = AddReq
          THEN sent = 1 /\ failed = 0
          ELSE sent + failed <= 2
       /\ SendData(c, sent)
       /\ UvClose(c, FailureCloses(c, failed))
  /\ Consume(c)
  /\ cursor' = [cursor EXCEPT ![c] = @ + Size(c)]
  /\ packet' = [packet EXCEPT ![c] = Decoded(c)]
  /\ UNCHANGED <<running, arrived, refused>>

\* The answer of an addition cannot be sent: sendData closes the handle and
\* the false it returns ends OnRecv with the packet still in the buffer.
AddFails(c) ==
  /\ running = c
  /\ Known(c) /\ Decoded(c).cmd = AddReq
  /\ SendData(c, 0)
  /\ Refused(c, FailureCloses(c, 1))
  /\ UNCHANGED <<peer, arrived, cursor, packet>>

\* Mutation of Misfit: the loop goes on with the same bytes.
MisfitAgain(c) ==
  /\ running = c
  /\ Size(c) # 0 /\ ~Known(c)
  /\ UNCHANGED vars

\* The prefix is wrong, the packet too short to decode, its command unknown.
Misfit(c) ==
  /\ running = c
  /\ Size(c) # 0 /\ ~Known(c)
  /\ Refused(c, 0)
  /\ UNCHANGED <<peer, pending, arrived, cursor, packet>>

\* No complete packet is left.
ReadDone(c) ==
  /\ running = c
  /\ Size(c) = 0
  /\ running' = NoClient
  /\ UNCHANGED <<handle, peer, pending, closes, ghosts>>

Round(c) == Handle(c) \/ AddFails(c) \/ Misfit(c) \/ ReadDone(c)

-----------------------------------------------------------------------------

Next ==
  \E c \in Clients :
    \/ Accept(c)
    \/ \E chunk \in Arriving(c) : OnRead(c, chunk)
    \/ OnReadEnd(c)
    \/ Round(c)
    \/ OnWrite(c)
    \/ OnClose(c)

\* A call that was made goes on. Every iteration of the loop of libuv calls
\* back for the writes that have completed or were cancelled and for the
\* handles that are closing, whatever is read in between: fairness is strong
\* since each on_read keeps these callbacks waiting.
Fairness ==
  \A c \in Clients : WF_vars(Round(c)) /\ SF_vars(OnWrite(c)) /\ SF_vars(OnClose(c))

Spec == Init /\ [][Next]_vars /\ Fairness

-----------------------------------------------------------------------------
(* What the connections promise.                                           *)

\* In particular the bytes of a connection never exceed its buffer.
TypeOK ==
  /\ handle \in [Clients -> {"free", "open", "closing"}]
  /\ peer \in [Clients -> Seq(Byte) \cup {NoPeer}]
  /\ \A c \in Clients : peer[c] # NoPeer => Len(peer[c]) <= BufferSize
  /\ running \in Clients \cup {NoClient}
  /\ pending \in [Clients -> 0 .. MaxPending]
  /\ closes \in [Clients -> Nat]
  /\ arrived \in [Clients -> Seq(Byte)]
  /\ cursor \in [Clients -> Nat]
  /\ packet \in [Clients -> [cmd: Commands, body: Seq(Byte)] \cup {NoPacket}]
  /\ refused \in [Clients -> BOOLEAN]

\* uv_close is called at most once on a handle, as libuv demands: it is called
\* by on_read and by sendData, which handlers call several times, also for a
\* connection that an earlier packet of the same chunk has closed.
ClosedOnce ==
  \A c \in Clients : closes[c] = IF handle[c] = "closing" THEN 1 ELSE 0

\* s_clientMap is keyed by addresses that are used again. An entry lives as
\* long as its handle, and while OnRecv is not at work it holds exactly the
\* bytes that are not handled yet: a connection never finds the bytes of an
\* earlier one at its address.
BufferHoldsUnread ==
  \A c \in Clients :
    IF handle[c] = "free"
    THEN peer[c] = NoPeer
    ELSE ~refused[c] => peer[c] = SubSeq(arrived[c], cursor[c] + 1, Len(arrived[c]))

\* Between two callbacks no complete packet waits in a buffer for bytes that
\* may never arrive, and no connection whose stream is malformed is kept.
NothingWaits ==
  \A c \in Clients :
    running = NoClient /\ handle[c] = "open"
      => CheckPack(SubSeq(arrived[c], cursor[c] + 1, Len(arrived[c]))) = 0

\* Every round OnRecv goes on after has made its buffer shorter: what a loop
\* without a counter has to do to end on every input. A length of zero or less
\* in a packet, or one beyond the buffer, must not be gone on with.
RoundsShorten ==
  [][\A c \in Clients :
       running = c /\ running' = c => Len(peer'[c]) < Len(peer[c])]_vars

\* The packets that are handled are those of the byte stream, in its order,
\* none left out or handled twice, however it is cut into chunks; and a stream
\* is refused only for a cause.
Stream(c) == INSTANCE PacketStream WITH
  Room <- BufferSize, stream <- arrived[c], cursor <- cursor[c],
  packet <- packet[c], refused <- refused[c]

ImplementsStream ==
  /\ \A c \in Clients : Stream(c)!Init
  /\ [][\A c \in Clients : Stream(c)!Next \/ UNCHANGED Stream(c)!streamVars]_vars

\* Handles are opened, closed and freed in this order, and a closing handle
\* is worked on only by the on_read that was running when it was closed.
Life == INSTANCE HandleLife WITH
  conn <- handle,
  chunk <- IF running # NoClient /\ handle[running] = "closing" THEN running ELSE NoClient

ImplementsHandleLife == Life!Spec

\* The loop of OnRecv ends, whatever bytes arrived, and every closing handle
\* is freed.
ReadReturns == \A c \in Clients : running = c ~> running = NoClient

ClosingFrees == \A c \in Clients : handle[c] = "closing" ~> handle[c] = "free"

=============================================================================
