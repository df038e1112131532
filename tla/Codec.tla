-------------------------------- MODULE Codec --------------------------------
(***************************************************************************)
(* The wire format: codec/codec.cpp. A packet is the two bytes of the      *)
(* prefix, the length of what follows in two bytes, the command in two     *)
(* bytes, and the body. A byte has ByteValues values, 256 in the code.     *)
(***************************************************************************)
EXTENDS Integers, Sequences

CONSTANTS
  ByteValues,  \* how many values a byte has
  PrefixT, PrefixC   \* the two bytes of PROTO_PREFIX

Byte == 0 .. ByteValues - 1

ASSUME CodecAssumption ==
  /\ ByteValues \in Nat /\ ByteValues > 2
  /\ PrefixT \in Byte /\ PrefixC \in Byte

SizedLen == 4   \* PROTO_PREFIX_LEN + PROTO_SIZE_LEN
CmdLen   == 2   \* PROTO_CMD_LEN
HeadLen  == 6   \* PROTO_HEAD_LEN

\* A uint16_t in memory, low byte first, and the two bytes of a number.
Word(low, high) == low + ByteValues * high

WordBytes(n) == <<n % ByteValues, (n \div ByteValues) % ByteValues>>

\* Mutation of CheckPack: the declared length is taken for that of the packet.
CheckPackForgetsSize(data) ==
  CASE Len(data) < SizedLen -> 0
    [] Len(data) >= SizedLen /\ SubSeq(data, 1, 2) # <<PrefixT, PrefixC>> -> -1
    [] Len(data) >= SizedLen /\ SubSeq(data, 1, 2) = <<PrefixT, PrefixC>> ->
         LET size == Word(data[3], data[4]) + CmdLen
         IN  IF Len(data) >= size THEN size ELSE 0

\* check_pack: the length of the packet data begins with, 0 while it is not
\* complete, -1 when no packet begins like this.
CheckPack(data) ==
  CASE Len(data) < SizedLen -> 0
    [] Len(data) >= SizedLen /\ SubSeq(data, 1, 2) # <<PrefixT, PrefixC>> -> -1
    [] Len(data) >= SizedLen /\ SubSeq(data, 1, 2) = <<PrefixT, PrefixC>> ->
         LET size == Word(data[3], data[4]) + SizedLen
         IN  IF Len(data) >= size THEN size ELSE 0

\* decode: whether it succeeds on len bytes, and what it makes of them.
Decodes(len) == len >= HeadLen

Decode(data, len) ==
  [cmd |-> Word(data[5], data[6]), body |-> SubSeq(data, HeadLen + 1, len)]

\* Mutation of Encode: the length of the command is not counted.
EncodeBodyOnly(cmd, body, len) ==
  SubSeq(<<PrefixT, PrefixC>> \o WordBytes(len) \o WordBytes(cmd)
           \o (IF len > 0 THEN SubSeq(body, 1, len) ELSE << >>),
         1, len + HeadLen)

\* The bytes handed to sendData after encode: the length is cut to 16 bits,
\* a negative one copies no body and cuts into the head.
Encode(cmd, body, len) ==
  SubSeq(<<PrefixT, PrefixC>> \o WordBytes(len + CmdLen) \o WordBytes(cmd)
           \o (IF len > 0 THEN SubSeq(body, 1, len) ELSE << >>),
         1, len + HeadLen)

-----------------------------------------------------------------------------

\* The wire format itself: the bytes are the packet with this command and body.
Frames(bytes, packet) ==
  /\ Len(bytes) = HeadLen + Len(packet.body)
  /\ SubSeq(bytes, 1, 2) = <<PrefixT, PrefixC>>
  /\ Word(bytes[3], bytes[4]) = CmdLen + Len(packet.body)
  /\ Word(bytes[5], bytes[6]) = packet.cmd
  /\ SubSeq(bytes, HeadLen + 1, Len(bytes)) = packet.body

\* The boundary of the format: what encode makes of a length is a packet with
\* the same command and body exactly when the length is neither negative, as
\* the result of a failing readCfg is, nor too large for 16 bits together with
\* the command; otherwise the receiver, with check_pack and decode, is left
\* with a packet that cannot be decoded or with another one.
EncodingFrames ==
  \A cmd \in {0, ByteValues + 1}, len \in -2 .. ByteValues * ByteValues + 1, b \in Byte :
    LET body  == [i \in 1 .. IF len < 0 THEN 0 ELSE len |-> b]
        bytes == Encode(cmd, body, len)
        size  == CheckPack(bytes)
        whole == size = Len(bytes) /\ Decodes(size)
                   /\ Decode(bytes, size) = [cmd |-> cmd, body |-> body]
    IN  /\ whole <=> len \in 0 .. ByteValues * ByteValues - CmdLen - 1
        /\ whole => Frames(bytes, [cmd |-> cmd, body |-> body])

=============================================================================
