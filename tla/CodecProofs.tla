----------------------------- MODULE CodecProofs -----------------------------
(***************************************************************************)
(* The wire format for every number of byte values: what check_pack and    *)
(* decode make of a buffer, and of what encode makes of a packet.          *)
(***************************************************************************)
EXTENDS Codec, SequenceTheorems, TLAPS

-----------------------------------------------------------------------------
(* What is left of a sequence.                                             *)

Rest(s, k) == SubSeq(s, k + 1, Len(s))

\* The elements of what is left.
LEMMA RestType ==
  ASSUME NEW S, NEW s \in Seq(S), NEW k \in 0 .. Len(s)
  PROVE  /\ Rest(s, k) \in Seq(S)
         /\ Len(Rest(s, k)) = Len(s) - k
         /\ \A i \in 1 .. Len(s) - k : Rest(s, k)[i] = s[k + i]
<1>1. \A i \in k + 1 .. Len(s) : s[i] \in S
  OBVIOUS
<1>2. k + 1 \in Int /\ Len(s) \in Int
  OBVIOUS
<1> QED
  BY <1>1, <1>2, SubSeqProperties DEF Rest

\* A part of a sequence.
LEMMA SliceType ==
  ASSUME NEW S, NEW s \in Seq(S), NEW m \in 1 .. Len(s) + 1, NEW n \in m - 1 .. Len(s)
  PROVE  /\ SubSeq(s, m, n) \in Seq(S)
         /\ Len(SubSeq(s, m, n)) = n - m + 1
         /\ \A i \in 1 .. n - m + 1 : SubSeq(s, m, n)[i] = s[m + i - 1]
<1>1. \A i \in m .. n : s[i] \in S
  OBVIOUS
<1>2. m \in Int /\ n \in Int /\ (~(m <= n) => n - m + 1 = 0)
  OBVIOUS
<1> QED
  BY <1>1, <1>2, SubSeqProperties

\* What arrives is appended to what is left.
LEMMA RestGrows ==
  ASSUME NEW S, NEW s \in Seq(S), NEW t \in Seq(S), NEW k \in 0 .. Len(s)
  PROVE  Rest(s \o t, k) = Rest(s, k) \o t
<1> DEFINE u == s \o t
           r == Rest(s, k)
           w == r \o t
<1>1. /\ u \in Seq(S) /\ Len(u) = Len(s) + Len(t)
      /\ \A i \in 1 .. Len(s) + Len(t) :
           u[i] = IF i <= Len(s) THEN s[i] ELSE t[i - Len(s)]
  BY ConcatProperties
<1>2. /\ r \in Seq(S) /\ Len(r) = Len(s) - k
      /\ \A i \in 1 .. Len(s) - k : r[i] = s[k + i]
  BY RestType
<1> HIDE DEF u, r
<1>3. /\ w \in Seq(S)
      /\ Len(w) = Len(r) + Len(t)
      /\ \A i \in 1 .. Len(r) + Len(t) :
           w[i] = IF i <= Len(r) THEN r[i] ELSE t[i - Len(r)]
  BY <1>2, ConcatProperties
<1> HIDE DEF w
<1>4. k \in 0 .. Len(u)
  BY <1>1
<1>5. /\ Rest(u, k) \in Seq(S)
      /\ Len(Rest(u, k)) = Len(u) - k
      /\ \A i \in 1 .. Len(u) - k : Rest(u, k)[i] = u[k + i]
  BY <1>1, <1>4, RestType
<1>6. Len(Rest(u, k)) = Len(w)
  BY <1>1, <1>2, <1>3, <1>5
<1>7. ASSUME NEW i \in 1 .. Len(Rest(u, k))
      PROVE  Rest(u, k)[i] = w[i]
  <2>1. Rest(u, k)[i] = u[k + i] /\ k + i \in 1 .. Len(s) + Len(t)
    BY <1>1, <1>5
  <2>2. u[k + i] = IF k + i <= Len(s) THEN s[k + i] ELSE t[k + i - Len(s)]
    BY <1>1, <2>1
  <2>3. CASE i <= Len(s) - k
    BY <1>2, <1>3, <1>6, <2>1, <2>2, <2>3
  <2>4. CASE ~(i <= Len(s) - k)
    <3>1. i - Len(r) = k + i - Len(s)
      BY <1>2
    <3>2. w[i] = t[i - Len(r)]
      BY <1>2, <1>3, <1>6, <2>4
    <3> QED
      BY <2>1, <2>2, <2>4, <3>1, <3>2
  <2> QED
    BY <2>3, <2>4
<1>8. Rest(u, k) = w
  BY <1>3, <1>5, <1>6, <1>7, SeqEqual
<1> QED
  BY <1>8 DEF u, w, r

\* What is left when n more elements are taken.
LEMMA RestOfRest ==
  ASSUME NEW S, NEW s \in Seq(S), NEW k \in 0 .. Len(s), NEW n \in 0 .. Len(s) - k
  PROVE  Rest(Rest(s, k), n) = Rest(s, k + n)
<1> DEFINE r == Rest(s, k)
           v == Rest(s, k + n)
<1>1. /\ r \in Seq(S)
      /\ Len(r) = Len(s) - k
      /\ \A i \in 1 .. Len(s) - k : r[i] = s[k + i]
  BY RestType
<1>2. k + n \in 0 .. Len(s)
  OBVIOUS
<1>3. /\ v \in Seq(S)
      /\ Len(v) = Len(s) - (k + n)
      /\ \A i \in 1 .. Len(s) - (k + n) : v[i] = s[(k + n) + i]
  BY <1>2, RestType
<1> HIDE DEF r, v
<1>4. n \in 0 .. Len(r)
  BY <1>1
<1>5. /\ Rest(r, n) \in Seq(S)
      /\ Len(Rest(r, n)) = Len(r) - n
      /\ \A i \in 1 .. Len(r) - n : Rest(r, n)[i] = r[n + i]
  BY <1>1, <1>4, RestType
<1>6. Len(Rest(r, n)) = Len(v)
  BY <1>1, <1>3, <1>5
<1>7. ASSUME NEW i \in 1 .. Len(v)
      PROVE  Rest(r, n)[i] = v[i]
  <2>1. Rest(r, n)[i] = r[n + i] /\ n + i \in 1 .. Len(s) - k
    BY <1>1, <1>3, <1>5, <1>6
  <2>2. r[n + i] = s[k + (n + i)]
    BY <1>1, <2>1
  <2>3. k + (n + i) = (k + n) + i
    BY <1>3
  <2> QED
    BY <1>3, <2>1, <2>2, <2>3
<1>8. Rest(r, n) = v
  BY <1>3, <1>5, <1>6, <1>7, SeqEqual
<1> QED
  BY <1>8 DEF r, v

\* The first n elements of what is left.
LEMMA RestBegins ==
  ASSUME NEW S, NEW s \in Seq(S), NEW k \in 0 .. Len(s), NEW n \in 0 .. Len(s) - k
  PROVE  SubSeq(Rest(s, k), 1, n) = SubSeq(s, k + 1, k + n)
<1> DEFINE r == Rest(s, k)
           v == SubSeq(s, k + 1, k + n)
           w == SubSeq(r, 1, n)
<1>1. /\ r \in Seq(S)
      /\ Len(r) = Len(s) - k
      /\ \A i \in 1 .. Len(s) - k : r[i] = s[k + i]
  BY RestType
<1>2. k + 1 \in 1 .. Len(s) + 1 /\ k + n \in (k + 1) - 1 .. Len(s)
  OBVIOUS
<1>3. /\ v \in Seq(S)
      /\ Len(v) = (k + n) - (k + 1) + 1
      /\ \A i \in 1 .. (k + n) - (k + 1) + 1 : v[i] = s[(k + 1) + i - 1]
  BY <1>2, SliceType
<1> HIDE DEF r, v
<1>4. 1 \in 1 .. Len(r) + 1 /\ n \in 1 - 1 .. Len(r)
  BY <1>1
<1>5. /\ w \in Seq(S)
      /\ Len(w) = n - 1 + 1
      /\ \A i \in 1 .. n - 1 + 1 : w[i] = r[1 + i - 1]
  BY <1>1, <1>4, SliceType
<1> HIDE DEF w
<1>6. Len(w) = n /\ Len(v) = n
  BY <1>3, <1>5
<1>7. ASSUME NEW i \in 1 .. n
      PROVE  w[i] = v[i]
  <2>1. i \in 1 .. n - 1 + 1 /\ i \in 1 .. (k + n) - (k + 1) + 1 /\ i \in 1 .. Len(s) - k
    OBVIOUS
  <2>2. w[i] = r[1 + i - 1] /\ v[i] = s[(k + 1) + i - 1] /\ r[i] = s[k + i]
    BY <1>1, <1>3, <1>5, <2>1
  <2>3. 1 + i - 1 = i /\ (k + 1) + i - 1 = k + i
    OBVIOUS
  <2> QED
    BY <2>2, <2>3
<1>8. w = v
  BY <1>3, <1>5, <1>6, <1>7, SeqEqual
<1> QED
  BY <1>8 DEF r, v, w

-----------------------------------------------------------------------------
(* The wire format.                                                        *)

\* Two bytes make a number.
LEMMA WordType ==
  ASSUME NEW low \in Byte, NEW high \in Byte
  PROVE  Word(low, high) \in Nat
<1>1. ByteValues \in Nat /\ high \in Nat /\ low \in Nat
  BY CodecAssumption DEF Byte
<1>2. ByteValues * high \in Nat
  BY <1>1
<1> QED
  BY <1>1, <1>2 DEF Word

\* check_pack waits, rejects the prefix, or finds a packet that has arrived.
LEMMA CheckPackCases ==
  ASSUME NEW data \in Seq(Byte)
  PROVE  \/ CheckPack(data) = 0
         \/ /\ CheckPack(data) = -1
            /\ Len(data) >= SizedLen
            /\ SubSeq(data, 1, 2) # <<PrefixT, PrefixC>>
         \/ /\ CheckPack(data) \in SizedLen .. Len(data)
            /\ SubSeq(data, 1, 2) = <<PrefixT, PrefixC>>
            /\ CheckPack(data) = Word(data[3], data[4]) + SizedLen
<1>1. CASE Len(data) < SizedLen
  BY <1>1 DEF CheckPack, SizedLen
<1>2. CASE Len(data) >= SizedLen /\ SubSeq(data, 1, 2) # <<PrefixT, PrefixC>>
  BY <1>2 DEF CheckPack, SizedLen
<1>3. CASE Len(data) >= SizedLen /\ SubSeq(data, 1, 2) = <<PrefixT, PrefixC>>
  <2>1. Word(data[3], data[4]) \in Nat
    <3>1. data[3] \in Byte /\ data[4] \in Byte
      BY <1>3 DEF SizedLen
    <3> QED
      BY <3>1, WordType
  <2>2. CheckPack(data) = IF Len(data) >= Word(data[3], data[4]) + SizedLen
                          THEN Word(data[3], data[4]) + SizedLen ELSE 0
    BY <1>3 DEF CheckPack, SizedLen
  <2> QED
    BY <1>3, <2>1, <2>2 DEF SizedLen
<1> QED
  BY <1>1, <1>2, <1>3 DEF SizedLen

\* The beginning of a buffer that check_pack measures and decode takes apart
\* is framed as the format has it.
LEMMA PacketFrames ==
  ASSUME NEW data \in Seq(Byte), CheckPack(data) > 0, Decodes(CheckPack(data))
  PROVE  /\ Frames(SubSeq(data, 1, CheckPack(data)), Decode(data, CheckPack(data)))
         /\ Decode(data, CheckPack(data)).body \in Seq(Byte)
<1> DEFINE n == CheckPack(data)
           bytes == SubSeq(data, 1, n)
           body == SubSeq(data, HeadLen + 1, n)
<1>1. /\ n \in HeadLen .. Len(data)
      /\ SubSeq(data, 1, 2) = <<PrefixT, PrefixC>>
      /\ n = Word(data[3], data[4]) + SizedLen
  BY CheckPackCases DEF Decodes, HeadLen, SizedLen
<1> HIDE DEF n
<1>2. /\ bytes \in Seq(Byte)
      /\ Len(bytes) = n
      /\ \A i \in 1 .. n : bytes[i] = data[i]
  <2>1. \A i \in 1 .. n : data[i] \in Byte
    BY <1>1
  <2> QED
    BY <1>1, <2>1, SubSeqProperties DEF HeadLen
<1>3. /\ body \in Seq(Byte)
      /\ Len(body) = n - HeadLen
      /\ \A i \in 1 .. n - HeadLen : body[i] = data[HeadLen + i]
  <2>1. \A i \in HeadLen + 1 .. n : data[i] \in Byte
    BY <1>1 DEF HeadLen
  <2>2. HeadLen + 1 \in Int /\ n \in Int
    BY <1>1 DEF HeadLen
  <2> QED
    BY <1>1, <2>1, <2>2, SubSeqProperties DEF HeadLen
<1>4. SubSeq(bytes, 1, 2) = SubSeq(data, 1, 2)
  <2>1. /\ SubSeq(bytes, 1, 2) \in Seq(Byte)
        /\ Len(SubSeq(bytes, 1, 2)) = 2
        /\ \A i \in 1 .. 2 : SubSeq(bytes, 1, 2)[i] = bytes[i]
    <3>1. \A i \in 1 .. 2 : bytes[i] \in Byte
      BY <1>1, <1>2 DEF HeadLen
    <3> HIDE DEF bytes
    <3> QED
      BY <3>1, SubSeqProperties
  <2>2. /\ SubSeq(data, 1, 2) \in Seq(Byte)
        /\ Len(SubSeq(data, 1, 2)) = 2
        /\ \A i \in 1 .. 2 : SubSeq(data, 1, 2)[i] = data[i]
    <3>1. \A i \in 1 .. 2 : data[i] \in Byte
      BY <1>1 DEF HeadLen
    <3> QED
      BY <3>1, SubSeqProperties
  <2>3. \A i \in 1 .. 2 : bytes[i] = data[i]
    BY <1>1, <1>2 DEF HeadLen
  <2> HIDE DEF bytes
  <2> QED
    BY <2>1, <2>2, <2>3, SeqEqual
<1>5. SubSeq(bytes, HeadLen + 1, Len(bytes)) = body
  <2> DEFINE rest == SubSeq(bytes, HeadLen + 1, n)
  <2>1. /\ rest \in Seq(Byte)
        /\ Len(rest) = n - HeadLen
        /\ \A i \in 1 .. n - HeadLen : rest[i] = bytes[HeadLen + i]
    <3>1. \A i \in HeadLen + 1 .. n : bytes[i] \in Byte
      BY <1>1, <1>2 DEF HeadLen
    <3>2. HeadLen + 1 \in Int /\ n \in Int
      BY <1>1 DEF HeadLen
    <3> HIDE DEF bytes
    <3> QED
      BY <1>1, <3>1, <3>2, SubSeqProperties DEF HeadLen
  <2>2. \A i \in 1 .. n - HeadLen : rest[i] = body[i]
    BY <1>1, <1>2, <1>3, <2>1 DEF HeadLen
  <2>3. rest = body
    <3> HIDE DEF rest, body
    <3> QED
      BY <1>3, <2>1, <2>2, SeqEqual
  <2> QED
    BY <1>2, <2>3
<1>6. /\ Decode(data, n).body = body
      /\ Decode(data, n).cmd = Word(data[5], data[6])
  BY DEF Decode
<1>7. \A i \in 1 .. 6 : bytes[i] = data[i]
  BY <1>1, <1>2 DEF HeadLen
<1>8. Word(data[3], data[4]) = CmdLen + Len(body)
  <2>1. Word(data[3], data[4]) \in Nat
    <3>1. data[3] \in Byte /\ data[4] \in Byte
      BY <1>1 DEF HeadLen
    <3> QED
      BY <3>1, WordType
  <2> HIDE DEF body
  <2> QED
    BY <1>1, <1>3, <2>1 DEF HeadLen, SizedLen, CmdLen
<1>9. Frames(bytes, Decode(data, n))
  <2>1. Len(bytes) = HeadLen + Len(body)
    <3> HIDE DEF body, bytes
    <3> QED
      BY <1>1, <1>2, <1>3 DEF HeadLen
  <2>3. SubSeq(bytes, 1, 2) = <<PrefixT, PrefixC>>
    BY <1>1, <1>4
  <2> HIDE DEF body, bytes
  <2>2. bytes[3] = data[3] /\ bytes[4] = data[4] /\ bytes[5] = data[5] /\ bytes[6] = data[6]
    BY <1>7
  <2>4. Word(bytes[5], bytes[6]) = Decode(data, n).cmd
    BY <1>6, <2>2
  <2>5. Word(bytes[3], bytes[4]) = CmdLen + Len(body)
    BY <1>8, <2>2
  <2> QED
    BY <1>5, <1>6, <2>1, <2>3, <2>4, <2>5 DEF Frames
<1> QED
  BY <1>3, <1>6, <1>9 DEF n

-----------------------------------------------------------------------------
(* The round trip.                                                         *)

Words == 0 .. ByteValues * ByteValues - 1

\* A pair is appended to a sequence.
LEMMA ConcatPair ==
  ASSUME NEW S, NEW s \in Seq(S), NEW t \in Seq(S), Len(t) = 2
  PROVE  /\ s \o t \in Seq(S)
         /\ Len(s \o t) = Len(s) + 2
         /\ \A i \in 1 .. Len(s) : (s \o t)[i] = s[i]
         /\ (s \o t)[Len(s) + 1] = t[1]
         /\ (s \o t)[Len(s) + 2] = t[2]
<1> DEFINE u == s \o t
<1>1. /\ u \in Seq(S) /\ Len(u) = Len(s) + Len(t)
      /\ \A i \in 1 .. Len(s) + Len(t) :
           u[i] = IF i <= Len(s) THEN s[i] ELSE t[i - Len(s)]
  BY ConcatProperties
<1> HIDE DEF u
<1>2. Len(s) \in Nat
  OBVIOUS
<1>3. \A i \in 1 .. Len(s) : u[i] = s[i]
  BY <1>1, <1>2
<1>4. /\ u[Len(s) + 1] = t[Len(s) + 1 - Len(s)]
      /\ u[Len(s) + 2] = t[Len(s) + 2 - Len(s)]
  BY <1>1, <1>2
<1>5. Len(s) + 1 - Len(s) = 1 /\ Len(s) + 2 - Len(s) = 2
  BY <1>2
<1>6. u[Len(s) + 1] = t[1] /\ u[Len(s) + 2] = t[2]
  BY <1>4, <1>5
<1> QED
  BY <1>1, <1>3, <1>6 DEF u

\* The two bytes of a number are bytes, and make it again unless it was cut.
LEMMA WordBytesType ==
  ASSUME NEW n \in Nat
  PROVE  /\ WordBytes(n) \in Seq(Byte) /\ Len(WordBytes(n)) = 2
         /\ WordBytes(n)[1] \in Byte /\ WordBytes(n)[2] \in Byte
         /\ Word(WordBytes(n)[1], WordBytes(n)[2]) \in Words
         /\ n \in Words => Word(WordBytes(n)[1], WordBytes(n)[2]) = n
<1> DEFINE low == n % ByteValues
           rest == n \div ByteValues
           high == rest % ByteValues
<1>1. ByteValues \in Nat /\ ByteValues > 2
  BY CodecAssumption
<1>2. low \in 0 .. ByteValues - 1 /\ rest \in Nat /\ n = ByteValues * rest + low
  BY <1>1
<1>3. high \in 0 .. ByteValues - 1 /\ (rest < ByteValues => high = rest)
  BY <1>1, <1>2
<1>4. WordBytes(n) = <<low, high>>
  BY DEF WordBytes
<1> HIDE DEF low, high, rest
<1>5. ByteValues * high \in 0 .. ByteValues * (ByteValues - 1)
  BY <1>1, <1>3
<1>6. ByteValues * (ByteValues - 1) = ByteValues * ByteValues - ByteValues
  BY <1>1
<1>7. low + ByteValues * high \in Words
  BY <1>1, <1>2, <1>5, <1>6 DEF Words
<1>8. ASSUME n \in Words
      PROVE  low + ByteValues * high = n
  <2>1. SUFFICES ASSUME ~(rest < ByteValues)
                 PROVE  FALSE
    <3>1. ByteValues * rest \in Nat
      BY <1>1, <1>2
    <3> QED
      BY <1>2, <1>3, <3>1
  <2>2. ByteValues * rest >= ByteValues * ByteValues
    BY <1>1, <1>2, <2>1
  <2>3. ByteValues * ByteValues \in Nat /\ ByteValues * rest \in Nat
    BY <1>1, <1>2
  <2>4. ByteValues * rest <= n /\ n < ByteValues * ByteValues
    BY <1>2, <1>8, <2>3 DEF Words
  <2> HIDE DEF Words
  <2> QED
    BY <2>2, <2>3, <2>4
<1>9. /\ low \in Byte /\ high \in Byte
      /\ WordBytes(n)[1] = low /\ WordBytes(n)[2] = high
  BY <1>2, <1>3, <1>4 DEF Byte
<1>10. WordBytes(n) \in Seq(Byte) /\ Len(WordBytes(n)) = 2
  BY <1>4, <1>9
<1> QED
  BY <1>7, <1>8, <1>9, <1>10 DEF Word

\* The bytes encode makes of a body, one by one.
LEMMA EncodeBytes ==
  ASSUME NEW cmd \in Words, NEW body \in Seq(Byte)
  PROVE  LET bytes == Encode(cmd, body, Len(body))
         IN  /\ bytes \in Seq(Byte)
             /\ Len(bytes) = Len(body) + HeadLen
             /\ bytes[1] = PrefixT /\ bytes[2] = PrefixC
             /\ bytes[3] = WordBytes(Len(body) + CmdLen)[1]
             /\ bytes[4] = WordBytes(Len(body) + CmdLen)[2]
             /\ bytes[5] = WordBytes(cmd)[1] /\ bytes[6] = WordBytes(cmd)[2]
             /\ \A i \in 1 .. Len(body) : bytes[HeadLen + i] = body[i]
<1> DEFINE len == Len(body)
           size == WordBytes(len + CmdLen)
           word == WordBytes(cmd)
           prefix == <<PrefixT, PrefixC>>
           head == prefix \o size \o word
           copied == IF len > 0 THEN SubSeq(body, 1, len) ELSE << >>
           all == head \o copied
           bytes == SubSeq(all, 1, len + HeadLen)
<1>1. len \in Nat /\ len + CmdLen \in Nat /\ cmd \in Nat
  BY DEF CmdLen, Words
<1>2. /\ size \in Seq(Byte) /\ Len(size) = 2
      /\ word \in Seq(Byte) /\ Len(word) = 2
  BY <1>1, WordBytesType
<1>3. prefix \in Seq(Byte) /\ Len(prefix) = 2 /\ prefix[1] = PrefixT /\ prefix[2] = PrefixC
  BY CodecAssumption
<1>4. copied = body
  <2>1. CASE len > 0
    <3>1. 1 \in 1 .. Len(body) + 1 /\ len \in 1 - 1 .. Len(body)
      BY <1>1
    <3>2. /\ SubSeq(body, 1, len) \in Seq(Byte)
          /\ Len(SubSeq(body, 1, len)) = len - 1 + 1
          /\ \A i \in 1 .. len - 1 + 1 : SubSeq(body, 1, len)[i] = body[1 + i - 1]
      BY <3>1, SliceType
    <3>3. SubSeq(body, 1, len) = body
      <4> DEFINE part == SubSeq(body, 1, len)
      <4>1. Len(part) = Len(body) /\ \A i \in 1 .. Len(part) : part[i] = body[i]
        BY <1>1, <3>2
      <4> HIDE DEF part
      <4>2. part \in Seq(Byte)
        BY <3>2 DEF part
      <4>3. part = body
        BY <4>1, <4>2, SeqEqual
      <4> QED
        BY <4>3 DEF part
    <3> QED
      BY <2>1, <3>3
  <2>2. CASE ~(len > 0)
    BY <1>1, <2>2
  <2> QED
    BY <2>1, <2>2
<1> HIDE DEF size, word, prefix, copied
<1>5. /\ prefix \o size \in Seq(Byte) /\ Len(prefix \o size) = 4
      /\ (prefix \o size)[1] = prefix[1] /\ (prefix \o size)[2] = prefix[2]
      /\ (prefix \o size)[3] = size[1] /\ (prefix \o size)[4] = size[2]
  <2>1. /\ prefix \o size \in Seq(Byte) /\ Len(prefix \o size) = Len(prefix) + 2
        /\ \A i \in 1 .. Len(prefix) : (prefix \o size)[i] = prefix[i]
        /\ (prefix \o size)[Len(prefix) + 1] = size[1]
        /\ (prefix \o size)[Len(prefix) + 2] = size[2]
    BY <1>2, <1>3, ConcatPair
  <2> QED
    BY <1>3, <2>1
<1>6. /\ head \in Seq(Byte) /\ Len(head) = 6
      /\ head[1] = prefix[1] /\ head[2] = prefix[2]
      /\ head[3] = size[1] /\ head[4] = size[2]
      /\ head[5] = word[1] /\ head[6] = word[2]
  <2> DEFINE four == prefix \o size
  <2>1. /\ four \in Seq(Byte) /\ Len(four) = 4
        /\ four[1] = prefix[1] /\ four[2] = prefix[2]
        /\ four[3] = size[1] /\ four[4] = size[2]
    BY <1>5
  <2> HIDE DEF four
  <2> DEFINE six == four \o word
  <2>2. /\ six \in Seq(Byte)
        /\ Len(six) = Len(four) + 2
        /\ \A i \in 1 .. Len(four) : six[i] = four[i]
        /\ six[Len(four) + 1] = word[1]
        /\ six[Len(four) + 2] = word[2]
    <3>1. Len(word) = 2 /\ word \in Seq(Byte) /\ four \in Seq(Byte)
      BY <1>2, <2>1
    <3> QED
      BY ONLY <3>1, ConcatPair
  <2>3. head = six
    BY DEF four
  <2> HIDE DEF six, head
  <2>4. /\ Len(six) = 6 /\ \A i \in 1 .. 4 : six[i] = four[i]
        /\ six[5] = word[1] /\ six[6] = word[2]
    BY <2>1, <2>2
  <2> QED
    BY <2>1, <2>2, <2>3, <2>4
<1> HIDE DEF head
<1>7. /\ all \in Seq(Byte) /\ Len(all) = 6 + len
      /\ \A i \in 1 .. 6 : all[i] = head[i]
      /\ \A i \in 1 .. len : all[6 + i] = body[i]
  <2>1. /\ all \in Seq(Byte) /\ Len(all) = Len(head) + Len(body)
        /\ \A i \in 1 .. Len(head) + Len(body) :
             all[i] = IF i <= Len(head) THEN head[i] ELSE body[i - Len(head)]
    BY <1>4, <1>6, ConcatProperties
  <2> HIDE DEF all
  <2>2. ASSUME NEW i \in 1 .. len
        PROVE  all[6 + i] = body[i]
    <3>1. 6 + i \in 1 .. Len(head) + Len(body) /\ ~(6 + i <= Len(head)) /\ 6 + i - Len(head) = i
      BY <1>1, <1>6
    <3> QED
      BY <2>1, <3>1
  <2> QED
    BY <1>1, <1>6, <2>1, <2>2
<1> HIDE DEF all
<1>8. /\ bytes \in Seq(Byte) /\ Len(bytes) = 6 + len
      /\ \A i \in 1 .. 6 + len : bytes[i] = all[i]
  <2>1. 1 \in 1 .. Len(all) + 1 /\ 6 + len \in 1 - 1 .. Len(all)
    BY <1>1, <1>7
  <2>2. bytes = SubSeq(all, 1, 6 + len)
    BY <1>1 DEF HeadLen
  <2>3. /\ SubSeq(all, 1, 6 + len) \in Seq(Byte)
        /\ Len(SubSeq(all, 1, 6 + len)) = 6 + len - 1 + 1
        /\ \A i \in 1 .. 6 + len - 1 + 1 : SubSeq(all, 1, 6 + len)[i] = all[1 + i - 1]
    BY <1>7, <2>1, SliceType
  <2> HIDE DEF bytes
  <2> QED
    BY <1>1, <2>2, <2>3
<1>9. Encode(cmd, body, Len(body)) = bytes
  BY DEF Encode, bytes, all, head, copied, prefix, size, word
<1> HIDE DEF bytes, len
<1>10. len = Len(body) /\ size = WordBytes(Len(body) + CmdLen) /\ word = WordBytes(cmd)
  BY DEF len, size, word
<1>11. \A i \in 1 .. 6 : i \in 1 .. 6 + len /\ bytes[i] = head[i]
  BY <1>1, <1>7, <1>8
<1>12. \A i \in 1 .. len : 6 + i \in 1 .. 6 + len /\ bytes[6 + i] = body[i]
  BY <1>1, <1>7, <1>8
<1>13. /\ Len(bytes) = Len(body) + HeadLen
       /\ \A i \in 1 .. Len(body) : bytes[HeadLen + i] = body[i]
  BY <1>1, <1>8, <1>10, <1>12 DEF HeadLen
<1>14. /\ bytes[1] = PrefixT /\ bytes[2] = PrefixC
       /\ bytes[3] = size[1] /\ bytes[4] = size[2]
       /\ bytes[5] = word[1] /\ bytes[6] = word[2]
  BY <1>3, <1>6, <1>11
<1> QED
  BY <1>8, <1>9, <1>10, <1>13, <1>14

\* What check_pack says of the bytes of encode with anything behind them: the
\* length that was written, cut to 16 bits, whether or not it is theirs.
LEMMA EncodedSize ==
  ASSUME NEW cmd \in Words, NEW body \in Seq(Byte), NEW more \in Seq(Byte)
  PROVE  LET bytes == Encode(cmd, body, Len(body))
             data  == bytes \o more
             size  == WordBytes(Len(body) + CmdLen)
             word  == Word(size[1], size[2])
         IN  /\ data \in Seq(Byte) /\ Len(data) = Len(bytes) + Len(more)
             /\ \A i \in 1 .. Len(bytes) : data[i] = bytes[i]
             /\ CheckPack(data) = IF Len(data) >= word + SizedLen THEN word + SizedLen ELSE 0
<1> DEFINE bytes == Encode(cmd, body, Len(body))
           data == bytes \o more
           size == WordBytes(Len(body) + CmdLen)
           start == SubSeq(data, 1, 2)
<1>1. /\ bytes \in Seq(Byte)
      /\ Len(bytes) = Len(body) + HeadLen
      /\ bytes[1] = PrefixT /\ bytes[2] = PrefixC
      /\ bytes[3] = size[1] /\ bytes[4] = size[2]
  BY EncodeBytes
<1> HIDE DEF bytes, size
<1>2. /\ data \in Seq(Byte) /\ Len(data) = Len(bytes) + Len(more)
      /\ \A i \in 1 .. Len(bytes) + Len(more) :
           data[i] = IF i <= Len(bytes) THEN bytes[i] ELSE more[i - Len(bytes)]
  BY <1>1, ConcatProperties
<1> HIDE DEF data
<1>3. Len(body) \in Nat /\ Len(more) \in Nat
  OBVIOUS
<1>4. \A i \in 1 .. Len(bytes) : data[i] = bytes[i]
  <2>1. Len(bytes) \in Nat
    BY <1>1, <1>3 DEF HeadLen
  <2> QED
    BY <1>2, <1>3, <2>1
<1>5. Len(bytes) >= HeadLen /\ Len(data) >= HeadLen
  BY <1>1, <1>2, <1>3 DEF HeadLen
<1>6. \A i \in 1 .. 4 : data[i] = bytes[i]
  BY <1>1, <1>4, <1>3 DEF HeadLen
<1>7. start = <<PrefixT, PrefixC>>
  <2>1. 1 \in 1 .. Len(data) + 1 /\ 2 \in 1 - 1 .. Len(data)
    BY <1>2, <1>5 DEF HeadLen
  <2>2. /\ start \in Seq(Byte) /\ Len(start) = 2 - 1 + 1
        /\ \A i \in 1 .. 2 - 1 + 1 : start[i] = data[1 + i - 1]
    BY <1>2, <2>1, SliceType
  <2> HIDE DEF start
  <2>3. start[1] = data[1] /\ start[2] = data[2] /\ Len(start) = 2
    BY <2>2
  <2>4. start[1] = PrefixT /\ start[2] = PrefixC
    BY <1>1, <1>6, <2>3
  <2>5. <<PrefixT, PrefixC>> \in Seq(Byte)
    BY CodecAssumption
  <2> QED
    BY <2>2, <2>3, <2>4, <2>5, SeqEqual
<1>8. CheckPack(data) = IF Len(data) >= Word(size[1], size[2]) + SizedLen
                        THEN Word(size[1], size[2]) + SizedLen ELSE 0
  <2>1. data[3] = size[1] /\ data[4] = size[2]
    BY <1>1, <1>6
  <2>2. Len(data) >= SizedLen /\ ~(Len(data) < SizedLen)
    BY <1>2, <1>5 DEF HeadLen, SizedLen
  <2> QED
    BY <1>7, <2>1, <2>2 DEF CheckPack, start
<1> QED
  BY <1>2, <1>4, <1>8 DEF data, bytes, size

\* What encode makes of a packet that is not too long, with any bytes behind
\* it, is measured by check_pack and decoded to the same command and body: the
\* receiver of a stream of packets finds each where the one before ends.
THEOREM RoundTrip ==
  ASSUME NEW cmd \in Words, NEW body \in Seq(Byte), Len(body) + CmdLen \in Words,
         NEW more \in Seq(Byte)
  PROVE  LET bytes == Encode(cmd, body, Len(body))
             data  == bytes \o more
         IN  /\ CheckPack(data) = Len(bytes)
             /\ Decodes(Len(bytes))
             /\ Decode(data, Len(bytes)) = [cmd |-> cmd, body |-> body]
<1> DEFINE bytes == Encode(cmd, body, Len(body))
           data == bytes \o more
           size == WordBytes(Len(body) + CmdLen)
           part == SubSeq(data, HeadLen + 1, Len(bytes))
<1>1. /\ bytes \in Seq(Byte)
      /\ Len(bytes) = Len(body) + HeadLen
      /\ bytes[5] = WordBytes(cmd)[1] /\ bytes[6] = WordBytes(cmd)[2]
      /\ \A i \in 1 .. Len(body) : bytes[HeadLen + i] = body[i]
  BY EncodeBytes
<1>2. /\ data \in Seq(Byte) /\ Len(data) = Len(bytes) + Len(more)
      /\ \A i \in 1 .. Len(bytes) : data[i] = bytes[i]
      /\ CheckPack(data) = IF Len(data) >= Word(size[1], size[2]) + SizedLen
                           THEN Word(size[1], size[2]) + SizedLen ELSE 0
  BY EncodedSize
<1>3. Len(body) + CmdLen \in Nat /\ cmd \in Nat /\ Len(body) \in Nat /\ Len(more) \in Nat
  BY DEF CmdLen, Words
<1>4. /\ Word(size[1], size[2]) = Len(body) + CmdLen
      /\ Word(WordBytes(cmd)[1], WordBytes(cmd)[2]) = cmd
  BY <1>3, WordBytesType
<1> HIDE DEF bytes, data, size
<1>5. CheckPack(data) = Len(bytes)
  BY <1>1, <1>2, <1>3, <1>4 DEF HeadLen, CmdLen, SizedLen
<1>6. Decodes(Len(bytes))
  BY <1>1, <1>3 DEF Decodes, HeadLen
<1>7. Word(data[5], data[6]) = cmd
  <2>1. 5 \in 1 .. Len(bytes) /\ 6 \in 1 .. Len(bytes)
    BY <1>1, <1>3 DEF HeadLen
  <2> QED
    BY <1>1, <1>2, <1>4, <2>1
<1>8. part = body
  <2> DEFINE m == HeadLen + 1
             n == Len(bytes)
  <2>1. m \in 1 .. Len(data) + 1 /\ n \in m - 1 .. Len(data)
    BY <1>1, <1>2, <1>3 DEF HeadLen
  <2> HIDE DEF m, n
  <2>2. /\ SubSeq(data, m, n) \in Seq(Byte)
        /\ Len(SubSeq(data, m, n)) = n - m + 1
        /\ \A i \in 1 .. n - m + 1 : SubSeq(data, m, n)[i] = data[m + i - 1]
    <3>1. data \in Seq(Byte)
      BY <1>2
    <3> QED
      BY <2>1, <3>1, SliceType
  <2>3. /\ part \in Seq(Byte) /\ Len(part) = Len(bytes) - (HeadLen + 1) + 1
        /\ \A i \in 1 .. Len(bytes) - (HeadLen + 1) + 1 : part[i] = data[HeadLen + 1 + i - 1]
    BY <2>2 DEF m, n
  <2> HIDE DEF part
  <2>4. Len(part) = Len(body) /\ Len(bytes) - (HeadLen + 1) + 1 = Len(body)
    BY <1>1, <1>3, <2>3 DEF HeadLen
  <2>5. ASSUME NEW i \in 1 .. Len(body)
        PROVE  part[i] = body[i]
    <3>1. HeadLen + 1 + i - 1 = HeadLen + i /\ HeadLen + i \in 1 .. Len(bytes)
      BY <1>1, <1>3 DEF HeadLen
    <3>2. part[i] = data[HeadLen + i]
      BY <2>3, <2>4, <3>1
    <3> QED
      BY <1>1, <1>2, <3>1, <3>2
  <2> QED
    BY <2>3, <2>4, <2>5, SeqEqual
<1>9. Decode(data, Len(bytes)) = [cmd |-> cmd, body |-> body]
  BY <1>7, <1>8 DEF Decode, part
<1> QED
  BY <1>5, <1>6, <1>9 DEF data, bytes

\* The boundary, for every command, every body and every number of byte
\* values: a body longer than the length field can say never comes out whole.
LEMMA WholeIffFits ==
  ASSUME NEW cmd \in Words, NEW body \in Seq(Byte)
  PROVE  LET bytes == Encode(cmd, body, Len(body))
             size  == CheckPack(bytes)
             whole == size = Len(bytes) /\ Decodes(size)
                        /\ Decode(bytes, size) = [cmd |-> cmd, body |-> body]
         IN  /\ whole <=> Len(body) + CmdLen \in Words
             /\ whole => Frames(bytes, [cmd |-> cmd, body |-> body])
<1> DEFINE bytes == Encode(cmd, body, Len(body))
           packet == [cmd |-> cmd, body |-> body]
           word == Word(WordBytes(Len(body) + CmdLen)[1], WordBytes(Len(body) + CmdLen)[2])
           whole == CheckPack(bytes) = Len(bytes) /\ Decodes(CheckPack(bytes))
                      /\ Decode(bytes, CheckPack(bytes)) = packet
<1>1. bytes \in Seq(Byte) /\ Len(bytes) = Len(body) + HeadLen
  BY EncodeBytes
<1>2. << >> \in Seq(Byte)
  OBVIOUS
<1> HIDE DEF bytes
<1>3. bytes \o << >> = bytes
  BY <1>1, ConcatEmptySeq
<1>4. CheckPack(bytes) = IF Len(bytes) >= word + SizedLen THEN word + SizedLen ELSE 0
  <2> DEFINE data == bytes \o << >>
  <2>1. CheckPack(data) = IF Len(data) >= word + SizedLen THEN word + SizedLen ELSE 0
    BY <1>2, EncodedSize DEF bytes
  <2> HIDE DEF word
  <2> QED
    BY <1>3, <2>1
<1>5. Len(body) \in Nat /\ Len(body) + CmdLen \in Nat
  BY DEF CmdLen
<1>6. word \in Words
  BY <1>5, WordBytesType
<1>7. ASSUME whole
      PROVE  Len(body) + CmdLen \in Words
  <2>1. CheckPack(bytes) = Len(body) + HeadLen
    BY <1>1, <1>7
  <2> HIDE DEF word
  <2>2. word + SizedLen = Len(body) + HeadLen
    BY <1>4, <1>5, <2>1 DEF HeadLen
  <2>3. word = Len(body) + CmdLen
    BY <1>5, <1>6, <2>2 DEF Words, SizedLen, HeadLen, CmdLen
  <2> QED
    BY <1>6, <2>3
<1>8. ASSUME Len(body) + CmdLen \in Words
      PROVE  whole
  <2> DEFINE data == bytes \o << >>
  <2>1. /\ CheckPack(data) = Len(bytes)
        /\ Decodes(Len(bytes))
        /\ Decode(data, Len(bytes)) = packet
    BY <1>2, <1>8, RoundTrip DEF bytes
  <2> QED
    BY <1>3, <2>1
<1>9. ASSUME whole
      PROVE  Frames(bytes, packet)
  <2>1. /\ CheckPack(bytes) > 0 /\ Decodes(CheckPack(bytes))
        /\ Decode(bytes, CheckPack(bytes)) = packet
    BY <1>1, <1>5, <1>9 DEF HeadLen
  <2>2. Frames(SubSeq(bytes, 1, CheckPack(bytes)), packet)
    BY <1>1, <2>1, PacketFrames
  <2>3. SubSeq(bytes, 1, CheckPack(bytes)) = bytes
    <3> DEFINE all == SubSeq(bytes, 1, Len(bytes))
    <3>1. 1 \in 1 .. Len(bytes) + 1 /\ Len(bytes) \in 1 - 1 .. Len(bytes)
      BY <1>1, <1>5 DEF HeadLen
    <3>2. /\ all \in Seq(Byte) /\ Len(all) = Len(bytes) - 1 + 1
          /\ \A i \in 1 .. Len(bytes) - 1 + 1 : all[i] = bytes[1 + i - 1]
      BY <1>1, <3>1, SliceType
    <3> HIDE DEF all
    <3>3. Len(all) = Len(bytes) /\ \A i \in 1 .. Len(all) : all[i] = bytes[i]
      BY <1>1, <3>2
    <3>4. all = bytes
      BY <1>1, <3>2, <3>3, SeqEqual
    <3> QED
      BY <1>9, <3>4 DEF all
  <2> QED
    BY <2>2, <2>3
<1> QED
  BY <1>7, <1>8, <1>9 DEF bytes

\* A negative length, as a failing readCfg returns it: less than a head is
\* sent.
LEMMA NegativeTorn ==
  ASSUME NEW cmd \in Words, NEW len \in {-2, -1}
  PROVE  Len(Encode(cmd, << >>, len)) = len + HeadLen
<1> DEFINE head == <<PrefixT, PrefixC>> \o WordBytes(len + CmdLen) \o WordBytes(cmd)
           all == head \o << >>
<1>1. /\ <<PrefixT, PrefixC>> \in Seq(Byte) /\ Len(<<PrefixT, PrefixC>>) = 2
      /\ len + CmdLen \in Nat /\ cmd \in Nat
  BY CodecAssumption DEF CmdLen, Words
<1>2. /\ WordBytes(len + CmdLen) \in Seq(Byte) /\ Len(WordBytes(len + CmdLen)) = 2
      /\ WordBytes(cmd) \in Seq(Byte) /\ Len(WordBytes(cmd)) = 2
  BY <1>1, WordBytesType
<1>3. head \in Seq(Byte) /\ Len(head) = 6
  <2> DEFINE prefix == <<PrefixT, PrefixC>>
             size == WordBytes(len + CmdLen)
             word == WordBytes(cmd)
             four == prefix \o size
  <2>1. /\ prefix \in Seq(Byte) /\ Len(prefix) = 2
        /\ size \in Seq(Byte) /\ Len(size) = 2
        /\ word \in Seq(Byte) /\ Len(word) = 2
    BY <1>1, <1>2
  <2>2. head = four \o word
    OBVIOUS
  <2> HIDE DEF head, prefix, size, word
  <2>3. four \in Seq(Byte) /\ Len(four) = 4
    BY <2>1, ConcatPair
  <2> HIDE DEF four
  <2>4. four \o word \in Seq(Byte) /\ Len(four \o word) = 6
    <3>1. Len(word) = 2 /\ word \in Seq(Byte) /\ four \in Seq(Byte)
      BY <2>1, <2>3
    <3>2. four \o word \in Seq(Byte) /\ Len(four \o word) = Len(four) + 2
      BY ONLY <3>1, ConcatPair
    <3> QED
      BY <2>3, <3>2
  <2> QED
    BY <2>2, <2>4
<1>4. all = head
  BY <1>3, ConcatEmptySeq
<1>5. Encode(cmd, << >>, len) = SubSeq(all, 1, len + HeadLen)
  <2>1. ~(len > 0)
    OBVIOUS
  <2> QED
    BY <2>1 DEF Encode, head
<1> HIDE DEF all
<1> DEFINE n == len + HeadLen
<1>6. /\ 1 \in 1 .. Len(all) + 1 /\ n \in 1 - 1 .. Len(all)
      /\ all \in Seq(Byte) /\ n \in Int
  <2>1. len = -2 \/ len = -1
    OBVIOUS
  <2>2. all \in Seq(Byte) /\ Len(all) = 6
    BY <1>3, <1>4
  <2> QED
    BY <2>1, <2>2 DEF HeadLen
<1> HIDE DEF n
<1>7. Len(SubSeq(all, 1, n)) = n
  <2>1. Len(SubSeq(all, 1, n)) = n - 1 + 1
    BY <1>6, SliceType
  <2> QED
    BY <1>6, <2>1
<1> QED
  BY <1>5, <1>7 DEF n

\* codec.cpp: EncodingFrames for every number of byte values, 256 of which the
\* runs cannot enumerate.
THEOREM EncodingBoundary == EncodingFrames
<1>1. ByteValues \in Nat /\ ByteValues > 2 /\ ByteValues * ByteValues \in Nat
  BY CodecAssumption
<1>2. {0, ByteValues + 1} \subseteq Words
  <2>1. ByteValues * ByteValues >= 3 * ByteValues
    BY <1>1
  <2> QED
    BY <1>1, <2>1 DEF Words
<1> SUFFICES ASSUME NEW cmd \in {0, ByteValues + 1},
                    NEW len \in -2 .. ByteValues * ByteValues + 1, NEW b \in Byte
             PROVE  LET body  == [i \in 1 .. IF len < 0 THEN 0 ELSE len |-> b]
                        bytes == Encode(cmd, body, len)
                        size  == CheckPack(bytes)
                        whole == size = Len(bytes) /\ Decodes(size)
                                   /\ Decode(bytes, size) = [cmd |-> cmd, body |-> body]
                    IN  /\ whole <=> len \in 0 .. ByteValues * ByteValues - CmdLen - 1
                        /\ whole => Frames(bytes, [cmd |-> cmd, body |-> body])
  BY DEF EncodingFrames
<1> DEFINE body == [i \in 1 .. IF len < 0 THEN 0 ELSE len |-> b]
<1>3. cmd \in Words /\ len \in Int
  BY <1>1, <1>2
<1>4. CASE len < 0
  <2>1. len \in {-2, -1} /\ ~(len \in 0 .. ByteValues * ByteValues - CmdLen - 1)
    BY <1>1, <1>4
  <2>2. body = << >>
    BY <1>4
  <2> DEFINE bytes == Encode(cmd, << >>, len)
  <2>3. Len(bytes) = len + HeadLen
    BY <1>3, <2>1, NegativeTorn
  <2> HIDE DEF bytes
  <2>4. ~(CheckPack(bytes) = Len(bytes) /\ Decodes(CheckPack(bytes)))
    BY <1>3, <1>4, <2>3 DEF Decodes, HeadLen
  <2> HIDE DEF body
  <2> QED
    BY <2>1, <2>2, <2>4 DEF body, bytes
<1>5. CASE ~(len < 0)
  <2>1. len \in Nat
    BY <1>3, <1>5
  <2>2. body \in Seq(Byte) /\ Len(body) = len
    <3>1. body = [i \in 1 .. len |-> b]
      BY <1>5
    <3> QED
      BY <2>1, <3>1
  <2>3. (len + CmdLen \in Words) <=> (len \in 0 .. ByteValues * ByteValues - CmdLen - 1)
    BY <1>1, <2>1 DEF Words, CmdLen
  <2> HIDE DEF body
  <2> DEFINE bytes == Encode(cmd, body, Len(body))
             whole == CheckPack(bytes) = Len(bytes) /\ Decodes(CheckPack(bytes))
                        /\ Decode(bytes, CheckPack(bytes)) = [cmd |-> cmd, body |-> body]
  <2>4. /\ whole <=> Len(body) + CmdLen \in Words
        /\ whole => Frames(bytes, [cmd |-> cmd, body |-> body])
    BY <1>3, <2>2, WholeIffFits
  <2>5. bytes = Encode(cmd, body, len)
    BY <2>2
  <2> HIDE DEF bytes
  <2>6. (Len(body) + CmdLen \in Words) <=> (len \in 0 .. ByteValues * ByteValues - CmdLen - 1)
    BY <2>2, <2>3
  <2> QED
    BY <2>4, <2>5, <2>6 DEF body
<1> QED
  BY <1>4, <1>5

=============================================================================
