------------------------- MODULE Inet6Packet_proofs -------------------------
(***************************************************************************)
(* The checksum of inet6.c finds every damage to a single byte but those   *)
(* of the length, every intact request is handled, and what the device     *)
(* answers verifies, for bytes of any size, payloads of any length and any *)
(* padding.  The texts of ip6toa denote the addresses they are made from.  *)
(***************************************************************************)
EXTENDS Inet6Packet_lemmas

-----------------------------------------------------------------------------
(* The invariant.                                                          *)

TypeOf(k) == IF k = "udp" THEN HDR_UDP ELSE HDR_ICMP6

HdrLen(k) == IF k = "udp" THEN UDP_HDR_LEN ELSE ICMP_HDR_LEN

(* What a host sends: the request, with a checksum that verifies, and for  *)
(* UDP is not zero.                                                        *)
SentOK ==
  LET n  == Len(sent.body)
      at == SumAt(sent.next)
  IN  /\ sent.next = TypeOf(kind) /\ sent.dst \in {ll_ip6_addr, snm_ip6_addr}
      /\ sent.length = htons(n) /\ n <= MaxPayload + UDP_HDR_LEN
      /\ n = HdrLen(kind) + Len(data)
      /\ sent.body = WithField(RequestBody(kind, data), at, Field(sent.body, at))
      /\ Multiple(Raw(sent, sent.next, n))
      /\ kind = "udp" => Load(Field(sent.body, at)) # 0

(* In p and q, exactly one of the bytes that are summed is different.      *)
OneByteOff(p, q, n) ==
  /\ p.length = q.length /\ n <= Len(p.body) /\ n <= Len(q.body)
  /\ \E j \in 1 .. n + 4 : /\ Bytes(p, n)[j] # Bytes(q, n)[j]
                           /\ \A k \in 1 .. n + 4 : k # j => Bytes(p, n)[k] = Bytes(q, n)[k]

(* What arrives.                                                           *)
FrameOK ==
  /\ damage \in {"none", "length"} =>
       /\ frame.dst = sent.dst /\ frame.next = sent.next /\ frame.src = sent.src
       /\ \E pad \in Pads : frame.body = sent.body \o pad
  /\ damage = "none" => frame.length = sent.length
  /\ damage = "next" => \E b \in Byte \ {sent.next} : frame = [sent EXCEPT !.next = b]
  /\ damage \in {"src", "dst", "body"} =>
       frame.next = sent.next /\ OneByteOff(sent, frame, Len(sent.body))
  /\ damage = "cut" => frame.length = sent.length /\ Len(frame.body) < Len(sent.body)

PacketInv ==
  /\ TypeOK
  /\ pc # "host" => SentOK
  /\ pc \in {"device", "done"} => FrameOK
  /\ pc # "done" => up = {} /\ answer = {}
  /\ UdpExact /\ WellFormedHandled /\ AnswersVerify

-----------------------------------------------------------------------------
(* The requests and the replies.                                           *)

(* Requests are one or the other.                                          *)
LEMMA RequestIs ==
  ASSUME NEW k \in Kind, NEW d \in Seq(Byte),
         k = "udp" => Len(d) + UDP_HDR_LEN \in 0 .. Mask
  PROVE  LET b == RequestBody(k, d)
         IN  /\ b \in Seq(Byte) /\ Len(b) = HdrLen(k) + Len(d)
             /\ \A i \in 1 .. Len(d) : b[HdrLen(k) + i] = d[i]
             /\ Field(b, SumAt(TypeOf(k))) = <<0, 0>>
             /\ k = "udp" => Field(b, 5) = htons(Len(d) + UDP_HDR_LEN)
             /\ k # "udp" => b[1] = (IF k = "ping" THEN 2 ELSE 1) /\ b[2] = 0
<1>1. CASE k = "udp"
  <2>1. RequestBody(k, d) = UdpBody(d) /\ HdrLen(k) = UDP_HDR_LEN /\ SumAt(TypeOf(k)) = 7
    BY <1>1, Zenon DEF RequestBody, HdrLen, SumAt, TypeOf
  <2> QED  BY <1>1, <2>1, UdpBodyIs
<1>2. CASE k # "udp"
  <2> DEFINE type == IF k = "ping" THEN 2 ELSE 1
  <2>1. /\ RequestBody(k, d) = IcmpBody(type, d)
        /\ HdrLen(k) = ICMP_HDR_LEN /\ SumAt(TypeOf(k)) = 3 /\ type \in Byte
    BY <1>2, SmallBytes, Zenon DEF RequestBody, HdrLen, SumAt, TypeOf, HDR_UDP, HDR_ICMP6, Kind,
       ICMP6_ECHO_REQUEST, ICMP6_NDP_N_SOLICIT
  <2> HIDE DEF type
  <2>2. /\ IcmpBody(type, d) \in Seq(Byte)
        /\ Len(IcmpBody(type, d)) = ICMP_HDR_LEN + Len(d)
        /\ \A i \in 1 .. Len(d) : IcmpBody(type, d)[ICMP_HDR_LEN + i] = d[i]
        /\ Field(IcmpBody(type, d), 3) = <<0, 0>>
        /\ IcmpBody(type, d)[1] = type /\ IcmpBody(type, d)[2] = 0
    BY <2>1, IcmpBodyIs, Zenon
  <2> QED  BY <1>2, <2>1, <2>2 DEF type
<1> QED  BY <1>1, <1>2, Zenon

-----------------------------------------------------------------------------
(* The host and the wire.                                                  *)

(* The header udp6_send and icmp6_send fill in.                            *)
LEMMA SetupIs ==
  ASSUME NEW src \in Byte \X Byte, NEW dst \in Byte \X Byte, NEW type \in Type,
         NEW body \in Seq(Byte), Len(body) \in 0 .. Mask
  PROVE  LET p == ip6_setup(src, dst, type, body)
         IN  /\ p \in Packet /\ p.next = type /\ p.length = htons(Len(body))
             /\ p.src = src /\ p.dst = dst /\ p.body = body
             /\ ntohs(p.length) = Len(body)
<1>1. htons(Len(body)) \in Byte \X Byte /\ ntohs(htons(Len(body))) = Len(body)
  BY WordOfNumber, Zenon
<1>2. type \in Byte
  BY SmallBytes, Zenon DEF Type, HDR_UDP, HDR_ICMP6
<1> QED  BY <1>1, <1>2, Zenon DEF ip6_setup, Packet

(* A request of a host is as SentOK says.                                  *)
LEMMA HostStep == ASSUME TypeOK, HostSends
                  PROVE  data' \in Seq(Byte) /\ sent' \in Packet /\ SentOK'
<1> DEFINE k == kind'
           d == data'
           b == RequestBody(k, d)
           type == TypeOf(k)
           n == Len(b)
           at == SumAt(type)
<1>1. k \in Kind /\ type \in Type /\ at \in {3, 7} /\ HdrLen(k) = at + 1
      /\ HdrLen(k) \in Nat
  BY DEF HostSends, Type, TypeOf, SumAt, HdrLen, HDR_UDP, HDR_ICMP6, UDP_HDR_LEN, ICMP_HDR_LEN
<1>2. /\ d \in Seq(Byte) /\ Len(d) \in Nat
      /\ Len(d) <= MaxPayload \/ (k # "udp" /\ Len(d) <= 2)
  <2>1. CASE k = "solicit"
    <3>1. d \in {<<1, 2>>, <<>>, <<2, 2>>}
      BY <2>1, Zenon DEF HostSends, ll_ip6_addr
    <3>2. /\ <<1, 2>> \in Seq(Byte) /\ Len(<<1, 2>>) = 2
          /\ <<2, 2>> \in Seq(Byte) /\ Len(<<2, 2>>) = 2
          /\ <<>> \in Seq(Byte) /\ Len(<<>>) = 0
      BY SmallBytes
    <3>3. d \in Seq(Byte) /\ Len(d) \in {0, 2}
      BY <3>1, <3>2, Zenon
    <3> QED  BY <2>1, <3>3
  <2>2. CASE k # "solicit"
    BY <2>2, PacketAssumption DEF HostSends
  <2> QED  BY <2>1, <2>2, Zenon
<1>3. MaxPayload + 8 <= Mask /\ MaxPayload \in Nat
  BY PacketAssumption, MaskRange
<1>4. Len(d) + UDP_HDR_LEN \in 0 .. Mask
  BY <1>2, <1>3, MaskRange DEF UDP_HDR_LEN
<1>5. /\ b \in Seq(Byte) /\ n = HdrLen(k) + Len(d)
      /\ Field(b, at) = <<0, 0>>
  BY <1>1, <1>2, <1>4, RequestIs, Zenon
<1>6. n \in 0 .. Mask /\ n <= MaxPayload + UDP_HDR_LEN /\ at + 1 <= n
  BY <1>1, <1>2, <1>3, <1>5, MaskRange DEF UDP_HDR_LEN, ICMP_HDR_LEN, HdrLen
<1>7. PICK src \in HostAddr, dst \in {ll_ip6_addr, snm_ip6_addr} :
        sent' = Summed(ip6_setup(src, dst, type, b), HostSum(ip6_setup(src, dst, type, b)))
  BY Zenon DEF HostSends, TypeOf
<1>8. src \in Byte \X Byte /\ dst \in Byte \X Byte
  BY PacketAssumption, SmallBytes DEF ll_ip6_addr, snm_ip6_addr
<1> DEFINE p == ip6_setup(src, dst, type, b)
           q == Summed(p, HostSum(p))
<1> HIDE DEF b, n, k, d, type, at
<1>9. /\ p \in Packet /\ p.next = type /\ p.length = htons(n)
      /\ p.dst = dst /\ p.body = b
  BY <1>1, <1>5, <1>6, <1>8, SetupIs DEF n
<1> HIDE DEF p
<1>10. Completes(p, HostSum(p)) /\ (type = HDR_UDP => HostSum(p) # 0)
  BY <1>1, <1>9, ChecksumCompletes, Zenon
<1>11. /\ q \in Packet /\ q.next = type /\ q.length = htons(n) /\ q.dst = dst
       /\ q.body = WithField(b, at, Store(HostSum(p))) /\ Len(q.body) = n
       /\ Load(Field(q.body, at)) = HostSum(p) /\ Multiple(Raw(q, type, n))
  BY <1>1, <1>5, <1>6, <1>9, <1>10, SummedIs, Zenon DEF n, at
<1>12. Field(q.body, at) = Store(HostSum(p))
  <2>1. Store(HostSum(p)) \in Byte \X Byte
    BY <1>10, WordOfNumber, Zenon DEF Completes
  <2>2. at + 1 <= Len(b)
    BY <1>6, Zenon DEF n
  <2> QED  BY <1>1, <1>5, <1>11, <2>1, <2>2, FieldWritten, SMTT(60)
<1>13. sent' = q
  BY <1>7, Zenon DEF p
<1> HIDE DEF q
<1>14. k = "udp" => type = HDR_UDP
  BY Zenon DEF type, TypeOf
<1>15. SentOK'
  <2>1. /\ sent'.next = TypeOf(kind') /\ sent'.dst \in {ll_ip6_addr, snm_ip6_addr}
        /\ sent'.length = htons(Len(sent'.body))
        /\ Len(sent'.body) <= MaxPayload + UDP_HDR_LEN
        /\ Len(sent'.body) = HdrLen(kind') + Len(data')
    BY <1>5, <1>6, <1>11, <1>13, Zenon DEF type, k, d
  <2>2. SumAt(sent'.next) = at
    BY <1>11, <1>13, Zenon DEF at
  <2>3. sent'.body = WithField(RequestBody(kind', data'), at, Field(sent'.body, at))
    BY <1>11, <1>12, <1>13, Zenon DEF b, k, d
  <2>4. Multiple(Raw(sent', sent'.next, Len(sent'.body)))
    BY <1>11, <1>13, Zenon
  <2>5. kind' = "udp" => Load(Field(sent'.body, at)) # 0
    BY <1>10, <1>11, <1>13, <1>14, Zenon DEF k
  <2> QED  BY <2>1, <2>2, <2>3, <2>4, <2>5, Zenon DEF SentOK
<1> QED  BY <1>2, <1>11, <1>13, <1>15, Zenon DEF d

(* What SentOK says about the bytes.                                       *)
LEMMA SentShape ==
  ASSUME TypeOK, SentOK
  PROVE  /\ sent.next \in Type /\ SumAt(sent.next) \in {3, 7}
         /\ Len(sent.body) \in 0 .. Mask /\ ntohs(sent.length) = Len(sent.body)
         /\ SumAt(sent.next) + 1 = HdrLen(kind) /\ HdrLen(kind) <= Len(sent.body)
         /\ \A i \in 1 .. Len(data) : sent.body[HdrLen(kind) + i] = data[i]
         /\ kind = "udp" => Field(sent.body, 5) = htons(Len(sent.body))
         /\ kind # "udp" => /\ sent.body[1] = (IF kind = "ping" THEN 2 ELSE 1)
                            /\ sent.body[2] = 0
<1> DEFINE b == RequestBody(kind, data)
           at == SumAt(sent.next)
           w == Field(sent.body, at)
           n == Len(sent.body)
           h == HdrLen(kind)
<1>1. /\ sent.next = TypeOf(kind) /\ sent.next \in Type /\ at \in {3, 7} /\ at + 1 = h
      /\ kind = "udp" => at = 7 /\ h = 8
      /\ kind # "udp" => at = 3 /\ h = 4
  BY DEF SentOK, Type, TypeOf, SumAt, HdrLen, HDR_UDP, HDR_ICMP6, UDP_HDR_LEN, ICMP_HDR_LEN
<1>2. sent.body \in Seq(Byte) /\ data \in Seq(Byte) /\ kind \in Kind
      /\ Len(data) \in Nat /\ n \in Nat
  BY DEF TypeOK, Packet
<1>3. n <= MaxPayload + 8 /\ n = h + Len(data) /\ sent.length = htons(n)
      /\ sent.body = WithField(b, at, w)
  BY Zenon DEF SentOK, UDP_HDR_LEN
<1>4. n \in 0 .. Mask /\ h <= n
  BY <1>1, <1>2, <1>3, PacketAssumption, MaskRange
<1>5. ntohs(sent.length) = n
  BY <1>3, <1>4, WordOfNumber, Zenon
<1>6. w \in Byte \X Byte
  BY <1>1, <1>2, <1>4, FieldType
<1>7. kind = "udp" => Len(data) + UDP_HDR_LEN = n
  BY <1>1, <1>2, <1>3 DEF UDP_HDR_LEN
<1>8. /\ b \in Seq(Byte) /\ Len(b) = h + Len(data)
      /\ \A i \in 1 .. Len(data) : b[h + i] = data[i]
      /\ kind = "udp" => Field(b, 5) = htons(Len(data) + UDP_HDR_LEN)
      /\ kind # "udp" => b[1] = (IF kind = "ping" THEN 2 ELSE 1) /\ b[2] = 0
  BY <1>2, <1>4, <1>7, RequestIs
<1>9. \A i \in 1 .. Len(b) : i \notin {at, at + 1} => WithField(b, at, w)[i] = b[i]
  <2> HIDE DEF b, at, w
  <2> QED  BY <1>1, <1>6, <1>8, FieldWritten, ZenonT(60)
<1> HIDE DEF b, at, w, n, h
<1>10. \A i \in 1 .. n : i \notin {at, at + 1} => sent.body[i] = b[i]
  BY <1>3, <1>8, <1>9, Zenon
<1>11. \A i \in 1 .. Len(data) : sent.body[h + i] = data[i]
  <2> TAKE i \in 1 .. Len(data)
  <2>1. h + i \in 1 .. n /\ h + i \notin {at, at + 1}
    BY <1>1, <1>2, <1>3, SMTT(60)
  <2> QED  BY <1>8, <1>10, <2>1, Zenon
<1>12. ASSUME kind = "udp" PROVE Field(sent.body, 5) = htons(n)
  <2>1. sent.body[5] = b[5] /\ sent.body[6] = b[6]
    BY <1>1, <1>4, <1>10, <1>12
  <2>2. Field(sent.body, 5) = Field(b, 5)
    BY <2>1 DEF Field
  <2> QED  BY <1>7, <1>8, <1>12, <2>2, Zenon
<1>13. ASSUME kind # "udp"
       PROVE  sent.body[1] = (IF kind = "ping" THEN 2 ELSE 1) /\ sent.body[2] = 0
  BY <1>1, <1>4, <1>8, <1>10, <1>13
<1> QED  BY <1>1, <1>4, <1>5, <1>11, <1>12, <1>13, Zenon DEF at, n, h

(* Writing one byte of a word.                                             *)
LEMMA PairWritten ==
  ASSUME NEW w \in Byte \X Byte, NEW k \in 1 .. 2, NEW b \in Byte
  PROVE  /\ [w EXCEPT ![k] = b] \in Byte \X Byte /\ [w EXCEPT ![k] = b][k] = b
         /\ \A i \in 1 .. 2 : i # k => [w EXCEPT ![k] = b][i] = w[i]
<1>1. w[1] \in Byte /\ w[2] \in Byte /\ w = <<w[1], w[2]>>
  BY PairType, Zenon
<1>2. CASE k = 1
  <2>1. [w EXCEPT ![1] = b] = <<b, w[2]>>
    BY <1>1
  <2> QED  BY <1>1, <1>2, <2>1
<1>3. CASE k = 2
  <2>1. [w EXCEPT ![2] = b] = <<w[1], b>>
    BY <1>1
  <2> QED  BY <1>1, <1>3, <2>1
<1> QED  BY <1>2, <1>3

(* Padding is behind what is summed.                                       *)
LEMMA Padded ==
  ASSUME NEW p \in Packet, NEW q \in Packet, NEW pad \in Seq(Byte),
         q.body = p.body \o pad
  PROVE  /\ Len(p.body) <= Len(q.body)
         /\ \A k \in 1 .. Len(p.body) : q.body[k] = p.body[k]
<1>1. p.body \in Seq(Byte) /\ Len(p.body) \in Nat /\ Len(pad) \in Nat
  BY DEF Packet
<1> DEFINE b == p.body
<1>2. b \in Seq(Byte)
  BY <1>1, Zenon
<1> HIDE DEF b
<1>3. Len(b \o pad) = Len(b) + Len(pad) /\ \A k \in 1 .. Len(b) : (b \o pad)[k] = b[k]
  BY <1>2, HeadAndData, Zenon
<1> QED  BY <1>1, <1>3 DEF b

(* The bytes that are summed are found in the addresses and the payload.   *)
LEMMA BytesDiffer ==
  ASSUME NEW p \in Packet, NEW q \in Packet, p.length = q.length,
         NEW n \in Nat, n = Len(p.body), n <= Len(q.body),
         \A k \in 1 .. n : q.body[k] = p.body[k], NEW i \in 1 .. 2,
         \/ /\ p.dst = q.dst /\ p.src[i] # q.src[i]
            /\ \A k \in 1 .. 2 : k # i => p.src[k] = q.src[k]
         \/ /\ p.src = q.src /\ p.dst[i] # q.dst[i]
            /\ \A k \in 1 .. 2 : k # i => p.dst[k] = q.dst[k]
  PROVE  OneByteOff(p, q, n)
<1> DEFINE a == Bytes(p, n)
           b == Bytes(q, n)
<1>1. n \in 0 .. Len(p.body) /\ n \in 0 .. Len(q.body) /\ Len(q.body) \in Nat
  BY DEF Packet
<1>2. /\ a[1] = p.src[1] /\ a[2] = p.src[2] /\ a[3] = p.dst[1] /\ a[4] = p.dst[2]
      /\ \A k \in 1 .. n : a[k + 4] = p.body[k]
  BY <1>1, BytesAt, Zenon
<1>3. /\ b[1] = q.src[1] /\ b[2] = q.src[2] /\ b[3] = q.dst[1] /\ b[4] = q.dst[2]
      /\ \A k \in 1 .. n : b[k + 4] = q.body[k]
  BY <1>1, BytesAt, Zenon
<1> HIDE DEF a, b
<1>4. ASSUME NEW k \in 1 .. n + 4, k > 4 PROVE a[k] = b[k]
  <2>1. k - 4 \in 1 .. n /\ (k - 4) + 4 = k
    BY <1>4, SMTT(60)
  <2> DEFINE i1 == k - 4
  <2> HIDE DEF i1
  <2>2. i1 \in 1 .. n /\ i1 + 4 = k
    BY <2>1, Zenon DEF i1
  <2>3. a[k] = p.body[i1] /\ b[k] = q.body[i1] /\ q.body[i1] = p.body[i1]
    BY <1>2, <1>3, <2>2, Zenon
  <2> QED  BY <2>3, Zenon
<1>5. \E j \in 1 .. 4 : a[j] # b[j] /\ \A k \in 1 .. 4 : k # j => a[k] = b[k]
  <2>1. CASE /\ p.dst = q.dst /\ p.src[i] # q.src[i]
             /\ \A k \in 1 .. 2 : k # i => p.src[k] = q.src[k]
    <3>1. a[i] # b[i] /\ \A k \in 1 .. 4 : k # i => a[k] = b[k]
      BY <1>2, <1>3, <2>1
    <3> QED  BY <3>1
  <2>2. CASE /\ p.src = q.src /\ p.dst[i] # q.dst[i]
             /\ \A k \in 1 .. 2 : k # i => p.dst[k] = q.dst[k]
    <3>1. a[i + 2] # b[i + 2] /\ \A k \in 1 .. 4 : k # i + 2 => a[k] = b[k]
      BY <1>2, <1>3, <2>2
    <3> QED  BY <3>1
  <2> QED  BY <2>1, <2>2, Zenon
<1>6. PICK j \in 1 .. 4 : a[j] # b[j] /\ \A k \in 1 .. 4 : k # j => a[k] = b[k]
  BY <1>5, Zenon
<1>7. j \in 1 .. n + 4 /\ \A k \in 1 .. n + 4 : k # j => a[k] = b[k]
  <2>1. j \in 1 .. n + 4 /\ \A k \in 1 .. n + 4 : k > 4 \/ k \in 1 .. 4
    OBVIOUS
  <2> QED  BY <1>4, <1>6, <2>1, Zenon
<1>8. n <= Len(p.body)
  OBVIOUS
<1> QED  BY <1>6, <1>7, <1>8, Zenon DEF OneByteOff, a, b

(* What the wire delivers is as FrameOK says.                              *)
LEMMA WireStep == ASSUME TypeOK, SentOK, WireDelivers
                  PROVE  /\ frame' \in Packet /\ FrameOK'
                         /\ damage' \in {"next", "length", "src", "dst", "body", "cut", "none"}
<1> DEFINE n == Len(sent.body)
           f == frame'
<1>1. /\ sent \in Packet /\ sent.body \in Seq(Byte) /\ n \in Nat
      /\ sent.src \in Byte \X Byte /\ sent.dst \in Byte \X Byte
      /\ sent.length \in Byte \X Byte
  BY DEF TypeOK, Packet
<1>2. sent' = sent
  BY Zenon DEF WireDelivers
<1>3. ASSUME NEW pad \in Pads PROVE pad \in Seq(Byte) /\ sent.body \o pad \in Seq(Byte)
  <2>1. pad \in Seq(Byte)
    BY PacketAssumption, Zenon
  <2> QED  BY <1>1, <2>1, HeadAndData, Zenon
<1>4. CASE damage' = "none" /\ \E pad \in Pads : f = [sent EXCEPT !.body = @ \o pad]
  <2>1. PICK pad \in Pads : f = [sent EXCEPT !.body = @ \o pad]
    BY <1>4, Zenon
  <2>2. f \in Packet /\ f.body = sent.body \o pad /\ f.dst = sent.dst
        /\ f.src = sent.src /\ f.next = sent.next /\ f.length = sent.length
    BY <1>1, <1>3, <2>1, Zenon DEF Packet
  <2> QED  BY <1>2, <1>4, <2>2, Zenon DEF FrameOK
<1>5. CASE damage' = "next" /\ \E b \in Byte \ {sent.next} : f = [sent EXCEPT !.next = b]
  <2>1. f \in Packet
    BY <1>1, <1>5, Zenon DEF Packet
  <2> QED  BY <1>2, <1>5, <2>1, Zenon DEF FrameOK
<1>6. CASE /\ damage' \in {"length", "src", "dst"}
           /\ \E pad \in Pads, k \in 1 .. 2, b \in Byte :
                /\ b # sent[damage'][k]
                /\ f = [sent EXCEPT ![damage'][k] = b, !.body = @ \o pad]
  <2>1. PICK pad \in Pads, k \in 1 .. 2, b \in Byte :
          /\ b # sent[damage'][k]
          /\ f = [sent EXCEPT ![damage'][k] = b, !.body = @ \o pad]
    BY <1>6, Zenon
  <2>2. CASE damage' = "length"
    <3> DEFINE w == [sent.length EXCEPT ![k] = b]
    <3>1. w \in Byte \X Byte
      BY <1>1, PairWritten, Zenon
    <3>2. f = [sent EXCEPT !.length = w, !.body = @ \o pad]
      BY <2>1, <2>2, Zenon
    <3> HIDE DEF w
    <3>3. f \in Packet /\ f.body = sent.body \o pad /\ f.dst = sent.dst
          /\ f.src = sent.src /\ f.next = sent.next
      BY <1>1, <1>3, <3>1, <3>2, Zenon DEF Packet
    <3> QED  BY <1>2, <2>2, <3>3, Zenon DEF FrameOK
  <2>3. CASE damage' = "src"
    <3> DEFINE w == [sent.src EXCEPT ![k] = b]
    <3>1. w \in Byte \X Byte /\ w[k] = b /\ \A i \in 1 .. 2 : i # k => w[i] = sent.src[i]
      BY <1>1, PairWritten
    <3>2. f = [sent EXCEPT !.src = w, !.body = @ \o pad] /\ b # sent.src[k]
      BY <2>1, <2>3, Zenon
    <3> HIDE DEF w
    <3>3. f \in Packet /\ f.body = sent.body \o pad /\ f.dst = sent.dst
          /\ f.src = w /\ f.next = sent.next /\ f.length = sent.length
      BY <1>1, <1>3, <3>1, <3>2, Zenon DEF Packet
    <3>4. n <= Len(f.body) /\ \A i \in 1 .. n : f.body[i] = sent.body[i]
      BY <1>1, <1>3, <3>3, Padded, Zenon
    <3>5. /\ sent.dst = f.dst /\ sent.src[k] # f.src[k] /\ sent.length = f.length
          /\ \A i \in 1 .. 2 : i # k => sent.src[i] = f.src[i]
      BY <3>1, <3>2, <3>3
    <3> HIDE DEF n, f
    <3>6. OneByteOff(sent, f, n)
      <4>1. n = Len(sent.body) /\ f \in Packet
        BY <3>3, Zenon DEF n
      <4> QED  BY <1>1, <3>4, <3>5, <4>1, BytesDiffer, Zenon
    <3> QED  BY <1>2, <2>3, <3>3, <3>6, Zenon DEF FrameOK, n, f
  <2>4. CASE damage' = "dst"
    <3> DEFINE w == [sent.dst EXCEPT ![k] = b]
    <3>1. w \in Byte \X Byte /\ w[k] = b /\ \A i \in 1 .. 2 : i # k => w[i] = sent.dst[i]
      BY <1>1, PairWritten
    <3>2. f = [sent EXCEPT !.dst = w, !.body = @ \o pad] /\ b # sent.dst[k]
      BY <2>1, <2>4, Zenon
    <3> HIDE DEF w
    <3>3. f \in Packet /\ f.body = sent.body \o pad /\ f.dst = w
          /\ f.src = sent.src /\ f.next = sent.next /\ f.length = sent.length
      BY <1>1, <1>3, <3>1, <3>2, Zenon DEF Packet
    <3>4. n <= Len(f.body) /\ \A i \in 1 .. n : f.body[i] = sent.body[i]
      BY <1>1, <1>3, <3>3, Padded, Zenon
    <3>5. /\ sent.src = f.src /\ sent.dst[k] # f.dst[k] /\ sent.length = f.length
          /\ \A i \in 1 .. 2 : i # k => sent.dst[i] = f.dst[i]
      BY <3>1, <3>2, <3>3
    <3> HIDE DEF n, f
    <3>6. OneByteOff(sent, f, n)
      <4>1. n = Len(sent.body) /\ f \in Packet
        BY <3>3, Zenon DEF n
      <4> QED  BY <1>1, <3>4, <3>5, <4>1, BytesDiffer, Zenon
    <3> QED  BY <1>2, <2>4, <3>3, <3>6, Zenon DEF FrameOK, n, f
  <2> QED  BY <1>6, <2>2, <2>3, <2>4, Zenon
<1>7. CASE /\ damage' = "body"
           /\ \E k \in DOMAIN sent.body, b \in Byte :
                b # sent.body[k] /\ f = [sent EXCEPT !.body[k] = b]
  <2>1. PICK k \in 1 .. n, b \in Byte : b # sent.body[k] /\ f = [sent EXCEPT !.body[k] = b]
    <3>1. DOMAIN sent.body = 1 .. n
      BY <1>1
    <3> QED  BY <1>7, <3>1, Zenon
  <2> DEFINE c == [sent.body EXCEPT ![k] = b]
  <2>2. /\ c \in Seq(Byte) /\ Len(c) = n /\ c[k] = b
        /\ \A i \in 1 .. n : i # k => c[i] = sent.body[i]
    BY <1>1, ByteWritten
  <2>3. f = [sent EXCEPT !.body = c]
    BY <2>1, Zenon
  <2> HIDE DEF c
  <2>4. f \in Packet /\ f.body = c /\ f.dst = sent.dst
        /\ f.src = sent.src /\ f.next = sent.next /\ f.length = sent.length
    BY <1>1, <2>2, <2>3, Zenon DEF Packet
  <2>5. n \in 0 .. Len(sent.body) /\ n \in 0 .. Len(f.body) /\ k + 4 \in 1 .. n + 4
    BY <1>1, <2>2, <2>4
  <2>6. \A i \in 1 .. n : i # k => sent.body[i] = f.body[i]
    BY <2>2, <2>4, Zenon
  <2> HIDE DEF n, f
  <2>7. /\ Bytes(sent, n)[k + 4] = sent.body[k] /\ Bytes(f, n)[k + 4] = f.body[k]
        /\ \A i \in 1 .. n + 4 : i # k + 4 => Bytes(sent, n)[i] = Bytes(f, n)[i]
    BY <1>1, <2>4, <2>5, <2>6, BodyBytes, ZenonT(60)
  <2>8. Bytes(sent, n)[k + 4] # Bytes(f, n)[k + 4]
    BY <2>1, <2>2, <2>4, <2>7
  <2>9. n <= Len(sent.body) /\ n <= Len(f.body)
    BY <2>5
  <2>10. OneByteOff(sent, f, n)
    BY <2>4, <2>5, <2>7, <2>8, <2>9, Zenon DEF OneByteOff
  <2> QED  BY <1>2, <1>7, <2>4, <2>10, Zenon DEF FrameOK, f, n
<1>8. CASE /\ damage' = "cut"
           /\ \E k \in 0 .. n - 1 : f = [sent EXCEPT !.body = SubSeq(@, 1, k)]
  <2>1. PICK k \in 0 .. n - 1 : f = [sent EXCEPT !.body = SubSeq(@, 1, k)]
    BY <1>8, Zenon
  <2>2. SubSeq(sent.body, 1, k) \in Seq(Byte) /\ Len(SubSeq(sent.body, 1, k)) = k
    BY <1>1
  <2>3. f \in Packet /\ f.body = SubSeq(sent.body, 1, k) /\ f.length = sent.length
    BY <1>1, <2>1, <2>2, Zenon DEF Packet
  <2> QED  BY <1>1, <1>2, <1>8, <2>2, <2>3 DEF FrameOK
<1> QED  BY <1>4, <1>5, <1>6, <1>7, <1>8, Zenon DEF WireDelivers

-----------------------------------------------------------------------------
(* The device.                                                             *)

(* Damage to a byte, other than of the length, is seen; a cut frame is too *)
(* short for its length.                                                   *)
LEMMA DamageSeen ==
  ASSUME TypeOK, SentOK, FrameOK, damage \notin {"none", "length"},
         ForDevice(frame), frame.next \in Type
  PROVE  /\ PacketLen(frame) = Len(sent.body) /\ Len(sent.body) <= Len(frame.body)
         /\ ~Multiple(Raw(frame, frame.next, PacketLen(frame)))
         /\ frame.next = HDR_ICMP6 => PacketLen(frame) >= 4
<1> DEFINE n == Len(sent.body)
           t == sent.next
<1>1. /\ t \in Type /\ n \in 0 .. Mask /\ ntohs(sent.length) = n
      /\ n >= 4
  BY SentShape DEF HdrLen, UDP_HDR_LEN, ICMP_HDR_LEN
<1>2. sent \in Packet /\ frame \in Packet /\ Multiple(Raw(sent, t, n))
      /\ n \in Nat /\ n \in 0 .. Len(sent.body) /\ Len(frame.body) \in Nat
  BY <1>1 DEF TypeOK, SentOK, Packet
<1>3. CASE damage = "cut"
  BY <1>1, <1>2, <1>3 DEF FrameOK, ForDevice
<1>4. CASE damage = "next"
  <2>1. PICK b \in Byte \ {t} : frame = [sent EXCEPT !.next = b]
    BY <1>4, Zenon DEF FrameOK
  <2>2. /\ frame.next = b /\ frame.body = sent.body /\ frame.length = sent.length
        /\ frame.src = sent.src /\ frame.dst = sent.dst
    BY <1>2, <2>1, Zenon DEF Packet
  <2>3. ~Multiple(Raw(sent, frame.next, n))
    BY <1>1, <1>2, <2>1, <2>2, TypeSeen, Zenon
  <2>4. Raw(frame, frame.next, n) = Raw(sent, frame.next, n)
    BY <2>2, Zenon DEF Raw, Bytes
  <2> QED  BY <1>1, <1>2, <2>2, <2>3, <2>4 DEF PacketLen
<1>5. CASE damage \in {"src", "dst", "body"}
  <2>1. frame.next = t /\ OneByteOff(sent, frame, n)
    BY <1>5, Zenon DEF FrameOK
  <2>2. sent.length = frame.length /\ n <= Len(frame.body) /\ n \in 0 .. Len(frame.body)
    BY <1>2, <2>1 DEF OneByteOff
  <2>3. ~Multiple(Raw(frame, t, n))
    <3>1. PICK j \in 1 .. n + 4 :
            /\ Bytes(sent, n)[j] # Bytes(frame, n)[j]
            /\ \A k \in 1 .. n + 4 : k # j => Bytes(sent, n)[k] = Bytes(frame, n)[k]
      BY <2>1, Zenon DEF OneByteOff
    <3> HIDE DEF n, t
    <3> QED  BY <1>1, <1>2, <2>2, <3>1, OneByteSeen, Zenon
  <2> QED  BY <1>1, <1>2, <2>1, <2>2, <2>3, Zenon DEF PacketLen
<1> QED  BY <1>3, <1>4, <1>5, Zenon DEF TypeOK

(* A packet of the device: its length is right, and if its checksum was    *)
(* zero and has its place, it verifies.                                    *)
LEMMA SendIs ==
  ASSUME NEW dst \in Byte \X Byte, NEW type \in Type, NEW body \in Seq(Byte),
         Len(body) <= MaxPayload + UDP_HDR_LEN
  PROVE  LET a == Send(dst, type, body)
             at == SumAt(type)
         IN  /\ a \in Packet /\ a.next = type
             /\ ntohs(a.length) = Len(a.body) /\ Len(a.body) = Len(body)
             /\ \E w \in Byte \X Byte : a.body = WithField(body, at, w)
             /\ at + 1 <= Len(body) /\ Field(body, at) = <<0, 0>> =>
                  /\ Load(Field(a.body, at)) # 0
                  /\ PacketSum(a, type, Len(a.body)) = Mask
<1> DEFINE p == ip6_setup(ll_ip6_addr, dst, type, body)
           n == Len(body)
           s == ip6_checksum(p, type, n)
           a == Summed(p, s)
           at == SumAt(type)
<1>1. n \in 0 .. Mask
  BY PacketAssumption, MaskRange DEF UDP_HDR_LEN
<1>2. ll_ip6_addr \in Byte \X Byte
  BY SmallBytes, Zenon DEF ll_ip6_addr
<1>3. p \in Packet /\ p.next = type /\ p.body = body /\ ntohs(p.length) = n
  BY <1>1, <1>2, SetupIs
<1> HIDE DEF p
<1>4. Completes(p, s) /\ s # 0
  BY <1>3, ChecksumCompletes, Zenon
<1>5. Send(dst, type, body) = a
  BY Zenon DEF Send, p
<1> HIDE DEF s
<1>6. /\ a \in Packet /\ a.next = type /\ a.length = p.length
      /\ a.body = WithField(body, at, Store(s)) /\ Len(a.body) = n
      /\ at + 1 <= n /\ Field(body, at) = <<0, 0>> =>
           Load(Field(a.body, at)) = s /\ Multiple(Raw(a, type, n))
  BY <1>3, <1>4, SummedIs, Zenon
<1>7. Store(s) \in Byte \X Byte
  BY <1>4, WordOfNumber, Zenon DEF Completes
<1>8. ASSUME at + 1 <= n, Field(body, at) = <<0, 0>>
      PROVE  PacketSum(a, type, n) = Mask
  <2>1. n \in 0 .. Len(a.body)
    BY <1>1, <1>6
  <2> HIDE DEF a, n, at
  <2> QED  BY <1>6, <1>8, <2>1, PacketSumRaw, Zenon
<1> HIDE DEF a
<1> QED  BY <1>3, <1>4, <1>5, <1>6, <1>7, <1>8, Zenon

(* The type of PacketLen.                                                  *)
LEMMA PacketLenType ==
  ASSUME NEW p \in Packet, ForDevice(p)
  PROVE  PacketLen(p) \in 0 .. Len(p.body) /\ PacketLen(p) \in Nat
<1>1. p.length \in Byte \X Byte /\ Len(p.body) \in Nat
  BY DEF Packet
<1> QED  BY <1>1, NumberOfWord DEF PacketLen, ForDevice

(* What udp6_recv is called with is the payload of an intact request.      *)
LEMMA UdpReceived ==
  ASSUME TypeOK, SentOK, FrameOK, ForDevice(frame), frame.next = HDR_UDP
  PROVE  LET u == _udp6_recv(frame, PacketLen(frame))
         IN  /\ u # {} => kind = "udp" /\ u = {data} /\ damage \in {"none", "length"}
             /\ damage = "none" => u # {}
<1> DEFINE n == PacketLen(frame)
           m == Len(sent.body)
           len == ntohs(Field(frame.body, 5))
           ok == n >= 8 /\ SumAccepted(frame, HDR_UDP, n) /\ len \in 8 .. n
           cut == SubSeq(frame.body, 9, len)
<1>1. _udp6_recv(frame, n) = IF ok THEN {cut} ELSE {}
  BY DEF _udp6_recv, UDP_HDR_LEN
<1>2. frame \in Packet /\ sent \in Packet /\ n \in 0 .. Len(frame.body) /\ n \in Nat
      /\ frame.body \in Seq(Byte) /\ sent.body \in Seq(Byte) /\ m \in Nat
      /\ Len(frame.body) \in Nat
  BY PacketLenType DEF TypeOK, Packet
<1>3. HDR_UDP \in Type /\ SumAt(HDR_UDP) = 7
  BY Zenon DEF Type, SumAt
<1>4. ASSUME n >= 8
      PROVE  SumAccepted(frame, HDR_UDP, n) <=>
               Load(Field(frame.body, 7)) # 0 /\ Multiple(Raw(frame, HDR_UDP, n))
  <2>1. SumAt(HDR_UDP) + 1 <= n
    BY <1>2, <1>3, <1>4
  <2> HIDE DEF n
  <2> QED  BY <1>2, <1>3, <2>1, AcceptedIs, Zenon
<1>5. ASSUME ok PROVE damage \in {"none", "length"}
  BY <1>3, <1>4, <1>5, DamageSeen, Zenon
<1>6. ASSUME damage \in {"none", "length"}
      PROVE  /\ kind = "udp" /\ sent.next = HDR_UDP /\ m <= Len(frame.body) /\ m >= 8
             /\ \A k \in 1 .. m : frame.body[k] = sent.body[k]
             /\ len = m /\ m = 8 + Len(data)
  <2>1. frame.next = sent.next /\ \E pad \in Pads : frame.body = sent.body \o pad
    BY <1>6, Zenon DEF FrameOK
  <2>2. kind = "udp"
    BY <2>1 DEF SentOK, TypeOf, HDR_UDP, HDR_ICMP6
  <2>3. /\ m <= Len(frame.body)
        /\ \A k \in 1 .. m : frame.body[k] = sent.body[k]
    <3>1. PICK pad \in Pads : frame.body = sent.body \o pad
      BY <2>1, Zenon
    <3>2. pad \in Seq(Byte)
      BY PacketAssumption, Zenon
    <3> QED  BY <1>2, <3>1, <3>2, Padded, Zenon
  <2>4. m = 8 + Len(data) /\ m >= 8
    BY <2>2 DEF SentOK, HdrLen, UDP_HDR_LEN, TypeOK
  <2>5. m \in 0 .. Mask /\ Field(sent.body, 5) = htons(m)
    BY <2>2, SentShape, Zenon
  <2>6. Field(frame.body, 5) = Field(sent.body, 5)
    BY <1>2, <2>3, <2>4 DEF Field
  <2>7. len = m
    BY <2>5, <2>6, WordOfNumber, Zenon
  <2> QED  BY <2>1, <2>2, <2>3, <2>4, <2>7, Zenon
<1>7. ASSUME ok PROVE kind = "udp" /\ cut = data
  <2>1. /\ kind = "udp" /\ m <= Len(frame.body) /\ m >= 8
        /\ \A k \in 1 .. m : frame.body[k] = sent.body[k]
        /\ len = m /\ m = 8 + Len(data)
    BY <1>5, <1>6, <1>7, Zenon
  <2>2. data \in Seq(Byte) /\ Len(data) \in Nat
    BY DEF TypeOK
  <2>3. \A i \in 1 .. Len(data) : sent.body[8 + i] = data[i]
    BY <2>1, SentShape, Zenon DEF HdrLen, UDP_HDR_LEN
  <2> DEFINE c == SubSeq(frame.body, 9, m)
  <2>4. /\ c \in Seq(Byte) /\ Len(c) = Len(data)
        /\ \A i \in 1 .. Len(data) : c[i] = frame.body[8 + i]
    BY <1>2, <2>1, <2>2
  <2>5. cut = c
    BY <2>1, Zenon
  <2> HIDE DEF c
  <2>6. \A i \in 1 .. Len(c) : c[i] = data[i]
    BY <1>2, <2>1, <2>2, <2>3, <2>4
  <2>7. c = data
    BY <2>2, <2>4, <2>6, SameElements, Zenon
  <2> QED  BY <2>1, <2>5, <2>7, Zenon
<1>8. ASSUME damage = "none" PROVE ok
  <2>1. /\ kind = "udp" /\ sent.next = HDR_UDP /\ m <= Len(frame.body) /\ m >= 8
        /\ \A k \in 1 .. m : frame.body[k] = sent.body[k]
        /\ len = m
    BY <1>6, <1>8, Zenon
  <2>2. n = m
    BY <1>8, SentShape, Zenon DEF FrameOK, PacketLen
  <2>3. frame.src = sent.src /\ frame.dst = sent.dst /\ frame.length = sent.length
    BY <1>8, Zenon DEF FrameOK
  <2>4. Multiple(Raw(sent, HDR_UDP, m)) /\ Load(Field(sent.body, 7)) # 0
    BY <1>3, <2>1, Zenon DEF SentOK
  <2>5. Raw(frame, HDR_UDP, m) = Raw(sent, HDR_UDP, m)
    <3> HIDE DEF m
    <3>1. m <= Len(sent.body)
      BY <1>2 DEF m
    <3> QED  BY <1>2, <2>1, <2>3, <3>1, SameRaw, ZenonT(60)
  <2>6. Field(frame.body, 7) = Field(sent.body, 7)
    BY <1>2, <2>1 DEF Field
  <2> QED  BY <1>2, <1>4, <2>1, <2>2, <2>4, <2>5, <2>6
<1> QED  BY <1>1, <1>5, <1>7, <1>8, Zenon

(* The advertisement as it is handed to icmp6_send.                        *)
LEMMA AdvertisementIs ==
  Advertisement \in Seq(Byte) /\ Len(Advertisement) = 7 /\ Field(Advertisement, 3) = <<0, 0>>
<1> DEFINE x == <<1, 2>>
           y == <<2>>
           d == x \o y
<1>1. x \in Seq(Byte) /\ Len(x) = 2 /\ y \in Seq(Byte) /\ Len(y) = 1
  BY SmallBytes
<1> HIDE DEF x, y
<1>2. d \in Seq(Byte) /\ Len(d) = Len(x) + Len(y)
  BY <1>1, HeadAndData, Zenon
<1>3. Advertisement = IcmpBody(0, d)
  BY Zenon DEF Advertisement, ICMP6_NDP_N_ADVERTISE, ll_ip6_addr, ll_mac_addr, x, y
<1> HIDE DEF d
<1>4. /\ IcmpBody(0, d) \in Seq(Byte) /\ Len(IcmpBody(0, d)) = ICMP_HDR_LEN + Len(d)
      /\ Field(IcmpBody(0, d), 3) = <<0, 0>>
  BY <1>2, SmallBytes, IcmpBodyIs, Zenon
<1> QED  BY <1>1, <1>2, <1>3, <1>4 DEF ICMP_HDR_LEN

(* The reply to a ping, as it is handed to icmp6_send.                     *)
LEMMA EchoReplyIs ==
  ASSUME NEW p \in Packet, Len(p.body) >= 4, NEW n \in 0 .. Len(p.body)
  PROVE  /\ EchoReply(p, n) \in Seq(Byte) /\ Len(EchoReply(p, n)) = n
         /\ \A k \in 1 .. n : EchoReply(p, n)[k] =
              CASE k = 1 -> 3 [] k \in {3, 4} -> 0 [] OTHER -> p.body[k]
<1> DEFINE b == p.body
           c == [b EXCEPT ![1] = 3]
           w == <<0, 0>>
           d == WithField(c, 3, w)
           e == SubSeq(d, 1, n)
<1>1. b \in Seq(Byte) /\ Len(b) \in Nat /\ n <= Len(b) /\ n \in Nat /\ Len(b) >= 4
  BY DEF Packet
<1>2. EchoReply(p, n) = e
  BY Zenon DEF EchoReply, ICMP6_ECHO_REPLY
<1> HIDE DEF b
<1>3. /\ c \in Seq(Byte) /\ Len(c) = Len(b)
      /\ \A k \in 1 .. Len(b) : k # 1 => c[k] = b[k]
      /\ c[1] = 3
  BY <1>1, SmallBytes, ByteWritten
<1> HIDE DEF c
<1>4. w \in Byte \X Byte /\ w[1] = 0 /\ w[2] = 0
  BY SmallBytes, Zenon
<1> HIDE DEF w
<1>5. /\ d \in Seq(Byte) /\ Len(d) = Len(c)
      /\ \A k \in 1 .. Len(c) : k \notin {3, 3 + 1} => d[k] = c[k]
      /\ 3 + 1 <= Len(c) => d[3] = w[1] /\ d[3 + 1] = w[2]
  BY <1>3, <1>4, FieldWritten, SMTT(60)
<1> HIDE DEF d
<1>6. /\ e \in Seq(Byte) /\ Len(e) = n /\ \A k \in 1 .. n : e[k] = d[k]
  BY <1>1, <1>3, <1>5
<1> HIDE DEF e
<1>7. ASSUME NEW k \in 1 .. n
      PROVE  e[k] = CASE k = 1 -> 3 [] k \in {3, 4} -> 0 [] OTHER -> b[k]
  BY <1>1, <1>3, <1>4, <1>5, <1>6
<1> QED  BY <1>2, <1>6, <1>7, Zenon DEF b

(* What icmp6_recv does with a request: it answers only if no byte but the *)
(* length was damaged, and answers a ping with its data.                   *)
LEMMA IcmpReceived ==
  ASSUME TypeOK, SentOK, FrameOK, ForDevice(frame), frame.next = HDR_ICMP6,
         NEW s \in Stale
  PROVE  LET p == [frame EXCEPT !.body = @ \o s]
             R == icmp6_recv(p, PacketLen(frame))
         IN  /\ p.src \in Byte \X Byte
             /\ \A b \in R : /\ b \in Seq(Byte) /\ damage \in {"none", "length"}
                             /\ Len(b) >= 4 => Field(b, 3) = <<0, 0>>
                             /\ damage = "none" /\ kind = "ping" => b = IcmpBody(3, data)
             /\ damage = "none" =>
                  /\ kind # "udp"
                  /\ \/ kind = "solicit" /\ data # ll_ip6_addr
                     \/ Field(sent.body, 3) = <<0, 0>>
                     \/ \E b \in R : Len(b) <= MaxPayload + UDP_HDR_LEN
<1> DEFINE p == [frame EXCEPT !.body = @ \o s]
           n == PacketLen(frame)
           m == Len(sent.body)
           R == icmp6_recv(p, n)
           acc == SumAccepted(p, HDR_ICMP6, n)
<1>1. /\ frame \in Packet /\ sent \in Packet /\ n \in 0 .. Len(frame.body) /\ n \in Nat
      /\ frame.body \in Seq(Byte) /\ sent.body \in Seq(Byte) /\ m \in Nat
      /\ Len(frame.body) \in Nat /\ data \in Seq(Byte) /\ Len(data) \in Nat
  BY PacketLenType DEF TypeOK, Packet
<1>2. s \in Seq(Byte) /\ Len(s) \in Nat /\ Len(s) >= 4
  BY PacketAssumption
<1>3. /\ frame.body \o s \in Seq(Byte) /\ Len(frame.body \o s) = Len(frame.body) + Len(s)
      /\ \A k \in 1 .. Len(frame.body) : (frame.body \o s)[k] = frame.body[k]
  BY <1>1, <1>2, HeadAndData, Zenon
<1>4. /\ p \in Packet /\ p.src = frame.src /\ p.dst = frame.dst /\ p.length = frame.length
      /\ p.body = frame.body \o s /\ p.src \in Byte \X Byte
  BY <1>1, <1>3, Zenon DEF Packet
<1> HIDE DEF p
<1>5. /\ p.body \in Seq(Byte) /\ n \in 0 .. Len(p.body) /\ Len(p.body) >= 4
      /\ Len(p.body) \in Nat
      /\ n <= Len(p.body) /\ n <= Len(frame.body)
      /\ \A k \in 1 .. n : p.body[k] = frame.body[k]
  BY <1>1, <1>2, <1>3, <1>4, SMTT(60)
<1>6. HDR_ICMP6 \in Type /\ SumAt(HDR_ICMP6) = 3
  BY Zenon DEF Type, SumAt, HDR_UDP, HDR_ICMP6
<1>7. Raw(p, HDR_ICMP6, n) = Raw(frame, HDR_ICMP6, n)
  <2>1. /\ p \in Packet /\ frame \in Packet /\ p.src = frame.src /\ p.dst = frame.dst
        /\ p.length = frame.length /\ n \in Nat
    BY <1>1, <1>4, Zenon
  <2> HIDE DEF n
  <2> QED  BY <1>5, <2>1, SameRaw, ZenonT(60)
<1>8. ASSUME n >= 4
      PROVE  acc <=> Load(Field(p.body, 3)) # 0 /\ Multiple(Raw(frame, HDR_ICMP6, n))
  <2>1. SumAt(HDR_ICMP6) + 1 <= n
    BY <1>5, <1>6, <1>8
  <2> HIDE DEF n
  <2> QED  BY <1>4, <1>5, <1>6, <1>7, <2>1, AcceptedIs, Zenon
<1>9. ASSUME acc PROVE damage \in {"none", "length"}
  BY <1>6, <1>8, <1>9, DamageSeen, Zenon
<1>10. /\ ~acc => R = {}
       /\ acc => R \subseteq {Advertisement, EchoReply(p, n)}
       /\ acc /\ p.body[1] = 2 => R = {EchoReply(p, n)}
       /\ (/\ acc /\ p.body[1] = 1 /\ n >= 6 /\ p.body[2] = 0
           /\ Field(p.body, 5) = ll_ip6_addr) => R = {Advertisement}
  <2>1. Len(ll_ip6_addr) = 2
    BY Zenon DEF ll_ip6_addr
  <2> DEFINE t == p.body[1]
             good == n >= 6 /\ p.body[2] = 0 /\ Field(p.body, 5) = ll_ip6_addr
             A == {Advertisement}
             E == {EchoReply(p, n)}
  <2>2. R = IF ~acc THEN {} ELSE
            CASE t = 1 -> (IF good THEN A ELSE {}) [] t = 2 -> E [] OTHER -> {}
    BY <2>1 DEF icmp6_recv, ICMP6_NDP_N_SOLICIT, ICMP6_ECHO_REQUEST, ICMP_HDR_LEN
  <2> HIDE DEF n, t, good, A, E, acc, R
  <2>3. ~acc => R = {}
    BY <2>2, Zenon
  <2>4. acc => R \in {{}, A, E}
    BY <2>2, Zenon
  <2>5. acc /\ t = 2 => R = E
    BY <2>2
  <2>6. acc /\ t = 1 /\ good => R = A
    BY <2>2
  <2> QED  BY <2>3, <2>4, <2>5, <2>6, Zenon DEF t, good, A, E
<1> HIDE DEF acc, R
<1>11. /\ EchoReply(p, n) \in Seq(Byte) /\ Len(EchoReply(p, n)) = n
       /\ \A k \in 1 .. n : EchoReply(p, n)[k] =
            CASE k = 1 -> 3 [] k \in {3, 4} -> 0 [] OTHER -> p.body[k]
  <2> HIDE DEF n
  <2> QED  BY <1>4, <1>5, EchoReplyIs, Zenon
<1>12. n >= 4 => Field(EchoReply(p, n), 3) = <<0, 0>>
  <2> DEFINE e == EchoReply(p, n)
  <2> HIDE DEF e
  <2>1. ASSUME n >= 4 PROVE e[3] = 0 /\ e[4] = 0
    BY <1>1, <1>11, <2>1, SMTT(60) DEF e
  <2>2. n >= 4 => Field(e, 3) = <<0, 0>>
    BY <2>1 DEF Field
  <2> QED  BY <2>2, Zenon DEF e
<1>13. ASSUME damage = "none"
       PROVE  /\ kind # "udp" /\ n = m /\ m >= 4 /\ m = 4 + Len(data)
              /\ m <= MaxPayload + UDP_HDR_LEN
              /\ \A k \in 1 .. m : p.body[k] = sent.body[k]
              /\ sent.body[1] = (IF kind = "ping" THEN 2 ELSE 1) /\ sent.body[2] = 0
              /\ \A i \in 1 .. Len(data) : sent.body[4 + i] = data[i]
              /\ acc \/ Field(sent.body, 3) = <<0, 0>>
  <2>1. /\ frame.next = sent.next /\ frame.src = sent.src /\ frame.dst = sent.dst
        /\ frame.length = sent.length /\ \E pad \in Pads : frame.body = sent.body \o pad
    BY <1>13, Zenon DEF FrameOK
  <2>2. kind # "udp" /\ sent.next = HDR_ICMP6
    BY <2>1 DEF SentOK, TypeOf, HDR_UDP, HDR_ICMP6
  <2>3. n = m
    BY <2>1, SentShape, Zenon DEF PacketLen
  <2>4. /\ m <= Len(frame.body)
        /\ \A k \in 1 .. m : frame.body[k] = sent.body[k]
    <3>1. PICK pad \in Pads : frame.body = sent.body \o pad
      BY <2>1, Zenon
    <3>2. pad \in Seq(Byte)
      BY PacketAssumption, Zenon
    <3> QED  BY <1>1, <3>1, <3>2, Padded, Zenon
  <2>5. m = 4 + Len(data) /\ m >= 4 /\ m <= MaxPayload + UDP_HDR_LEN
    BY <1>1, <2>2 DEF SentOK, HdrLen, ICMP_HDR_LEN
  <2>6. \A k \in 1 .. m : p.body[k] = sent.body[k]
    BY <1>5, <2>3, <2>4, Zenon
  <2>7. /\ sent.body[1] = (IF kind = "ping" THEN 2 ELSE 1) /\ sent.body[2] = 0
        /\ \A i \in 1 .. Len(data) : sent.body[4 + i] = data[i]
    BY <2>2, SentShape, Zenon DEF HdrLen, ICMP_HDR_LEN
  <2>8. Multiple(Raw(sent, HDR_ICMP6, m))
    BY <2>2, Zenon DEF SentOK
  <2>9. Raw(frame, HDR_ICMP6, m) = Raw(sent, HDR_ICMP6, m)
    <3> HIDE DEF m
    <3>1. m <= Len(sent.body)
      BY <1>1 DEF m
    <3> QED  BY <1>1, <2>1, <2>4, <3>1, SameRaw, ZenonT(60)
  <2>10. Field(p.body, 3) = Field(sent.body, 3)
    BY <1>1, <2>5, <2>6 DEF Field
  <2>11. Field(sent.body, 3) \in Byte \X Byte
    BY <1>1, <2>5, FieldType
  <2>12. Load(Field(sent.body, 3)) = 0 => Field(sent.body, 3) = <<0, 0>>
    BY <2>11, NumberOfWord, Zenon
  <2> QED  BY <1>8, <2>2, <2>3, <2>5, <2>6, <2>7, <2>8, <2>9, <2>10, <2>12, ZenonT(60)
<1>14. ASSUME NEW b \in R
       PROVE  /\ b \in Seq(Byte) /\ damage \in {"none", "length"}
              /\ Len(b) >= 4 => Field(b, 3) = <<0, 0>>
              /\ damage = "none" /\ kind = "ping" => b = IcmpBody(3, data)
  <2>1. acc /\ b \in {Advertisement, EchoReply(p, n)}
    BY <1>10, Zenon
  <2>2. b \in Seq(Byte) /\ (Len(b) >= 4 => Field(b, 3) = <<0, 0>>)
    BY <1>11, <1>12, <2>1, AdvertisementIs
  <2>3. ASSUME damage = "none", kind = "ping" PROVE b = IcmpBody(3, data)
    <3> DEFINE e == EchoReply(p, n)
               c == IcmpBody(3, data)
    <3>1. /\ n = 4 + Len(data) /\ p.body[1] = 2 /\ p.body[2] = 0
          /\ \A i \in 1 .. Len(data) : p.body[4 + i] = data[i]
      BY <1>1, <1>13, <2>3, SMTT(60)
    <3>2. b = e
      BY <1>10, <2>1, <3>1, Zenon
    <3>3. /\ c \in Seq(Byte) /\ Len(c) = 4 + Len(data)
          /\ \A k \in 1 .. Len(data) : c[4 + k] = data[k]
          /\ Field(c, 3) = <<0, 0>> /\ c[1] = 3 /\ c[2] = 0
      BY <1>1, SmallBytes, IcmpBodyIs DEF ICMP_HDR_LEN
    <3> HIDE DEF e, c, n
    <3>4. c[3] = 0 /\ c[4] = 0
      BY <3>3 DEF Field
    <3>5. e \in Seq(Byte) /\ Len(e) = n
          /\ \A k \in 1 .. n : e[k] = CASE k = 1 -> 3 [] k \in {3, 4} -> 0 [] OTHER -> p.body[k]
      BY <1>11, Zenon DEF e
    <3>6. ASSUME NEW k \in 1 .. n PROVE e[k] = c[k]
      <4>1. CASE k \in 1 .. 4
        BY <1>1, <3>1, <3>3, <3>4, <3>5, <4>1
      <4>2. CASE k \notin 1 .. 4
        <5> DEFINE i == k - 4
        <5>1. i \in 1 .. Len(data) /\ 4 + i = k /\ k # 1 /\ k \notin {3, 4}
          BY <1>1, <3>1, <4>2
        <5>2. e[k] = p.body[k]
          BY <3>5, <5>1, Zenon
        <5> HIDE DEF i
        <5>3. p.body[k] = data[i] /\ c[k] = data[i]
          BY <3>1, <3>3, <5>1, Zenon
        <5> QED  BY <5>2, <5>3, Zenon
      <4> QED  BY <4>1, <4>2, Zenon
    <3>7. Len(e) = Len(c) /\ \A k \in 1 .. Len(e) : e[k] = c[k]
      BY <3>1, <3>3, <3>5, <3>6, Zenon
    <3>8. e = c
      BY <3>3, <3>5, <3>7, SameElements, Zenon
    <3> QED  BY <3>2, <3>8, Zenon DEF c
  <2> QED  BY <1>9, <2>1, <2>2, <2>3, Zenon
<1>15. ASSUME damage = "none"
       PROVE  /\ kind # "udp"
              /\ \/ kind = "solicit" /\ data # ll_ip6_addr
                 \/ Field(sent.body, 3) = <<0, 0>>
                 \/ \E b \in R : Len(b) <= MaxPayload + UDP_HDR_LEN
  <2>1. SUFFICES ASSUME acc, ~(kind = "solicit" /\ data # ll_ip6_addr)
                 PROVE  \E b \in R : Len(b) <= MaxPayload + UDP_HDR_LEN
    BY <1>13, <1>15, Zenon
  <2>2. kind \in {"ping", "solicit"}
    BY <1>13, <1>15, Zenon DEF TypeOK, Kind
  <2>3. CASE kind = "ping"
    <3>1. p.body[1] = 2 /\ n <= MaxPayload + UDP_HDR_LEN
      BY <1>1, <1>13, <1>15, <2>3, SMTT(60)
    <3>2. R = {EchoReply(p, n)} /\ Len(EchoReply(p, n)) = n
      BY <1>10, <1>11, <2>1, <3>1, Zenon
    <3> QED  BY <3>1, <3>2, Zenon
  <2>4. CASE kind = "solicit"
    <3>1. data = ll_ip6_addr /\ Len(data) = 2 /\ ll_ip6_addr = <<data[1], data[2]>>
      BY <2>1, <2>4 DEF ll_ip6_addr
    <3>2. n = 6 /\ p.body[1] = 1 /\ p.body[2] = 0
          /\ p.body[5] = data[1] /\ p.body[6] = data[2]
      <4>1. sent.body[4 + 1] = data[1] /\ sent.body[4 + 2] = data[2]
        BY <1>13, <1>15, <3>1
      <4> QED  BY <1>13, <1>15, <2>4, <3>1, <4>1, SMTT(60)
    <3>3. Field(p.body, 5) = ll_ip6_addr
      BY <3>1, <3>2 DEF Field
    <3>4. R = {Advertisement}
      BY <1>10, <2>1, <3>2, <3>3
    <3>5. Len(Advertisement) <= MaxPayload + UDP_HDR_LEN
      BY AdvertisementIs, PacketAssumption DEF UDP_HDR_LEN
    <3> QED  BY <3>4, <3>5, Zenon
  <2> QED  BY <2>2, <2>3, <2>4, Zenon
<1> QED  BY <1>4, <1>14, <1>15, Zenon DEF p, R

-----------------------------------------------------------------------------
(* The steps of the device, and the theorems.                              *)

(* What AnswersVerify says of one answer.                                  *)
AnswerOK(a, k, d, dam) ==
  /\ ntohs(a.length) = Len(a.body) /\ Len(a.body) <= MaxPayload + UDP_HDR_LEN
  /\ Len(a.body) >= ICMP_HDR_LEN =>
       /\ Load(Field(a.body, SumAt(a.next))) # 0
       /\ PacketSum(a, a.next, Len(a.body)) = Mask
  /\ dam \in {"none", "length"}
  /\ k = "ping" /\ dam = "none" =>
       a.body = WithField(IcmpBody(ICMP6_ECHO_REPLY, d), 3, Field(a.body, 3))

(* A step of the device that handles a frame keeps the invariant if what   *)
(* it passes up and answers is right.                                      *)
LEMMA HandledIs ==
  ASSUME PacketInv, pc = "device", pc' = "done",
         UNCHANGED <<kind, data, sent, frame, damage>>,
         up' \subseteq Seq(Byte),
         up' # {} => kind = "udp" /\ up' = {data} /\ damage \in {"none", "length"},
         \A a \in answer' : a \in Packet /\ AnswerOK(a, kind, data, damage),
         damage = "none" =>
           \/ kind = "udp" /\ up' # {}
           \/ kind # "udp" /\ \/ answer' # {}
                              \/ kind = "solicit" /\ data # ll_ip6_addr
                              \/ Field(sent.body, 3) = <<0, 0>>
  PROVE  PacketInv'
<1>1. TypeOK'
  BY Zenon DEF PacketInv, TypeOK
<1>2. SentOK' /\ FrameOK'
  <2>1. SentOK /\ FrameOK
    BY Zenon DEF PacketInv
  <2> QED  BY <2>1, Zenon DEF SentOK, FrameOK
<1>3. UdpExact'
  BY Zenon DEF UdpExact
<1>4. AnswersVerify'
  BY Zenon DEF AnswersVerify, AnswerOK
<1>5. WellFormedHandled'
  <2>1. SUFFICES ASSUME damage = "none"
                 PROVE  CASE kind = "udp" -> up' = {data}
                          [] kind = "ping" -> answer' # {} \/ Field(sent.body, 3) = <<0, 0>>
                          [] kind = "solicit" -> answer' # {} \/ data # ll_ip6_addr
                                                   \/ Field(sent.body, 3) = <<0, 0>>
    BY Zenon DEF WellFormedHandled
  <2>2. kind \in {"udp", "ping", "solicit"}
    BY Zenon DEF PacketInv, TypeOK, Kind
  <2> QED  BY <2>1, <2>2, Zenon
<1> QED  BY <1>1, <1>2, <1>3, <1>4, <1>5, Zenon DEF PacketInv

(* A frame that is not for the device, or of another protocol, was sent    *)
(* damaged.                                                                *)
LEMMA DropsStep == PacketInv /\ DeviceDrops => PacketInv'
<1> SUFFICES ASSUME PacketInv, DeviceDrops PROVE PacketInv'
  BY Zenon
<1>1. TypeOK /\ SentOK /\ FrameOK /\ up = {} /\ answer = {} /\ pc = "device"
  BY Zenon DEF PacketInv, DeviceDrops
<1>2. damage # "none"
  <2>1. SUFFICES ASSUME damage = "none" PROVE FALSE
    BY Zenon
  <2>2. /\ frame.next = sent.next /\ frame.dst = sent.dst /\ frame.length = sent.length
        /\ \E pad \in Pads : frame.body = sent.body \o pad
    BY <1>1, <2>1, Zenon DEF FrameOK
  <2>3. sent.next \in Type /\ ntohs(sent.length) = Len(sent.body)
    BY <1>1, SentShape, Zenon
  <2>4. Len(sent.body) <= Len(frame.body)
    <3>1. PICK pad \in Pads : frame.body = sent.body \o pad
      BY <2>2, Zenon
    <3>2. pad \in Seq(Byte) /\ sent \in Packet /\ frame \in Packet
      BY <1>1, PacketAssumption, Zenon DEF TypeOK
    <3> QED  BY <3>1, <3>2, Padded, Zenon
  <2>5. sent.dst \in {ll_ip6_addr, snm_ip6_addr}
    BY <1>1, Zenon DEF SentOK
  <2>6. ForDevice(frame) /\ frame.next \in Type
    BY <2>2, <2>3, <2>4, <2>5, Zenon DEF ForDevice
  <2> QED  BY <2>6, Zenon DEF DeviceDrops, Type
<1>3. /\ pc' = "done" /\ up' = {} /\ answer' = {}
      /\ UNCHANGED <<kind, data, sent, frame, damage>>
  BY <1>1, Zenon DEF DeviceDrops
<1> QED  BY <1>1, <1>2, <1>3, HandledIs, Zenon

(* _udp6_recv, and an answer of udp6_recv to what it was called with.      *)
LEMMA UdpStep == PacketInv /\ DeviceUdp => PacketInv'
<1> SUFFICES ASSUME PacketInv, DeviceUdp PROVE PacketInv'
  OBVIOUS
<1>1. TypeOK /\ SentOK /\ FrameOK /\ up = {} /\ answer = {} /\ pc = "device"
  BY Zenon DEF PacketInv, DeviceUdp
<1>2. /\ pc' = "done" /\ UNCHANGED <<kind, data, sent, frame, damage>>
      /\ ForDevice(frame) /\ frame.next = HDR_UDP
      /\ up' = _udp6_recv(frame, PacketLen(frame))
  BY Zenon DEF DeviceUdp
<1>3. /\ up' # {} => kind = "udp" /\ up' = {data} /\ damage \in {"none", "length"}
      /\ damage = "none" => up' # {}
  BY <1>1, <1>2, UdpReceived, Zenon
<1>4. data \in Seq(Byte) /\ frame.src \in Byte \X Byte
  BY <1>1, Zenon DEF TypeOK, Packet
<1>5. up' \subseteq Seq(Byte)
  BY <1>3, <1>4, Zenon
<1>6. ASSUME NEW a \in answer' PROVE a \in Packet /\ AnswerOK(a, kind, data, damage)
  <2>1. PICK r \in Replies : up' # {} /\ answer' = udp6_send(r, frame.src)
    BY <1>6, Zenon DEF DeviceUdp
  <2>2. r \in Seq(Byte) /\ Len(r) \in Nat
    BY PacketAssumption
  <2>3. ~(Len(r) > MaxPayload) /\ a = Send(frame.src, HDR_UDP, UdpBody(r))
    BY <2>1, Zenon DEF udp6_send
  <2> DEFINE b == UdpBody(r)
  <2>4. Len(r) + UDP_HDR_LEN \in 0 .. Mask
    BY <2>2, <2>3, PacketAssumption, MaskRange DEF UDP_HDR_LEN
  <2>5. /\ b \in Seq(Byte) /\ Len(b) = UDP_HDR_LEN + Len(r) /\ Field(b, 7) = <<0, 0>>
    BY <2>2, <2>4, UdpBodyIs, Zenon
  <2> HIDE DEF b
  <2>6. HDR_UDP \in Type /\ SumAt(HDR_UDP) = 7
    BY Zenon DEF Type, SumAt
  <2>7. Len(b) <= MaxPayload + UDP_HDR_LEN /\ 7 + 1 <= Len(b)
    BY <2>2, <2>3, <2>5, PacketAssumption DEF UDP_HDR_LEN
  <2>8. /\ a \in Packet /\ a.next = HDR_UDP
        /\ ntohs(a.length) = Len(a.body) /\ Len(a.body) = Len(b)
        /\ Load(Field(a.body, 7)) # 0 /\ PacketSum(a, HDR_UDP, Len(a.body)) = Mask
    BY <1>4, <2>3, <2>5, <2>6, <2>7, SendIs DEF b
  <2>9. kind = "udp" /\ damage \in {"none", "length"}
    BY <1>3, <2>1, Zenon
  <2> QED  BY <2>6, <2>7, <2>8, <2>9, Zenon DEF AnswerOK
<1>7. damage = "none" => kind = "udp" /\ up' # {}
  BY <1>3, Zenon
<1> QED  BY <1>1, <1>2, <1>3, <1>5, <1>6, <1>7, HandledIs, Zenon

(* icmp6_recv.                                                             *)
LEMMA IcmpStep == PacketInv /\ DeviceIcmp => PacketInv'
<1> SUFFICES ASSUME PacketInv, DeviceIcmp PROVE PacketInv'
  OBVIOUS
<1>1. TypeOK /\ SentOK /\ FrameOK /\ up = {} /\ answer = {} /\ pc = "device"
  BY Zenon DEF PacketInv, DeviceIcmp
<1>2. /\ pc' = "done" /\ UNCHANGED <<kind, data, sent, frame, damage>> /\ up' = {}
      /\ ForDevice(frame) /\ frame.next = HDR_ICMP6
  BY <1>1, Zenon DEF DeviceIcmp
<1>3. PICK s \in Stale :
        LET p == [frame EXCEPT !.body = @ \o s]
        IN  answer' = UNION {icmp6_send(b, p.src) : b \in icmp6_recv(p, PacketLen(frame))}
  BY Zenon DEF DeviceIcmp
<1> DEFINE p == [frame EXCEPT !.body = @ \o s]
           src == p.src
           R == icmp6_recv(p, PacketLen(frame))
<1>4. answer' = UNION {icmp6_send(b, src) : b \in R}
  BY <1>3, Zenon
<1>5. /\ src \in Byte \X Byte
      /\ \A b \in R : /\ b \in Seq(Byte) /\ damage \in {"none", "length"}
                      /\ Len(b) >= 4 => Field(b, 3) = <<0, 0>>
                      /\ damage = "none" /\ kind = "ping" => b = IcmpBody(3, data)
      /\ damage = "none" =>
           /\ kind # "udp"
           /\ \/ kind = "solicit" /\ data # ll_ip6_addr
              \/ Field(sent.body, 3) = <<0, 0>>
              \/ \E b \in R : Len(b) <= MaxPayload + UDP_HDR_LEN
  BY <1>1, <1>2, IcmpReceived, ZenonT(60)
<1> HIDE DEF p, src, R
<1>6. ASSUME NEW a \in answer' PROVE a \in Packet /\ AnswerOK(a, kind, data, damage)
  <2>1. PICK b \in R : a \in icmp6_send(b, src)
    BY <1>4, Zenon
  <2>2. b \in Seq(Byte) /\ Len(b) \in Nat
    BY <1>5
  <2>3. Len(b) <= MaxPayload + UDP_HDR_LEN /\ a = Send(src, HDR_ICMP6, b)
    BY <2>1, <2>2, PacketAssumption DEF icmp6_send, UDP_HDR_LEN
  <2>4. HDR_ICMP6 \in Type /\ SumAt(HDR_ICMP6) = 3
    BY Zenon DEF Type, SumAt, HDR_UDP, HDR_ICMP6
  <2>5. /\ a \in Packet /\ a.next = HDR_ICMP6
        /\ ntohs(a.length) = Len(a.body) /\ Len(a.body) = Len(b)
        /\ \E w \in Byte \X Byte : a.body = WithField(b, 3, w)
        /\ 3 + 1 <= Len(b) /\ Field(b, 3) = <<0, 0>> =>
             Load(Field(a.body, 3)) # 0 /\ PacketSum(a, HDR_ICMP6, Len(a.body)) = Mask
    BY <1>5, <2>2, <2>3, <2>4, SendIs
  <2>6. ASSUME kind = "ping", damage = "none"
        PROVE  a.body = WithField(IcmpBody(3, data), 3, Field(a.body, 3))
    <3>1. b = IcmpBody(3, data)
      BY <1>5, <2>6, Zenon
    <3>2. PICK w \in Byte \X Byte : a.body = WithField(b, 3, w)
      BY <2>5, Zenon
    <3>3. Len(b) = 4 + Len(data) /\ Len(data) \in Nat
      BY <1>1, <3>1, SmallBytes, IcmpBodyIs DEF TypeOK, ICMP_HDR_LEN
    <3>4. Field(a.body, 3) = w
      BY <2>2, <3>2, <3>3, FieldWritten
    <3> QED  BY <3>1, <3>2, <3>4, Zenon
  <2>7. ASSUME Len(a.body) >= 4
        PROVE  Load(Field(a.body, 3)) # 0 /\ PacketSum(a, HDR_ICMP6, Len(a.body)) = Mask
    BY <1>5, <2>5, <2>7
  <2> QED
    BY <1>5, <2>3, <2>4, <2>5, <2>6, <2>7, Zenon DEF AnswerOK, ICMP_HDR_LEN, ICMP6_ECHO_REPLY
<1>7. ASSUME NEW b \in R, Len(b) <= MaxPayload + UDP_HDR_LEN PROVE answer' # {}
  <2>1. b \in Seq(Byte) /\ Len(b) \in Nat
    BY <1>5
  <2>2. Send(src, HDR_ICMP6, b) \in icmp6_send(b, src)
    BY <1>7, <2>1, PacketAssumption DEF icmp6_send, UDP_HDR_LEN
  <2> QED  BY <1>4, <2>2, Zenon
<1>8. damage = "none" =>
        kind # "udp" /\ \/ answer' # {}
                        \/ kind = "solicit" /\ data # ll_ip6_addr
                        \/ Field(sent.body, 3) = <<0, 0>>
  BY <1>5, <1>7, Zenon
<1> QED  BY <1>1, <1>2, <1>6, <1>8, HandledIs, Zenon

(* Nothing was sent yet.                                                   *)
LEMMA PacketInvInit == Init => PacketInv
<1> SUFFICES ASSUME Init PROVE PacketInv
  BY Zenon
<1>1. NoPacket \in Packet
  <2>1. htons(0) \in Byte \X Byte
    BY WordOfNumber, MaskRange
  <2>2. Len(<<>>) = 0 /\ <<>> \in Seq(Byte) /\ <<0, 0>> \in Byte \X Byte /\ 0 \in Byte
    BY SmallBytes
  <2> QED  BY <2>1, <2>2, Zenon DEF NoPacket, ip6_setup, Packet
<1>2. TypeOK
  BY <1>1 DEF Init, TypeOK, Kind
<1> QED  BY <1>2, Zenon DEF Init, PacketInv, UdpExact, WellFormedHandled, AnswersVerify

(* Every step keeps the invariant.                                         *)
LEMMA PacketInvStep == PacketInv /\ [Next]_vars => PacketInv'
<1> SUFFICES ASSUME PacketInv, [Next]_vars PROVE PacketInv'
  BY Zenon
<1>1. TypeOK
  BY Zenon DEF PacketInv
<1>2. CASE HostSends
  <2>1. data' \in Seq(Byte) /\ sent' \in Packet /\ SentOK'
    BY <1>1, <1>2, HostStep, Zenon
  <2>2. /\ pc = "host" /\ pc' = "wire" /\ kind' \in Kind
        /\ UNCHANGED <<frame, damage, up, answer>>
    BY <1>2 DEF HostSends
  <2>3. up = {} /\ answer = {}
    BY <2>2, Zenon DEF PacketInv
  <2>4. TypeOK'
    BY <1>1, <2>1, <2>2, Zenon DEF TypeOK
  <2> QED
    BY <2>1, <2>2, <2>3, <2>4, Zenon DEF PacketInv, UdpExact, WellFormedHandled, AnswersVerify
<1>3. CASE WireDelivers
  <2>1. /\ pc = "wire" /\ pc' = "device" /\ UNCHANGED <<kind, data, sent, up, answer>>
    BY <1>3, Zenon DEF WireDelivers
  <2>2. SentOK /\ up = {} /\ answer = {}
    BY <2>1, Zenon DEF PacketInv
  <2>3. /\ frame' \in Packet /\ FrameOK'
        /\ damage' \in {"next", "length", "src", "dst", "body", "cut", "none"}
    BY <1>1, <1>3, <2>2, WireStep, Zenon
  <2>4. SentOK'
    BY <2>1, <2>2, Zenon DEF SentOK
  <2>5. TypeOK'
    BY <1>1, <2>1, <2>3, Zenon DEF TypeOK
  <2> QED
    BY <2>1, <2>2, <2>3, <2>4, <2>5, Zenon
       DEF PacketInv, UdpExact, WellFormedHandled, AnswersVerify
<1>4. CASE UNCHANGED vars
  BY <1>4, ZenonT(60) DEF vars, PacketInv, TypeOK, SentOK, FrameOK, UdpExact,
     WellFormedHandled, AnswersVerify
<1> QED
  BY <1>2, <1>3, <1>4, DropsStep, UdpStep, IcmpStep, Zenon DEF Next

(* The invariant holds.                                                    *)
LEMMA PacketInvHolds == Spec => []PacketInv
BY PacketInvInit, PacketInvStep, PTL DEF Spec

(* Type correctness of the packets inet6.c receives and sends.             *)
THEOREM PacketTypeCorrect == Spec => []TypeOK
<1>1. PacketInv => TypeOK
  BY Zenon DEF PacketInv
<1> QED  BY <1>1, PacketInvHolds, PTL

(* _udp6_recv passes to udp6_recv exactly the payload that was sent,       *)
(* whatever the padding, and nothing if a byte of the protocol, of an      *)
(* address or of the payload was damaged or the frame was cut.             *)
THEOREM UdpExactHolds == Spec => []UdpExact
<1>1. PacketInv => UdpExact
  BY Zenon DEF PacketInv
<1> QED  BY <1>1, PacketInvHolds, PTL

(* _udp6_recv and icmp6_recv handle every intact request, except an ICMPv6 *)
(* message whose checksum is zero.                                         *)
THEOREM WellFormedHandledHolds == Spec => []WellFormedHandled
<1>1. PacketInv => WellFormedHandled
  BY Zenon DEF PacketInv
<1> QED  BY <1>1, PacketInvHolds, PTL

(* What udp6_send and icmp6_send give to eth_send fits, verifies, and      *)
(* answers a request that no damage but that of its length has reached.    *)
THEOREM AnswersVerifyHolds == Spec => []AnswersVerify
<1>1. PacketInv => AnswersVerify
  BY Zenon DEF PacketInv
<1> QED  BY <1>1, PacketInvHolds, PTL

-----------------------------------------------------------------------------
(* The texts of ip6toa.                                                    *)

(* Of two neighbours at least one is a colon, and there are not more than  *)
(* fifteen elements.                                                       *)
Separated(text) ==
  /\ text \in Seq(Int) /\ Len(text) <= 15
  /\ \A k \in 1 .. Len(text) - 1 : text[k] = Colon \/ text[k + 1] = Colon

(* The running sums of numbers.                                            *)
LEMMA RunningSums ==
  ASSUME NEW N \in Nat, NEW c \in [1 .. N -> Nat]
  PROVE  \E g : g = [k \in 0 .. N |-> IF k = 0 THEN 0 ELSE g[k - 1] + c[k]]
<1> DEFINE step(g, k) == IF k = 0 THEN 0 ELSE g[k - 1] + c[k]
           Partial(g, n) == DOMAIN g = 0 .. n /\ g = [k \in 0 .. n |-> step(g, k)]
           S == {n \in Nat : \E g : Partial(g, n)}
<1>2. 0 \in S
  <2>1. Partial([k \in 0 .. 0 |-> 0], 0)
    OBVIOUS
  <2> QED  BY <2>1, Zenon
<1>3. ASSUME NEW n \in Nat, n \in S PROVE n + 1 \in S
  <2>1. PICK g : Partial(g, n)
    BY <1>3, Zenon
  <2> DEFINE h == [k \in 0 .. n + 1 |-> IF k = n + 1 THEN g[n] + c[n + 1] ELSE g[k]]
  <2>2. ASSUME NEW k \in 0 .. n + 1 PROVE h[k] = step(h, k)
    <3>1. CASE k = n + 1
      BY <3>1
    <3>2. CASE k # n + 1
      <4>1. k \in 0 .. n /\ k # n + 1 /\ (k # 0 => k - 1 \in 0 .. n + 1 /\ k - 1 # n + 1)
        BY <3>2
      <4>2. h[k] = g[k] /\ (k # 0 => h[k - 1] = g[k - 1])
        BY <4>1, Zenon
      <4>3. g[k] = step(g, k)
        BY <2>1, <4>1, Zenon
      <4> QED  BY <4>1, <4>2, <4>3, Zenon
    <3> QED  BY <3>1, <3>2, Zenon
  <2>3. Partial(h, n + 1)
    BY <2>2, Zenon
  <2> HIDE DEF Partial
  <2> QED  BY <2>3
<1>4. N \in S
  <2> HIDE DEF S
  <2> QED  BY <1>2, <1>3, Induction, Zenon
<1> QED  BY <1>4, Zenon

(* Written counts the characters of the elements one after the other.      *)
LEMMA WrittenDef ==
  ASSUME NEW text \in Seq(Int)
  PROVE  /\ Written(text)[0] = 0
         /\ \A k \in 1 .. Len(text) :
              Written(text)[k] = Written(text)[k - 1] + Chars(text[k])
<1> DEFINE N == Len(text)
           c == [k \in 1 .. N |-> Chars(text[k])]
           f == Written(text)
<1>1. N \in Nat /\ c \in [1 .. N -> Nat]
  BY DEF Chars
<1> HIDE DEF c
<1>2. PICK g : g = [k \in 0 .. N |-> IF k = 0 THEN 0 ELSE g[k - 1] + c[k]]
  BY <1>1, RunningSums, Zenon
<1>3. [k \in 0 .. N |-> IF k = 0 THEN 0 ELSE g[k - 1] + c[k]]
        = [k \in 0 .. N |-> IF k = 0 THEN 0 ELSE g[k - 1] + Chars(text[k])]
  <2>1. \A k \in 0 .. N : k # 0 => c[k] = Chars(text[k])
    BY <1>1 DEF c
  <2> QED  BY <2>1, Zenon
<1>4. g = [k \in 0 .. N |-> IF k = 0 THEN 0 ELSE g[k - 1] + Chars(text[k])]
  BY <1>2, <1>3, Zenon
<1>5. f = [k \in 0 .. N |-> IF k = 0 THEN 0 ELSE f[k - 1] + Chars(text[k])]
  BY <1>4, Zenon DEF Written
<1> HIDE DEF f
<1>6. f[0] = 0
  BY <1>1, <1>5
<1>7. ASSUME NEW k \in 1 .. N PROVE f[k] = f[k - 1] + Chars(text[k])
  <2>1. k \in 0 .. N /\ k # 0
    BY <1>1
  <2> QED  BY <1>5, <2>1, Zenon
<1> QED  BY <1>6, <1>7, Zenon DEF f

(* At most eight numbers of four digits and seven colons.                  *)
LEMMA LengthBound ==
  ASSUME NEW text, Separated(text) PROVE Length(text) < IP6TOAMAX
<1> DEFINE N == Len(text)
           f == Written(text)
           S == {k \in Nat : k <= N =>
                   /\ f[k] \in Nat /\ 2 * f[k] <= 5 * k + 3
                   /\ (k = 0 \/ text[k] = Colon) => 2 * f[k] <= 5 * k}
<1>1. text \in Seq(Int) /\ N \in Nat /\ N <= 15
      /\ \A k \in 1 .. N - 1 : text[k] = Colon \/ text[k + 1] = Colon
  BY DEF Separated
<1>2. f[0] = 0 /\ \A k \in 1 .. N : f[k] = f[k - 1] + Chars(text[k])
  BY <1>1, WrittenDef, Zenon
<1> HIDE DEF f
<1>3. 0 \in S
  BY <1>1, <1>2
<1>4. ASSUME NEW n \in Nat, n \in S PROVE n + 1 \in S
  <2> SUFFICES ASSUME n + 1 <= N
               PROVE  /\ f[n + 1] \in Nat /\ 2 * f[n + 1] <= 5 * (n + 1) + 3
                      /\ text[n + 1] = Colon => 2 * f[n + 1] <= 5 * (n + 1)
    OBVIOUS
  <2> DEFINE before == f[n]
             after  == f[n + 1]
             t      == text[n + 1]
             here   == Chars(t)
  <2>1. before \in Nat /\ 2 * before <= 5 * n + 3
        /\ ((n = 0 \/ text[n] = Colon) => 2 * before <= 5 * n)
    BY <1>1, <1>4
  <2>2. after = before + here
    <3>1. n + 1 \in 1 .. N /\ (n + 1) - 1 = n
      BY <1>1
    <3> QED  BY <1>2, <3>1, Zenon
  <2>3. n = 0 \/ text[n] = Colon \/ t = Colon
    BY <1>1
  <2>4. here \in 1 .. 4 /\ (t = Colon => here = 1)
    BY <1>1 DEF Chars, Colon
  <2> HIDE DEF before, after, here
  <2>5. after \in Nat /\ 2 * after <= 5 * (n + 1) + 3 /\ (t = Colon => 2 * after <= 5 * (n + 1))
    BY <2>1, <2>2, <2>3, <2>4
  <2> QED  BY <2>5, Zenon DEF after
<1>5. N \in S
  <2> HIDE DEF S
  <2> QED  BY <1>1, <1>3, <1>4, Induction, Zenon
<1>6. f[N] \in Nat /\ 2 * f[N] <= 5 * N + 3
  BY <1>1, <1>5
<1> DEFINE l == f[N]
<1> HIDE DEF l
<1>7. l < 40
  BY <1>1, <1>6 DEF l
<1> QED  BY <1>7, Zenon DEF l, f, Length, IP6TOAMAX

(* Texts with the same elements are equal.                                 *)
LEMMA SameText ==
  ASSUME NEW s \in Seq(Int), NEW t \in Seq(Int), Len(s) = Len(t),
         \A i \in 1 .. Len(s) : s[i] = t[i]
  PROVE  s = t
BY SMTT(60)
(* A text behind another one.                                              *)
LEMMA TextBehind ==
  ASSUME NEW h \in Seq(Int), NEW d \in Seq(Int)
  PROVE  /\ h \o d \in Seq(Int) /\ Len(h \o d) = Len(h) + Len(d)
         /\ \A k \in 1 .. Len(h) : (h \o d)[k] = h[k]
         /\ \A k \in 1 .. Len(d) : (h \o d)[Len(h) + k] = d[k]
OBVIOUS

(* s has the n words of a behind the d-th, with a colon between any two.   *)
Lists(s, a, d, n) ==
  /\ s \in Seq(Int) /\ Len(s) = IF n = 0 THEN 0 ELSE 2 * n - 1
  /\ \A j \in 1 .. n : s[2 * j - 1] = a[d + j]
  /\ \A j \in 1 .. n - 1 : s[2 * j] = Colon

(* s is the sequence of the n words of a behind the d-th.                  *)
Part(s, a, d, n) == s \in Seq(Int) /\ Len(s) = n /\ \A j \in 1 .. n : s[j] = a[d + j]

(* The words between the n-th and the x-th are zero.                       *)
Zeros(a, n, x) == \A j \in n + 1 .. x - 1 : a[j] = 0

(* Even and odd numbers.                                                   *)
LEMMA Half ==
  ASSUME NEW k \in Nat
  PROVE  /\ k \div 2 \in Nat /\ k % 2 \in {0, 1} /\ k = 2 * (k \div 2) + (k % 2)
         /\ (k % 2 = 0 \/ (k + 1) % 2 = 0)
<1>1. k \div 2 \in Nat /\ k = 2 * (k \div 2) + (k % 2)
  OBVIOUS
<1>2. k % 2 \in {0, 1} /\ (k % 2 = 0 \/ (k + 1) % 2 = 0)
  OBVIOUS
<1> QED  BY <1>1, <1>2, Zenon

(* Such a text is plain, and the words are its numbers.                    *)
LEMMA PlainText ==
  ASSUME NEW a \in [1 .. 8 -> Nat], NEW d \in 0 .. 8, NEW n \in 0 .. 8, d + n <= 8,
         NEW s, Lists(s, a, d, n)
  PROVE  /\ Plain(s) /\ Part(Numbers(s), a, d, n)
         /\ \A k \in 1 .. Len(s) - 1 : s[k] = Colon \/ s[k + 1] = Colon
<1> DEFINE N == Len(s)
<1>1. /\ s \in Seq(Int) /\ N \in Nat
      /\ (n = 0 => N = 0) /\ (n # 0 => N = 2 * n - 1)
  BY DEF Lists
<1>2. ASSUME NEW j \in 1 .. n PROVE s[2 * j - 1] = a[d + j] /\ a[d + j] \in Nat
  <2>1. d + j \in 1 .. 8
    OBVIOUS
  <2> QED  BY <2>1, Zenon DEF Lists
<1>3. \A j \in 1 .. n - 1 : s[2 * j] = Colon
  BY Zenon DEF Lists
<1> HIDE DEF N
<1>4. ASSUME NEW k \in 1 .. N PROVE s[k] = Colon <=> k % 2 = 0
  <2> DEFINE h == k \div 2
  <2>5. k \in Nat
    BY <1>1
  <2>3. h \in Nat /\ k % 2 \in {0, 1} /\ k = 2 * h + (k % 2)
    BY <2>5, Half, Zenon
  <2>4. n # 0 /\ N = 2 * n - 1
    BY <1>1
  <2> HIDE DEF h
  <2>1. CASE k % 2 = 0
    <3>1. k = 2 * h /\ h \in 1 .. n - 1
      BY <2>1, <2>3, <2>4
    <3> QED  BY <1>3, <2>1, <3>1, Zenon
  <2>2. CASE k % 2 # 0
    <3>1. k = 2 * (h + 1) - 1 /\ h + 1 \in 1 .. n
      BY <2>2, <2>3, <2>4
    <3>2. s[k] \in Nat
      BY <1>2, <3>1, Zenon
    <3> QED  BY <2>2, <3>2 DEF Colon
  <2> QED  BY <2>1, <2>2, Zenon
<1>5. CASE n = 0
  <2>1. N = 0 /\ (N + 1) \div 2 = 0
    BY <1>1, <1>5
  <2>2. s = <<>>
    BY <1>1, <2>1 DEF N
  <2>3. Numbers(s) = <<>>
    BY <2>1 DEF Numbers, N
  <2>4. Plain(s)
    BY <2>2, Zenon DEF Plain
  <2> QED  BY <1>5, <2>1, <2>3, <2>4 DEF N, Part
<1>6. CASE n # 0
  <2>1. N = 2 * n - 1
    BY <1>1, <1>6, Zenon
  <2>8. N % 2 = 1
    BY <2>1
  <2>9. (N + 1) \div 2 = n
    BY <2>1
  <2>2. Numbers(s) = [k \in 1 .. n |-> s[2 * k - 1]]
    BY <2>9, Zenon DEF Numbers, N
  <2>3. \A k \in 1 .. n : s[2 * k - 1] \in Int
    BY <1>2
  <2>4. Numbers(s) \in Seq(Int) /\ Len(Numbers(s)) = n
    BY <2>2, <2>3
  <2>5. \A j \in 1 .. n : Numbers(s)[j] = a[d + j]
    BY <1>2, <2>2, Zenon
  <2>6. ASSUME NEW k \in 1 .. N - 1 PROVE s[k] = Colon \/ s[k + 1] = Colon
    <3>1. k \in Nat /\ k \in 1 .. N /\ k + 1 \in 1 .. N
      BY <1>1
    <3>2. k % 2 = 0 \/ (k + 1) % 2 = 0
      BY <3>1, Half, Zenon
    <3> QED  BY <1>4, <3>1, <3>2, Zenon
  <2>7. Plain(s)
    BY <1>4, <2>8, Zenon DEF Plain, N
  <2> QED  BY <2>4, <2>5, <2>6, <2>7, Zenon DEF N, Part
<1> QED  BY <1>5, <1>6, Zenon

(* A text with a double colon in it.                                       *)
LEMMA DoubleColon ==
  ASSUME NEW p \in Seq(Int), NEW q \in Seq(Int)
  PROVE  LET text == p \o <<Colon, Colon>> \o q
         IN  /\ text \in Seq(Int) /\ Len(text) = Len(p) + 2 + Len(q)
             /\ \A k \in 1 .. Len(p) : text[k] = p[k]
             /\ text[Len(p) + 1] = Colon /\ text[Len(p) + 2] = Colon
             /\ \A k \in 1 .. Len(q) : text[Len(p) + 2 + k] = q[k]
             /\ SubSeq(text, 1, Len(p)) = p
             /\ SubSeq(text, Len(p) + 3, Len(text)) = q
<1> DEFINE c == <<Colon, Colon>>
           h == p \o c
           text == h \o q
           L == Len(p)
           R == Len(q)
<1>1. c \in Seq(Int) /\ Len(c) = 2 /\ c[1] = Colon /\ c[2] = Colon /\ L \in Nat /\ R \in Nat
  BY DEF Colon
<1> HIDE DEF c
<1>2. /\ h \in Seq(Int) /\ Len(h) = L + 2 /\ h[L + 1] = Colon /\ h[L + 2] = Colon
      /\ \A k \in 1 .. L : h[k] = p[k]
  <2>1. /\ h \in Seq(Int) /\ Len(h) = L + Len(c)
        /\ \A k \in 1 .. L : h[k] = p[k]
        /\ \A k \in 1 .. Len(c) : h[L + k] = c[k]
    BY <1>1, TextBehind, ZenonT(60)
  <2>2. 1 \in 1 .. Len(c) /\ 2 \in 1 .. Len(c)
    BY <1>1
  <2>3. h[L + 1] = Colon /\ h[L + 2] = Colon
    BY <1>1, <2>1, <2>2, Zenon
  <2> QED  BY <1>1, <2>1, <2>3, Zenon
<1> HIDE DEF h
<1>10. /\ text \in Seq(Int) /\ Len(text) = Len(h) + R
       /\ \A k \in 1 .. Len(h) : text[k] = h[k]
       /\ \A k \in 1 .. R : text[Len(h) + k] = q[k]
  BY <1>2, TextBehind, Zenon
<1>3. text \in Seq(Int) /\ Len(text) = L + 2 + R
  BY <1>2, <1>10, Zenon
<1>4. \A k \in 1 .. L + 2 : text[k] = h[k]
  BY <1>2, <1>10, Zenon
<1>5. \A k \in 1 .. R : text[L + 2 + k] = q[k]
  BY <1>2, <1>10, Zenon
<1> HIDE DEF text
<1>6. SubSeq(text, 1, L) = p
  BY <1>1, <1>2, <1>3, <1>4
<1>7. SubSeq(text, L + 3, Len(text)) = q
  <2> DEFINE u == SubSeq(text, L + 3, Len(text))
  <2>1. u \in Seq(Int) /\ Len(u) = R
    BY <1>1, <1>3
  <2>2. ASSUME NEW k \in 1 .. R PROVE u[k] = q[k]
    <3>1. u[k] = text[L + 3 + k - 1] /\ L + 3 + k - 1 = L + 2 + k
      BY <1>1, <1>3
    <3> QED  BY <1>5, <3>1, Zenon
  <2> HIDE DEF u
  <2>3. u = q
    BY <2>1, <2>2, SameText, Zenon
  <2> QED  BY <2>3, Zenon DEF u
<1>8. /\ \A k \in 1 .. L : text[k] = p[k]
      /\ text[L + 1] = Colon /\ text[L + 2] = Colon
  <2>1. L + 1 \in 1 .. L + 2 /\ L + 2 \in 1 .. L + 2 /\ \A k \in 1 .. L : k \in 1 .. L + 2
    BY <1>1
  <2> QED  BY <1>2, <1>4, <2>1, Zenon
<1> QED  BY <1>3, <1>5, <1>6, <1>7, <1>8, Zenon DEF text, h, c

(* An address is a sequence of eight numbers.                              *)
LEMMA AddressIs == ASSUME NEW a \in [1 .. 8 -> Nat] PROVE a \in Seq(Int) /\ Len(a) = 8
<1>1. a = [k \in 1 .. 8 |-> a[k]] /\ \A k \in 1 .. 8 : a[k] \in Int
  OBVIOUS
<1> DEFINE b == [k \in 1 .. 8 |-> a[k]]
<1>2. b \in Seq(Int) /\ Len(b) = 8
  BY <1>1
<1> QED  BY <1>1, <1>2, Zenon

(* An address is P, g zeros and Q.                                         *)
Between(a, P, g, Q) == a = P \o [i \in 1 .. g |-> 0] \o Q

(* The first n words of an address, zeros, and the words from x.           *)
LEMMA ZerosBetween ==
  ASSUME NEW a \in [1 .. 8 -> Nat], NEW n \in 0 .. 7, NEW x \in 2 .. 9, n + 2 <= x,
         Zeros(a, n, x), NEW P, Part(P, a, 0, n), NEW Q, Part(Q, a, x - 1, 9 - x)
  PROVE  Between(a, P, x - 1 - n, Q)
<1> DEFINE g == x - 1 - n
           Z == [i \in 1 .. g |-> 0]
           H == P \o Z
           A == H \o Q
<1>1. /\ P \in Seq(Int) /\ Len(P) = n /\ \A j \in 1 .. n : P[j] = a[0 + j]
      /\ Q \in Seq(Int) /\ Len(Q) = 9 - x /\ \A j \in 1 .. 9 - x : Q[j] = a[x - 1 + j]
  BY Zenon DEF Part
<1>2. Z \in Seq(Int) /\ Len(Z) = g /\ g \in Nat
  OBVIOUS
<1>3. \A i \in 1 .. g : Z[i] = 0
  BY Zenon
<1> HIDE DEF Z
<1>4. /\ H \in Seq(Int) /\ Len(H) = Len(P) + Len(Z)
      /\ \A k \in 1 .. Len(P) : H[k] = P[k]
      /\ \A k \in 1 .. Len(Z) : H[Len(P) + k] = Z[k]
  BY <1>1, <1>2, TextBehind, Zenon
<1> HIDE DEF H
<1>5. /\ A \in Seq(Int) /\ Len(A) = Len(H) + Len(Q)
      /\ \A k \in 1 .. Len(H) : A[k] = H[k]
      /\ \A k \in 1 .. Len(Q) : A[Len(H) + k] = Q[k]
  BY <1>1, <1>4, TextBehind, Zenon
<1> HIDE DEF A
<1>6. Len(H) = x - 1 /\ Len(A) = 8
  BY <1>1, <1>2, <1>4, <1>5
<1>7. ASSUME NEW k \in 1 .. 8 PROVE A[k] = a[k]
  <2>1. CASE k <= n
    <3>1. k \in 1 .. n /\ k \in 1 .. x - 1 /\ 0 + k = k
      BY <2>1
    <3>2. A[k] = H[k] /\ H[k] = P[k] /\ P[k] = a[0 + k]
      BY <1>1, <1>4, <1>5, <1>6, <3>1, Zenon
    <3> QED  BY <3>1, <3>2, Zenon
  <2>2. CASE k > n /\ k < x
    <3>1. k - n \in 1 .. g /\ n + (k - n) = k /\ k \in 1 .. x - 1 /\ k \in n + 1 .. x - 1
      BY <2>2
    <3>2. H[n + (k - n)] = Z[k - n] /\ Z[k - n] = 0 /\ A[k] = H[k] /\ a[k] = 0
      BY <1>1, <1>2, <1>3, <1>4, <1>5, <1>6, <3>1, Zenon DEF Zeros
    <3> QED  BY <3>1, <3>2, Zenon
  <2>3. CASE k >= x
    <3>1. k - x + 1 \in 1 .. 9 - x /\ (x - 1) + (k - x + 1) = k
      BY <2>3
    <3>2. A[(x - 1) + (k - x + 1)] = Q[k - x + 1] /\ Q[k - x + 1] = a[(x - 1) + (k - x + 1)]
      BY <1>1, <1>5, <1>6, <3>1, Zenon
    <3> QED  BY <3>1, <3>2, Zenon
  <2> QED  BY <2>1, <2>2, <2>3
<1>8. A = a
  BY <1>5, <1>6, <1>7, AddressIs, SameText, Zenon
<1> QED  BY <1>8, Zenon DEF A, H, Z, g, Between

(* A text with :: for the zeros between the first n words and those from x *)
(* on denotes the address and fits.                                        *)
LEMMA Gapped ==
  ASSUME NEW a \in [1 .. 8 -> Nat], NEW n \in 0 .. 7, NEW x \in 2 .. 9, n + 2 <= x,
         Zeros(a, n, x), NEW p, Lists(p, a, 0, n), NEW q, Lists(q, a, x - 1, 9 - x)
  PROVE  LET text == p \o <<Colon, Colon>> \o q
         IN  Denotes(text, a) /\ Separated(text)
<1> DEFINE text == p \o <<Colon, Colon>> \o q
           L == Len(p)
           R == Len(q)
           P == Numbers(p)
           Q == Numbers(q)
           gap == 8 - Len(P) - Len(Q)
<1>1. /\ p \in Seq(Int) /\ q \in Seq(Int)
      /\ L = (IF n = 0 THEN 0 ELSE 2 * n - 1)
      /\ R = (IF 9 - x = 0 THEN 0 ELSE 2 * (9 - x) - 1)
  BY Zenon DEF Lists
<1>10. L \in Nat /\ R \in Nat /\ L + R <= 13
  <2> HIDE DEF L, R
  <2>1. (n = 0 => L = 0) /\ (n # 0 => L = 2 * n - 1)
    BY <1>1, Zenon
  <2>2. L \in Nat /\ L <= 2 * n /\ (n # 0 => L = 2 * n - 1)
    BY <2>1
  <2>3. (9 - x = 0 => R = 0) /\ (9 - x # 0 => R = 2 * (9 - x) - 1)
    BY <1>1, Zenon
  <2>4. R \in Nat /\ R <= 2 * (9 - x) /\ (9 - x # 0 => R = 2 * (9 - x) - 1)
    BY <2>3
  <2> QED  BY <2>2, <2>4
<1>2. /\ Plain(p) /\ Part(P, a, 0, n)
      /\ \A k \in 1 .. L - 1 : p[k] = Colon \/ p[k + 1] = Colon
  <2>1. 0 \in 0 .. 8 /\ n \in 0 .. 8 /\ 0 + n <= 8
    OBVIOUS
  <2> QED  BY <2>1, PlainText, Zenon
<1>3. /\ Plain(q) /\ Part(Q, a, x - 1, 9 - x)
      /\ \A k \in 1 .. R - 1 : q[k] = Colon \/ q[k + 1] = Colon
  <2>1. x - 1 \in 0 .. 8 /\ 9 - x \in 0 .. 8 /\ (x - 1) + (9 - x) <= 8
    OBVIOUS
  <2> QED  BY <2>1, PlainText, Zenon
<1>4. /\ text \in Seq(Int) /\ Len(text) = L + 2 + R
      /\ \A k \in 1 .. L : text[k] = p[k]
      /\ text[L + 1] = Colon /\ text[L + 2] = Colon
      /\ \A k \in 1 .. R : text[L + 2 + k] = q[k]
      /\ SubSeq(text, 1, L) = p
      /\ SubSeq(text, L + 3, Len(text)) = q
  BY <1>1, DoubleColon, Zenon
<1> HIDE DEF text
<1>5. Separated(text)
  <2> HIDE DEF L, R
  <2>1. Len(text) <= 15
    <3>1. Len(text) = L + 2 + R
      BY <1>4, Zenon
    <3> QED  BY <1>10, <3>1
  <2>2. ASSUME NEW k \in 1 .. Len(text) - 1 PROVE text[k] = Colon \/ text[k + 1] = Colon
    <3>1. CASE k < L
      <4>1. k \in 1 .. L - 1 /\ k \in 1 .. L /\ k + 1 \in 1 .. L
        BY <1>10, <3>1
      <4> QED  BY <1>2, <1>4, <4>1, Zenon
    <3>2. CASE k \in {L, L + 1, L + 2}
      BY <1>4, <3>2, Zenon
    <3>3. CASE k > L + 2
      <4> DEFINE i == k - L - 2
      <4>1. i \in 1 .. R - 1 /\ i \in 1 .. R /\ i + 1 \in 1 .. R
            /\ k = L + 2 + i /\ k + 1 = L + 2 + (i + 1)
        BY <1>10, <1>4, <3>3
      <4> HIDE DEF i
      <4>2. text[k] = q[i] /\ text[k + 1] = q[i + 1]
        BY <1>4, <4>1, Zenon
      <4> QED  BY <1>3, <4>1, <4>2, Zenon
    <3> QED  BY <1>10, <1>4, <3>1, <3>2, <3>3
  <2> QED  BY <1>4, <2>1, <2>2, Zenon DEF Separated
<1>6. gap = x - 1 - n /\ gap >= 1
  <2>1. Len(P) = n /\ Len(Q) = 9 - x
    BY <1>2, <1>3, Zenon DEF Part
  <2> QED  BY <2>1
<1>7. a = P \o [i \in 1 .. gap |-> 0] \o Q
  <2> HIDE DEF P, Q
  <2>1. Part(P, a, 0, n) /\ Part(Q, a, x - 1, 9 - x)
    BY <1>2, <1>3, Zenon
  <2> HIDE DEF L, R, gap
  <2>2. Between(a, P, x - 1 - n, Q)
    BY <2>1, ZerosBetween, Zenon
  <2> QED  BY <1>6, <2>2, Zenon DEF Between
<1>8. L + 1 \in 1 .. Len(text) - 1 /\ (L + 1) - 1 = L /\ (L + 1) + 2 = L + 3
      /\ (L + 1) + 1 = L + 2
  <2> HIDE DEF L, R
  <2> QED  BY <1>10, <1>4
<1>9. Denotes(text, a)
  <2> DEFINE l == SubSeq(text, 1, (L + 1) - 1)
             r == SubSeq(text, (L + 1) + 2, Len(text))
  <2>1. l = p /\ r = q
    BY <1>4, <1>8, Zenon
  <2>2. text[L + 1] = Colon /\ text[(L + 1) + 1] = Colon
    BY <1>4, <1>8, Zenon
  <2> HIDE DEF L
  <2>3. /\ Plain(l) /\ Plain(r) /\ 8 - Len(Numbers(l)) - Len(Numbers(r)) >= 1
        /\ a = Numbers(l) \o [i \in 1 .. 8 - Len(Numbers(l)) - Len(Numbers(r)) |-> 0]
                 \o Numbers(r)
    BY <1>2, <1>3, <1>6, <1>7, <2>1, Zenon
  <2> QED  BY <1>8, <2>2, <2>3, Zenon DEF Denotes
<1> QED  BY <1>5, <1>9, Zenon DEF text

(* The loops over zeros stop at the first word from z on that is not zero, *)
(* and at the latest behind the address.                                   *)
LEMMA SkipZerosIs ==
  ASSUME NEW a \in [1 .. 8 -> Nat], NEW w, \A k \in 1 .. 8 : w[k] = a[k], NEW z \in 1 .. 8
  PROVE  LET x == SkipZeros(w, z)
         IN  x \in z .. 9 /\ Zeros(a, z - 1, x) /\ (x = 9 \/ a[x] # 0)
<1> DEFINE T == {k \in z .. 9 : k = 9 \/ w[k] # 0}
           Stop(k) == (k = 9 \/ w[k] # 0) /\ \A j \in z .. k - 1 : w[j] = 0
           x == SkipZeros(w, z)
<1>1. T \subseteq Nat /\ 9 \in T
  OBVIOUS
<1>2. PICK m \in T : \A y \in T : m <= y
  <2> HIDE DEF T
  <2> QED  BY <1>1, Smallest, Zenon
<1>3. m \in z .. 9 /\ Stop(m)
  <2>1. m \in z .. 9 /\ (m = 9 \/ w[m] # 0)
    BY <1>2, Zenon
  <2>2. ASSUME NEW j \in z .. m - 1 PROVE w[j] = 0
    <3>1. j \in z .. 9 /\ ~(m <= j)
      BY <2>1
    <3>2. j \notin T
      BY <1>2, <3>1, Zenon
    <3> QED  BY <3>1, <3>2, Zenon
  <2> QED  BY <2>1, <2>2, Zenon
<1>4. x = CHOOSE k \in z .. 9 : Stop(k)
  BY Zenon DEF SkipZeros, End
<1> HIDE DEF Stop, x
<1>5. x \in z .. 9 /\ Stop(x)
  BY <1>3, <1>4, Zenon
<1>6. ASSUME NEW j \in (z - 1) + 1 .. x - 1 PROVE a[j] = 0
  <2>1. j \in z .. x - 1 /\ j \in 1 .. 8
    BY <1>5
  <2> QED  BY <1>5, <2>1, Zenon DEF Stop
<1>7. x = 9 \/ a[x] # 0
  <2>1. x = 9 \/ x \in 1 .. 8
    BY <1>5
  <2> QED  BY <1>5, <2>1, Zenon DEF Stop
<1> QED  BY <1>5, <1>6, <1>7, Zenon DEF Zeros, x

(* The loop over the words from x on prints a colon and then these words.  *)
LEMMA RestIs ==
  ASSUME NEW a \in [1 .. 8 -> Nat], NEW w, \A k \in 1 .. 8 : w[k] = a[k], NEW x \in 1 .. 8
  PROVE  \E q : Lists(q, a, x - 1, 9 - x) /\ Rest(w, x) = <<Colon>> \o q
<1> DEFINE n == 9 - x
           E(k) == IF k % 2 = 1 THEN Colon ELSE w[x + k \div 2 - 1]
           r == [k \in 1 .. 2 * n |-> E(k)]
           q == [k \in 1 .. 2 * n - 1 |-> E(k + 1)]
<1>1. n \in 1 .. 8 /\ x = 9 - n /\ 2 * n - 1 \in Nat
  OBVIOUS
<1>2. ASSUME NEW k \in 1 .. 2 * n PROVE E(k) \in Int
  <2>1. CASE k % 2 = 1
    BY <2>1 DEF Colon
  <2>2. CASE k % 2 # 1
    <3>1. x + k \div 2 - 1 \in 1 .. 8
      BY <2>2
    <3> QED  BY <2>2, <3>1
  <2> QED  BY <2>1, <2>2, Zenon
<1>3. ASSUME NEW j \in 1 .. n PROVE 2 * j \in 1 .. 2 * n /\ E(2 * j) = a[x - 1 + j]
  <2>1. 2 * j \in 1 .. 2 * n /\ (2 * j) % 2 # 1 /\ x + (2 * j) \div 2 - 1 = x - 1 + j
        /\ x - 1 + j \in 1 .. 8
    OBVIOUS
  <2> QED  BY <2>1, Zenon
<1>4. ASSUME NEW j \in 0 .. n - 1 PROVE E(2 * j + 1) = Colon
  <2>1. (2 * j + 1) % 2 = 1
    OBVIOUS
  <2> QED  BY <2>1, Zenon
<1> HIDE DEF E, n
<1>5. r \in Seq(Int) /\ Len(r) = 2 * n /\ \A k \in 1 .. 2 * n : r[k] = E(k)
  BY <1>1, <1>2
<1>6. q \in Seq(Int) /\ Len(q) = 2 * n - 1 /\ \A k \in 1 .. 2 * n - 1 : q[k] = E(k + 1)
  <2>1. ASSUME NEW k \in 1 .. 2 * n - 1 PROVE E(k + 1) \in Int
    <3>1. k + 1 \in 1 .. 2 * n
      BY <1>1
    <3> QED  BY <1>2, <3>1, Zenon
  <2> QED  BY <1>1, <2>1
<1> HIDE DEF r, q
<1>7. Lists(q, a, x - 1, n)
  <2>1. ASSUME NEW j \in 1 .. n PROVE q[2 * j - 1] = a[x - 1 + j]
    <3>1. 2 * j - 1 \in 1 .. 2 * n - 1 /\ (2 * j - 1) + 1 = 2 * j
      BY <1>1
    <3>2. q[2 * j - 1] = E(2 * j)
      BY <1>6, <3>1, Zenon
    <3> QED  BY <1>3, <3>2, Zenon
  <2>2. ASSUME NEW j \in 1 .. n - 1 PROVE q[2 * j] = Colon
    <3>1. 2 * j \in 1 .. 2 * n - 1 /\ j \in 0 .. n - 1
      BY <1>1
    <3>2. q[2 * j] = E(2 * j + 1)
      BY <1>6, <3>1, Zenon
    <3> QED  BY <1>4, <3>1, <3>2, Zenon
  <2>3. n # 0
    BY <1>1
  <2> QED  BY <1>6, <2>1, <2>2, <2>3, Zenon DEF Lists
<1>8. r = <<Colon>> \o q
  <2> DEFINE c == <<Colon>>
             t == c \o q
  <2>1. c \in Seq(Int) /\ Len(c) = 1 /\ c[1] = Colon
    BY DEF Colon
  <2> HIDE DEF c
  <2>2. /\ t \in Seq(Int) /\ Len(t) = Len(c) + Len(q)
        /\ \A k \in 1 .. Len(c) : t[k] = c[k]
        /\ \A k \in 1 .. Len(q) : t[Len(c) + k] = q[k]
    BY <1>6, <2>1, TextBehind, Zenon
  <2> HIDE DEF t
  <2>3. Len(t) = Len(r) /\ Len(r) = 2 * n
    BY <1>1, <1>5, <1>6, <2>1, <2>2
  <2>4. ASSUME NEW k \in 1 .. Len(r) PROVE r[k] = t[k]
    <3>1. CASE k = 1
      <4>1. 0 \in 0 .. n - 1 /\ 2 * 0 + 1 = 1 /\ 1 \in 1 .. 2 * n /\ 1 \in 1 .. Len(c)
        BY <1>1, <2>1
      <4>2. E(2 * 0 + 1) = Colon
        BY <1>4, <4>1, Zenon
      <4> QED  BY <1>5, <2>1, <2>2, <3>1, <4>1, <4>2, Zenon
    <3>2. CASE k # 1
      <4>1. k - 1 \in 1 .. 2 * n - 1 /\ 1 + (k - 1) = k /\ (k - 1) + 1 = k /\ k \in 1 .. 2 * n
        BY <1>1, <2>3, <3>2
      <4>2. t[1 + (k - 1)] = q[k - 1] /\ q[k - 1] = E((k - 1) + 1) /\ r[k] = E(k)
        BY <1>5, <1>6, <2>1, <2>2, <4>1, Zenon
      <4> QED  BY <4>1, <4>2, Zenon
    <3> QED  BY <3>1, <3>2, Zenon
  <2>5. r = t
    BY <1>5, <2>2, <2>3, <2>4, SameText, Zenon
  <2> QED  BY <2>5, Zenon DEF t, c
<1>9. Rest(w, x) = r
  BY Zenon DEF Rest, End, r, E, n
<1> QED  BY <1>7, <1>8, <1>9, Zenon DEF n

(* The loop that meets no zero prints the words and a colon behind each.   *)
LEMMA FirstIs ==
  ASSUME NEW a \in [1 .. 8 -> Nat], NEW w, \A k \in 1 .. 8 : w[k] = a[k], NEW n \in 1 .. 7
  PROVE  /\ First(w, n) \in Seq(Int) /\ Len(First(w, n)) = 2 * n
         /\ \A j \in 1 .. n : First(w, n)[2 * j - 1] = a[j]
         /\ \A j \in 1 .. n : First(w, n)[2 * j] = Colon
<1> DEFINE E(k) == IF k % 2 = 1 THEN w[(k + 1) \div 2] ELSE Colon
           r == [k \in 1 .. 2 * n |-> E(k)]
<1>1. ASSUME NEW k \in 1 .. 2 * n PROVE E(k) \in Int
  <2>1. CASE k % 2 = 1
    <3>1. (k + 1) \div 2 \in 1 .. 8
      BY <2>1
    <3> QED  BY <2>1, <3>1
  <2>2. CASE k % 2 # 1
    BY <2>2 DEF Colon
  <2> QED  BY <2>1, <2>2, Zenon
<1>2. ASSUME NEW j \in 1 .. n PROVE E(2 * j - 1) = a[j] /\ E(2 * j) = Colon
  <2>1. (2 * j) % 2 # 1 /\ (2 * j - 1) % 2 = 1 /\ ((2 * j - 1) + 1) \div 2 = j /\ j \in 1 .. 8
    OBVIOUS
  <2> QED  BY <2>1, Zenon
<1> HIDE DEF E
<1>3. r \in Seq(Int) /\ Len(r) = 2 * n /\ \A k \in 1 .. 2 * n : r[k] = E(k)
  BY <1>1
<1> HIDE DEF r
<1>4. ASSUME NEW j \in 1 .. n PROVE r[2 * j - 1] = a[j] /\ r[2 * j] = Colon
  <2>1. 2 * j - 1 \in 1 .. 2 * n /\ 2 * j \in 1 .. 2 * n
    OBVIOUS
  <2> QED  BY <1>2, <1>3, <2>1, Zenon
<1>5. First(w, n) = r
  BY Zenon DEF First, r, E
<1> QED  BY <1>3, <1>4, <1>5, Zenon

(* The words in front of the first zero, and the colon behind them.        *)
LEMMA FirstLists ==
  ASSUME NEW a \in [1 .. 8 -> Nat], NEW w, \A k \in 1 .. 8 : w[k] = a[k], NEW n \in 1 .. 7
  PROVE  \E p : Lists(p, a, 0, n) /\ First(w, n) = p \o <<Colon>>
<1> DEFINE r == First(w, n)
           p == [k \in 1 .. 2 * n - 1 |-> r[k]]
           c == <<Colon>>
           t == p \o c
<1>1. /\ r \in Seq(Int) /\ Len(r) = 2 * n
      /\ \A j \in 1 .. n : r[2 * j - 1] = a[j]
      /\ \A j \in 1 .. n : r[2 * j] = Colon
  BY FirstIs, ZenonT(60)
<1> HIDE DEF r
<1>2. ASSUME NEW k \in 1 .. 2 * n - 1 PROVE r[k] \in Int
  BY <1>1
<1>3. p \in Seq(Int) /\ Len(p) = 2 * n - 1 /\ \A k \in 1 .. 2 * n - 1 : p[k] = r[k]
  BY <1>2
<1> HIDE DEF p
<1>4. Lists(p, a, 0, n)
  <2>1. ASSUME NEW j \in 1 .. n PROVE p[2 * j - 1] = a[0 + j]
    <3>1. 2 * j - 1 \in 1 .. 2 * n - 1 /\ 0 + j = j
      OBVIOUS
    <3> QED  BY <1>1, <1>3, <3>1, Zenon
  <2>2. ASSUME NEW j \in 1 .. n - 1 PROVE p[2 * j] = Colon
    <3>1. 2 * j \in 1 .. 2 * n - 1 /\ j \in 1 .. n
      OBVIOUS
    <3> QED  BY <1>1, <1>3, <3>1, Zenon
  <2>3. n # 0
    OBVIOUS
  <2> QED  BY <1>3, <2>1, <2>2, <2>3, Zenon DEF Lists
<1>5. c \in Seq(Int) /\ Len(c) = 1 /\ c[1] = Colon
  BY DEF Colon
<1> HIDE DEF c
<1>6. /\ t \in Seq(Int) /\ Len(t) = Len(p) + Len(c)
      /\ \A k \in 1 .. Len(p) : t[k] = p[k]
      /\ \A k \in 1 .. Len(c) : t[Len(p) + k] = c[k]
  BY <1>3, <1>5, TextBehind, Zenon
<1> HIDE DEF t
<1>7. Len(t) = 2 * n
  <2>1. Len(t) = (2 * n - 1) + 1
    BY <1>3, <1>5, <1>6, Zenon
  <2> QED  BY <2>1
<1>8. ASSUME NEW k \in 1 .. 2 * n PROVE r[k] = t[k]
  <2>1. CASE k = 2 * n
    <3>1. k = (2 * n - 1) + 1 /\ 1 \in 1 .. 1 /\ n \in 1 .. n
      BY <2>1
    <3>2. t[(2 * n - 1) + 1] = Colon /\ r[2 * n] = Colon
      BY <1>1, <1>3, <1>5, <1>6, <3>1, Zenon
    <3> QED  BY <2>1, <3>1, <3>2, Zenon
  <2>2. CASE k # 2 * n
    <3>1. k \in 1 .. 2 * n - 1
      BY <2>2
    <3> QED  BY <1>3, <1>6, <3>1, Zenon
  <2> QED  BY <2>1, <2>2, Zenon
<1>9. r = t
  BY <1>1, <1>6, <1>7, <1>8, SameText, Zenon
<1> QED  BY <1>4, <1>9, Zenon DEF r, t, c

(* An address without zeros is printed with all its words.                 *)
LEMMA WithoutZerosLists ==
  ASSUME NEW a \in [1 .. 8 -> Nat], NEW w, \A k \in 1 .. 8 : w[k] = a[k]
  PROVE  Lists(WithoutZeros(w), a, 0, 8)
<1> DEFINE r == First(w, 7)
           c == <<w[8]>>
           t == r \o c
<1>1. /\ r \in Seq(Int) /\ Len(r) = 2 * 7
      /\ \A j \in 1 .. 7 : r[2 * j - 1] = a[j]
      /\ \A j \in 1 .. 7 : r[2 * j] = Colon
  <2>1. ASSUME NEW n \in 1 .. 7
        PROVE  /\ First(w, n) \in Seq(Int) /\ Len(First(w, n)) = 2 * n
               /\ \A j \in 1 .. n : First(w, n)[2 * j - 1] = a[j]
               /\ \A j \in 1 .. n : First(w, n)[2 * j] = Colon
    BY FirstIs, ZenonT(60)
  <2>2. 7 \in 1 .. 7
    OBVIOUS
  <2> QED  BY <2>1, <2>2, Zenon
<1> HIDE DEF r
<1>2. c \in Seq(Int) /\ Len(c) = 1 /\ c[1] = a[8]
  OBVIOUS
<1> HIDE DEF c
<1>3. /\ t \in Seq(Int) /\ Len(t) = Len(r) + Len(c)
      /\ \A k \in 1 .. Len(r) : t[k] = r[k]
      /\ \A k \in 1 .. Len(c) : t[Len(r) + k] = c[k]
  BY <1>1, <1>2, TextBehind, Zenon
<1> HIDE DEF t
<1>4. Len(t) = 2 * 8 - 1 /\ t[15] = a[8]
  BY <1>1, <1>2, <1>3
<1>5. ASSUME NEW j \in 1 .. 8 PROVE t[2 * j - 1] = a[0 + j]
  <2>1. CASE j = 8
    BY <1>4, <2>1
  <2>2. CASE j # 8
    <3>1. j \in 1 .. 7 /\ 2 * j - 1 \in 1 .. 2 * 7 /\ 0 + j = j
      BY <2>2
    <3> QED  BY <1>1, <1>3, <3>1, Zenon
  <2> QED  BY <2>1, <2>2, Zenon
<1>6. ASSUME NEW j \in 1 .. 8 - 1 PROVE t[2 * j] = Colon
  <2>1. j \in 1 .. 7 /\ 2 * j \in 1 .. 2 * 7
    OBVIOUS
  <2> QED  BY <1>1, <1>3, <2>1, Zenon
<1>7. Lists(t, a, 0, 8)
  <2>1. 8 # 0
    OBVIOUS
  <2> QED  BY <1>3, <1>4, <1>5, <1>6, <2>1, Zenon DEF Lists
<1>8. WithoutZeros(w) = t
  BY DEF WithoutZeros, End, t, r, c
<1> QED  BY <1>7, <1>8, Zenon

(* Colons from two sides make a double colon.                              *)
LEMMA TwoColons ==
  ASSUME NEW p \in Seq(Int), NEW q \in Seq(Int)
  PROVE  (p \o <<Colon>>) \o (<<Colon>> \o q) = p \o <<Colon, Colon>> \o q
BY SMTT(60)
(* So they do at the start of a text, at its end, and alone.               *)
LEMMA ColonsAlone ==
  ASSUME NEW q \in Seq(Int)
  PROVE  /\ <<Colon>> \o (<<Colon>> \o q) = <<>> \o <<Colon, Colon>> \o q
         /\ (q \o <<Colon>>) \o <<Colon>> = q \o <<Colon, Colon>> \o <<>>
         /\ <<Colon, Colon>> = <<>> \o <<Colon, Colon>> \o <<>>
OBVIOUS

(* Nothing at all.                                                         *)
LEMMA NoneListed ==
  ASSUME NEW a \in [1 .. 8 -> Nat], NEW d \in Int PROVE Lists(<<>>, a, d, 0)
BY DEF Lists

(* The text of ip6toa denotes the address, whatever word is behind it, and *)
(* has room in a buffer of IP6TOAMAX bytes.                                *)
LEMMA Ip6toaText ==
  ASSUME NEW a \in [1 .. 8 -> Nat], NEW w, \A k \in 1 .. 8 : w[k] = a[k]
  PROVE  Denotes(ip6toa(w), a) /\ Separated(ip6toa(w))
<1> DEFINE x == SkipZeros(w, 1)
           zeros == {k \in 2 .. 8 : w[k] = 0}
           z == CHOOSE k \in zeros : \A j \in zeros : k <= j
           text == ip6toa(w)
<1>1. x \in 1 .. 9 /\ Zeros(a, 0, x) /\ (x = 9 \/ a[x] # 0)
  <2>1. 1 \in 1 .. 8 /\ 1 - 1 = 0
    OBVIOUS
  <2>2. x \in 1 .. 9 /\ Zeros(a, 1 - 1, x) /\ (x = 9 \/ a[x] # 0)
    BY <2>1, SkipZerosIs
  <2> QED  BY <2>1, <2>2, Zenon
<1>2. text = CASE x = 9 -> <<Colon, Colon>>
               [] x \in 2 .. 8 -> <<Colon>> \o Rest(w, x)
               [] x = 1 /\ zeros = {} -> WithoutZeros(w)
               [] OTHER -> First(w, z - 1) \o MiddleZeros(w, z)
  BY DEF ip6toa, End
<1> HIDE DEF x, zeros, z, text
<1>3. CASE x = 9
  <2>1. text = <<Colon, Colon>>
    BY <1>2, <1>3
  <2>2. Lists(<<>>, a, 0, 0) /\ Lists(<<>>, a, 9 - 1, 9 - 9) /\ 0 \in 0 .. 7 /\ 9 \in 2 .. 9
        /\ 0 + 2 <= 9
    BY NoneListed
  <2>3. Zeros(a, 0, 9)
    BY <1>1, <1>3, Zenon
  <2>4. text = <<>> \o <<Colon, Colon>> \o <<>>
    BY <2>1, ColonsAlone
  <2>5. Denotes(text, a) /\ Separated(text)
    <3> DEFINE t == <<>> \o <<Colon, Colon>> \o <<>>
    <3>1. Denotes(t, a) /\ Separated(t)
      BY <2>2, <2>3, Gapped, Zenon
    <3> QED  BY <2>4, <3>1, Zenon
  <2> QED  BY <2>5, Zenon DEF text
<1>4. CASE x \in 2 .. 8
  <2>1. text = <<Colon>> \o Rest(w, x)
    <3>1. x # 9 /\ x # 1
      BY <1>4
    <3> DEFINE r == <<Colon>> \o Rest(w, x)
    <3> HIDE DEF r
    <3>2. text = CASE x = 9 -> <<Colon, Colon>>
                   [] x \in 2 .. 8 -> r
                   [] x = 1 /\ zeros = {} -> WithoutZeros(w)
                   [] OTHER -> First(w, z - 1) \o MiddleZeros(w, z)
      BY <1>2, Zenon DEF r
    <3>3. text = r
      BY <1>4, <3>1, <3>2, Zenon
    <3> QED  BY <3>3, Zenon DEF r
  <2>2. x \in 1 .. 8 /\ x \in 2 .. 9 /\ 0 \in 0 .. 7 /\ 0 + 2 <= x
    BY <1>4
  <2>3. PICK q : Lists(q, a, x - 1, 9 - x) /\ Rest(w, x) = <<Colon>> \o q
    BY <2>2, RestIs, Zenon
  <2>4. q \in Seq(Int)
    BY <2>3, Zenon DEF Lists
  <2>5. text = <<>> \o <<Colon, Colon>> \o q
    BY <2>1, <2>3, <2>4, ColonsAlone, Zenon
  <2>6. Lists(<<>>, a, 0, 0)
    BY NoneListed
  <2> QED  BY <1>1, <2>2, <2>3, <2>5, <2>6, Gapped, Zenon DEF text
<1>5. CASE x = 1 /\ zeros = {}
  <2>1. text = WithoutZeros(w)
    BY <1>2, <1>5
  <2>2. Lists(text, a, 0, 8)
    BY <2>1, WithoutZerosLists, Zenon
  <2>3. /\ Plain(text) /\ Part(Numbers(text), a, 0, 8)
        /\ \A k \in 1 .. Len(text) - 1 : text[k] = Colon \/ text[k + 1] = Colon
    <3>1. 0 \in 0 .. 8 /\ 8 \in 0 .. 8 /\ 0 + 8 <= 8
      OBVIOUS
    <3> QED  BY <2>2, <3>1, PlainText
  <2>4. text \in Seq(Int) /\ Len(text) <= 15
    BY <2>2 DEF Lists
  <2>5. Numbers(text) = a
    <3> DEFINE N == Numbers(text)
    <3>1. N \in Seq(Int) /\ Len(N) = 8 /\ \A j \in 1 .. 8 : N[j] = a[0 + j]
      BY <2>3, Zenon DEF Part
    <3> HIDE DEF N
    <3>2. ASSUME NEW j \in 1 .. 8 PROVE N[j] = a[j]
      <4>1. 0 + j = j
        OBVIOUS
      <4> QED  BY <3>1, <4>1, Zenon
    <3>3. N = a
      BY <3>1, <3>2, AddressIs, SameText, Zenon
    <3> QED  BY <3>3, Zenon DEF N
  <2> QED  BY <2>3, <2>4, <2>5, Zenon DEF Denotes, Separated, text
<1>6. CASE x = 1 /\ zeros # {}
  <2>1. text = First(w, z - 1) \o MiddleZeros(w, z)
    <3>1. x # 9 /\ x \notin 2 .. 8
      BY <1>6
    <3> QED  BY <1>2, <1>6, <3>1, Zenon
  <2>2. z \in zeros /\ \A j \in zeros : z <= j
    <3>1. zeros \subseteq Nat
      BY DEF zeros
    <3>2. \E k \in zeros : \A j \in zeros : k <= j
      BY <1>6, <3>1, Smallest, Zenon
    <3> QED  BY <3>2, Zenon DEF z
  <2>3. z \in 2 .. 8 /\ a[z] = 0
    BY <2>2 DEF zeros
  <2> DEFINE n == z - 1
             y == SkipZeros(w, z)
  <2>4. n \in 1 .. 7 /\ n \in 0 .. 7 /\ z \in 1 .. 8
    BY <2>3
  <2>5. y \in z .. 9 /\ Zeros(a, n, y) /\ (y = 9 \/ a[y] # 0)
    BY <2>4, SkipZerosIs, Zenon
  <2>6. MiddleZeros(w, z) = IF y = 9 THEN <<Colon>> ELSE Rest(w, y)
    BY Zenon DEF MiddleZeros, End
  <2> HIDE DEF y
  <2>7. y \in 2 .. 9 /\ n + 2 <= y
    BY <2>3, <2>5
  <2>8. PICK p : Lists(p, a, 0, n) /\ First(w, n) = p \o <<Colon>>
    BY <2>4, FirstLists, Zenon
  <2>9. p \in Seq(Int)
    BY <2>8, Zenon DEF Lists
  <2>10. \E q : Lists(q, a, y - 1, 9 - y) /\ text = p \o <<Colon, Colon>> \o q
    <3>1. CASE y = 9
      <4>1. Lists(<<>>, a, 9 - 1, 9 - 9)
        BY NoneListed
      <4>2. text = p \o <<Colon, Colon>> \o <<>>
        BY <2>1, <2>6, <2>8, <2>9, <3>1, ColonsAlone, Zenon
      <4> QED  BY <3>1, <4>1, <4>2, Zenon
    <3>2. CASE y # 9
      <4>1. y \in 1 .. 8
        BY <2>7, <3>2
      <4>2. PICK q : Lists(q, a, y - 1, 9 - y) /\ Rest(w, y) = <<Colon>> \o q
        BY <4>1, RestIs, Zenon
      <4>3. q \in Seq(Int)
        BY <4>2 DEF Lists
      <4>4. text = p \o <<Colon, Colon>> \o q
        BY <2>1, <2>6, <2>8, <2>9, <3>2, <4>2, <4>3, TwoColons, Zenon
      <4> QED  BY <4>2, <4>4, Zenon
    <3> QED  BY <3>1, <3>2, Zenon
  <2>11. PICK q : Lists(q, a, y - 1, 9 - y) /\ text = p \o <<Colon, Colon>> \o q
    BY <2>10, Zenon
  <2> HIDE DEF n
  <2> QED  BY <2>4, <2>5, <2>7, <2>8, <2>11, Gapped, Zenon DEF text
<1> QED  BY <1>1, <1>3, <1>4, <1>5, <1>6

(* ip6toa is correct for every address and every word behind it: what      *)
(* ip6_init prints denotes its address and fits the buffer.                *)
THEOREM Ip6toaCorrectHolds == Spec => []Ip6toaCorrect
<1>1. ASSUME NEW a \in Addresses, NEW b \in Behind
      PROVE  /\ Denotes(ip6toa(a \o <<b>>), a)
             /\ Length(ip6toa(a \o <<b>>)) < IP6TOAMAX
  <2> DEFINE c == <<b>>
             w == a \o c
  <2>1. a \in [1 .. 8 -> Nat] /\ c \in Seq(Int)
    <3>1. Words \subseteq Nat /\ b \in Int
      BY WordsAssumption
    <3>2. a \in [1 .. 8 -> Nat]
      BY <3>1, Zenon DEF Addresses
    <3>3. c \in Seq(Int)
      BY <3>1
    <3> QED  BY <3>2, <3>3, Zenon
  <2> HIDE DEF c
  <2>2. \A k \in 1 .. 8 : w[k] = a[k]
    <3>1. a \in Seq(Int) /\ Len(a) = 8
      BY <2>1, AddressIs, Zenon
    <3>2. \A k \in 1 .. Len(a) : w[k] = a[k]
      BY <2>1, <3>1, TextBehind, Zenon
    <3> QED  BY <3>1, <3>2, Zenon
  <2> HIDE DEF w
  <2>3. Denotes(ip6toa(w), a) /\ Separated(ip6toa(w))
    BY <2>1, <2>2, Ip6toaText, Zenon
  <2>4. Length(ip6toa(w)) < IP6TOAMAX
    BY <2>3, LengthBound, Zenon
  <2> QED  BY <2>3, <2>4, Zenon DEF w, c
<1>2. Ip6toaCorrect
  BY <1>1, Zenon DEF Ip6toaCorrect
<1> QED  BY <1>2, PTL
=============================================================================
