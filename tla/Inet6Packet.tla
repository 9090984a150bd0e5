---------------------------- MODULE Inet6Packet -----------------------------
(***************************************************************************)
(* The bytes of inet6.c: how udp6_send and icmp6_send lay out and sum a    *)
(* packet, and how eth_recv, _udp6_recv and icmp6_recv test and cut one.   *)
(* A host sends a request, the network pads the frame and may damage it,   *)
(* the device handles it and may answer.  (Which address an answer goes    *)
(* to, and the pool of buffers, are in NetIfc.)                            *)
(*                                                                         *)
(* A byte has Base values, a word two bytes: the arithmetic is that of the *)
(* code for any Base, TLC uses a small one.  Addresses are one word.       *)
(***************************************************************************)
EXTENDS Ip6toa

CONSTANTS
  Base,        \* 256 in the code
  MaxPayload,  \* UDP6_MAX_PAYLOAD
  Data,        \* payloads of requests
  Replies,     \* payloads udp6_recv may want to answer with
  Pads,        \* bytes behind the packet in an Ethernet frame
  Stale,       \* what may be in the receive buffer behind a frame
  HostAddr     \* source addresses

Byte == 0 .. Base - 1
Mask == Base * Base - 1

ASSUME PacketAssumption ==
  /\ Base \in Nat /\ Base >= 4
  /\ MaxPayload \in Nat /\ MaxPayload + 8 < Base * Base
  /\ Data \cup Replies \cup Pads \cup Stale \subseteq Seq(Byte)
  /\ \A d \in Data : Len(d) <= MaxPayload
  /\ \A s \in Stale : Len(s) >= 4
  /\ HostAddr \subseteq Byte \X Byte

HDR_UDP   == 1
HDR_ICMP6 == 2

ICMP6_NDP_N_ADVERTISE == 0
ICMP6_NDP_N_SOLICIT   == 1
ICMP6_ECHO_REQUEST    == 2
ICMP6_ECHO_REPLY      == 3

UDP_HDR_LEN  == 8
ICMP_HDR_LEN == 4

ll_ip6_addr  == <<1, 2>>
snm_ip6_addr == <<3, 2>>
ll_mac_addr  == <<2>>

htons(n) == <<n \div Base, n % Base>>
ntohs(w) == w[1] * Base + w[2]

(* A word in memory as this little-endian machine loads and stores it.     *)
Load(w)  == w[1] + Base * w[2]
Store(n) == <<n % Base, n \div Base>>

-----------------------------------------------------------------------------
(* checksum: the 32-bit sum of the words, an odd last byte counting as the *)
(* low one (no frame is long enough to overflow), folded to 16 bits.       *)
ByteInWord(bytes, k) == IF k % 2 = 1 THEN bytes[k] ELSE Base * bytes[k]

Sums(bytes) ==
  LET sum[k \in 0 .. Len(bytes)] ==
        IF k = 0 THEN 0 ELSE sum[k - 1] + ByteInWord(bytes, k)
  IN  sum

SumWords(bytes) == Sums(bytes)[Len(bytes)]

FoldSum[sum \in Nat] ==
  IF sum > Mask THEN FoldSum[(sum % (Mask + 1)) + (sum \div (Mask + 1))] ELSE sum

(* Mutant: the sum is folded once.                                         *)
checksum_foldOnce(bytes, sum) ==
  LET s == sum + SumWords(bytes) IN (s % (Mask + 1)) + (s \div (Mask + 1))

checksum(bytes, sum) == FoldSum[sum + SumWords(bytes)]

(* The sum over the pseudo-header and n bytes of payload.                  *)
PacketSum(p, type, n) ==
  checksum(p.src \o p.dst \o SubSeq(p.body, 1, n),
           checksum(p.length, Load(htons(type))))

(* Mutant: a sum of 0xffff is complemented as well.                        *)
ip6_checksum_plain(p, type, n) == Mask - PacketSum(p, type, n)

(* "0 is illegal, so 0xffff remains 0xffff"                                *)
ip6_checksum(p, type, n) ==
  LET sum == PacketSum(p, type, n) IN IF sum # Mask THEN Mask - sum ELSE sum

(* The field at bytes at, at + 1 of the payload.                           *)
Field(body, at) == <<body[at], body[at + 1]>>

WithField(body, at, w) == [body EXCEPT ![at] = w[1], ![at + 1] = w[2]]

SumAt(type) == IF type = HDR_UDP THEN 7 ELSE 3

(* ip6_setup, and the payload with its checksum still zero.                *)
ip6_setup(src, dst, type, body) ==
  [next |-> type, length |-> htons(Len(body)), src |-> src, dst |-> dst,
   body |-> body]

Summed(p, sum) == [p EXCEPT !.body = WithField(@, SumAt(p.next), Store(sum))]

UdpBody(data) == <<0, 2, 0, 1>> \o htons(Len(data) + UDP_HDR_LEN) \o <<0, 0>> \o data

Send(dst, type, body) ==
  LET p == ip6_setup(ll_ip6_addr, dst, type, body)
  IN  Summed(p, ip6_checksum(p, type, Len(body)))

(* The packets udp6_send and icmp6_send give to eth_send: one, or none.    *)
udp6_send(data, dst) ==
  IF Len(data) > MaxPayload THEN {} ELSE {Send(dst, HDR_UDP, UdpBody(data))}

icmp6_send(body, dst) ==
  IF Len(body) > MaxPayload + UDP_HDR_LEN THEN {} ELSE {Send(dst, HDR_ICMP6, body)}

-----------------------------------------------------------------------------
(* Hosts sum what they send as the standards say: only UDP replaces a      *)
(* checksum of zero.                                                       *)
HostSum(p) ==
  LET sum == PacketSum(p, p.next, Len(p.body))
  IN  IF p.next = HDR_UDP /\ sum = Mask THEN Mask ELSE Mask - sum

IcmpBody(type, data) == <<type, 0, 0, 0>> \o data

RequestBody(kind, data) ==
  CASE kind = "udp"     -> UdpBody(data)
    [] kind = "ping"    -> IcmpBody(ICMP6_ECHO_REQUEST, data)
    [] kind = "solicit" -> IcmpBody(ICMP6_NDP_N_SOLICIT, data)

VARIABLES
  pc,       \* "host", "wire", "device", "done"
  kind, data,  \* the request
  sent,     \* as the host sent it
  frame,    \* as it arrives
  damage,   \* what the network changed: a field, "cut" or "none"
  up,       \* what udp6_recv was called with: one payload, or none
  answer    \* the packet sent in reply: one, or none

vars == <<pc, kind, data, sent, frame, damage, up, answer>>

Kind == {"udp", "ping", "solicit"}

Packet == [next : Byte, length : Byte \X Byte, src : Byte \X Byte,
           dst : Byte \X Byte, body : Seq(Byte)]

NoPacket == ip6_setup(<<0, 0>>, <<0, 0>>, 0, <<>>)

(* What is on the wire is a packet of bytes: every sum and length that     *)
(* checksum, ip6_setup and icmp6_send store fits its field.                *)
TypeOK ==
  /\ pc \in {"host", "wire", "device", "done"}
  /\ kind \in Kind /\ data \in Seq(Byte)
  /\ sent \in Packet /\ frame \in Packet
  /\ damage \in {"next", "length", "src", "dst", "body", "cut", "none"}
  /\ up \subseteq Seq(Byte)
  /\ answer \subseteq Packet

Init ==
  /\ pc = "host"
  /\ kind = "udp" /\ data = <<>>
  /\ sent = NoPacket /\ frame = NoPacket
  /\ damage = "none"
  /\ up = {} /\ answer = {}

HostSends ==
  /\ pc = "host" /\ pc' = "wire"
  /\ kind' \in Kind
  /\ data' \in IF kind' = "solicit" THEN {ll_ip6_addr, <<>>, <<2, 2>>} ELSE Data
  /\ \E src \in HostAddr, dst \in {ll_ip6_addr, snm_ip6_addr} :
       LET p == ip6_setup(src, dst, IF kind' = "udp" THEN HDR_UDP ELSE HDR_ICMP6,
                          RequestBody(kind', data'))
       IN  sent' = Summed(p, HostSum(p))
  /\ UNCHANGED <<frame, damage, up, answer>>

(* The frame arrives, with padding, and with one byte changed, or cut.     *)
WireDelivers ==
  /\ pc = "wire" /\ pc' = "device"
  /\ \/ damage' = "none" /\ \E pad \in Pads : frame' = [sent EXCEPT !.body = @ \o pad]
     \/ /\ damage' = "next"
        /\ \E b \in Byte \ {sent.next} : frame' = [sent EXCEPT !.next = b]
     \/ /\ damage' \in {"length", "src", "dst"}
        /\ \E pad \in Pads, k \in 1 .. 2, b \in Byte :
             /\ b # sent[damage'][k]
             /\ frame' = [sent EXCEPT ![damage'][k] = b, !.body = @ \o pad]
     \/ /\ damage' = "body"
        /\ \E k \in DOMAIN sent.body, b \in Byte :
             b # sent.body[k] /\ frame' = [sent EXCEPT !.body[k] = b]
     \/ /\ damage' = "cut"
        /\ \E k \in 0 .. Len(sent.body) - 1 :
             frame' = [sent EXCEPT !.body = SubSeq(@, 1, k)]
  /\ UNCHANGED <<kind, data, sent, up, answer>>

-----------------------------------------------------------------------------
(* The tests common to _udp6_recv and icmp6_recv: zero is refused, 0xFFFF  *)
(* means zero, and the sum must come out.                                  *)
SumAccepted(p, type, n) ==
  LET sum == Load(Field(p.body, SumAt(type)))
      q   == IF sum = Mask THEN Summed([p EXCEPT !.next = type], 0) ELSE p
  IN  /\ sum # 0
      /\ PacketSum(q, type, n) = Mask

(* Mutant: the payload is as long as the IPv6 header says.                 *)
_udp6_recv_ipLength(p, n) ==
  LET len == ntohs(Field(p.body, 5)) IN
  IF n >= UDP_HDR_LEN /\ SumAccepted(p, HDR_UDP, n) /\ len \in UDP_HDR_LEN .. n
  THEN {SubSeq(p.body, UDP_HDR_LEN + 1, n)}
  ELSE {}

(* The payloads _udp6_recv passes to udp6_recv: one, or none.              *)
_udp6_recv(p, n) ==
  LET len == ntohs(Field(p.body, 5)) IN
  IF n >= UDP_HDR_LEN /\ SumAccepted(p, HDR_UDP, n) /\ len \in UDP_HDR_LEN .. n
  THEN {SubSeq(p.body, UDP_HDR_LEN + 1, len)}
  ELSE {}

Advertisement == IcmpBody(ICMP6_NDP_N_ADVERTISE, ll_ip6_addr \o ll_mac_addr)

EchoReply(p, n) ==
  SubSeq(WithField([p.body EXCEPT ![1] = ICMP6_ECHO_REPLY], 3, <<0, 0>>), 1, n)

(* The payloads icmp6_recv passes to icmp6_send: one, or none.             *)
icmp6_recv(p, n) ==
  IF ~SumAccepted(p, HDR_ICMP6, n) THEN {} ELSE
  CASE p.body[1] = ICMP6_NDP_N_SOLICIT ->
         IF /\ n >= ICMP_HDR_LEN + Len(ll_ip6_addr)
            /\ p.body[2] = 0
            /\ Field(p.body, 5) = ll_ip6_addr
         THEN {Advertisement} ELSE {}
    [] p.body[1] = ICMP6_ECHO_REQUEST -> {EchoReply(p, n)}
    [] OTHER -> {}

(* eth_recv's tests of the IPv6 header.                                    *)
ForDevice(p) ==
  ntohs(p.length) <= Len(p.body) /\ p.dst \in {ll_ip6_addr, snm_ip6_addr}

(* Mutant: what is behind the packet in the frame is not cut off.          *)
PacketLen_frame(p) == Len(p.body)

(* "ignore any trailing data in the ethernet frame"                        *)
PacketLen(p) == ntohs(p.length)

DeviceDrops ==
  /\ pc = "device" /\ pc' = "done"
  /\ ~ForDevice(frame) \/ frame.next \notin {HDR_UDP, HDR_ICMP6}
  /\ UNCHANGED <<kind, data, sent, frame, damage, up, answer>>

DeviceUdp ==
  /\ pc = "device" /\ pc' = "done"
  /\ ForDevice(frame) /\ frame.next = HDR_UDP
  /\ up' = _udp6_recv(frame, PacketLen(frame))
  /\ \/ answer' = {}
     \/ \E r \in Replies : up' # {} /\ answer' = udp6_send(r, frame.src)
  /\ UNCHANGED <<kind, data, sent, frame, damage>>

(* No test makes sure that the packet holds a header.  It is read from the *)
(* receive buffer, where an earlier frame may have left it.                *)
DeviceIcmp ==
  /\ pc = "device" /\ pc' = "done"
  /\ ForDevice(frame) /\ frame.next = HDR_ICMP6
  /\ \E s \in Stale :
       LET p == [frame EXCEPT !.body = @ \o s]
       IN  answer' = UNION {icmp6_send(b, p.src) : b \in icmp6_recv(p, PacketLen(frame))}
  /\ UNCHANGED <<kind, data, sent, frame, damage, up>>

Next ==
  \/ HostSends
  \/ WireDelivers
  \/ DeviceDrops
  \/ DeviceUdp
  \/ DeviceIcmp

Spec == Init /\ [][Next]_vars

-----------------------------------------------------------------------------
(* udp6_recv is never called with anything but the payload that was sent,  *)
(* whatever padding follows, and never if a byte of the frame was damaged, *)
(* an address or the protocol included; only a damaged length may pass.    *)
UdpExact ==
  up # {} => kind = "udp" /\ up = {data} /\ damage \in {"none", "length"}

(* A request that arrives undamaged, padded or not, reaches udp6_recv, or  *)
(* is answered by icmp6_recv if it should be.  Not so for an ICMPv6        *)
(* message whose checksum is zero.                                         *)
WellFormedHandled ==
  pc = "done" /\ damage = "none" =>
    CASE kind = "udp" -> up = {data}
      [] kind = "ping" -> answer # {} \/ Field(sent.body, 3) = <<0, 0>>
      [] kind = "solicit" -> answer # {} \/ data # ll_ip6_addr
                               \/ Field(sent.body, 3) = <<0, 0>>

(* Every answer fits its frame, and unless the request was cut to less     *)
(* than a header, its checksum is not zero and comes out right at a host.  *)
(* Only the length of the request may be damaged, and if it is not, a ping *)
(* is answered with exactly its data, without the padding.                 *)
AnswersVerify ==
  \A a \in answer :
    /\ ntohs(a.length) = Len(a.body) /\ Len(a.body) <= MaxPayload + UDP_HDR_LEN
    /\ Len(a.body) >= ICMP_HDR_LEN =>
         /\ Load(Field(a.body, SumAt(a.next))) # 0
         /\ PacketSum(a, a.next, Len(a.body)) = Mask
    /\ damage \in {"none", "length"}
    /\ kind = "ping" /\ damage = "none" =>
         a.body = WithField(IcmpBody(ICMP6_ECHO_REPLY, data), 3, Field(a.body, 3))

(* The contract of ip6toa, with which ip6_init prints its addresses before *)
(* the first packet (pc is "host"): the text denotes the address, whatever *)
(* word follows the address in memory, and with its NUL fits the buffer of *)
(* IP6TOAMAX bytes.                                                        *)
Ip6toaCorrect ==
  pc = "host" =>
    \A a \in Addresses, b \in Behind :
      LET text == ip6toa(a \o <<b>>)
      IN  Denotes(text, a) /\ Length(text) < IP6TOAMAX
=============================================================================
