----------------------------- MODULE FrameCodec -----------------------------
(***************************************************************************)
(* The frame objects of the testbenches, EthFrame, ARPFrame, IPFrame and   *)
(* UDPFrame of udp_alex/udp/tb/{eth,arp,ip,udp}_ep.py: how they are built  *)
(* into bytes and parsed from them, and how lengths and checksums that are *)
(* computed once go stale when the payload is changed.  One step is one    *)
(* call of a testbench.                                                    *)
(*                                                                         *)
(* A field wider than 16 bits is a sequence of its 16-bit words.           *)
(***************************************************************************)
EXTENDS Integers, Sequences

LOCAL INSTANCE SequencesExt

CONSTANTS
  Macs, Ips, Words16, \* values of addresses and of 16-bit fields
  Tos, Frags, Ttls,   \* pairs <<dscp, ecn>>, <<flags, fragment offset>>, <<ttl, protocol>>
  Datas,              \* payloads, sequences of bytes
  MinPayload,         \* bytes the MAC pads a payload to (46)
  MaxEdits            \* bound: calls that change the frame

ASSUME CodecAssumption ==
  /\ Macs \subseteq [1 .. 3 -> 0 .. 65535] /\ Ips \subseteq [1 .. 2 -> 0 .. 65535]
  /\ Words16 \subseteq 0 .. 65535 /\ MinPayload \in Nat

VARIABLES
  frame,     \* the object
  onwire,    \* the bytes it was built into last, perhaps padded, or << >>
  built,     \* history: the object as it was built then
  outdated,  \* history: its payload has changed since a length was computed
  codec_calls

codecVars == <<frame, onwire, built, outdated, codec_calls>>
-----------------------------------------------------------------------------
Unset == -1
Pack(ws) == FlattenSeq([i \in DOMAIN ws |-> << ws[i] \div 256, ws[i] % 256 >>])
Unpack(s, at) == s[at + 1] * 256 + s[at + 2]
Slice(s, from, to) == SubSeq(s, from + 1, IF to < Len(s) THEN to ELSE Len(s))
WordsAt(s, at, n) == [i \in 1 .. n |-> Unpack(s, at + 2 * (i - 1))]

(* Mutant: a carry out of the first fold is lost.                          *)
FoldOnce(sum) == ((sum % 65536) + (sum \div 65536)) % 65536

(* Two folds of a sum to 16 bits.                                          *)
Fold16(sum) == LET once == (sum % 65536) + (sum \div 65536)
               IN  (once % 65536) + (once \div 65536)

Sum16(ws) == FoldLeft(LAMBDA a, b : a + b, 0, ws)

(* Big-endian words of bytes, the last one filled with 0.                  *)
WordsOf(d) == [i \in 1 .. (Len(d) + 1) \div 2 |->
                 d[2 * i - 1] * 256 + IF 2 * i <= Len(d) THEN d[2 * i] ELSE 0]

(* crc32 of zlib: any function of the data will do.                        *)
crc32(s) == << Len(s) % 65536, Sum16(s) % 65536 >>
-----------------------------------------------------------------------------
(* EthFrame.  The check sequence is little-endian.                         *)
EthBytes(f) == Pack(f.dst \o f.src \o << f.etype >>) \o f.payload
EthBytesFcs(f) == EthBytes(f) \o Reverse(Pack(f.fcs))
EthParse(s) == [dst |-> WordsAt(s, 0, 3), src |-> WordsAt(s, 6, 3),
                etype |-> Unpack(s, 12), payload |-> Slice(s, 14, Len(s))]
EthParseFcs(s) ==
  LET n == Len(s)
  IN  [class |-> "fcs", dst |-> WordsAt(s, 0, 3), src |-> WordsAt(s, 6, 3),
       etype |-> Unpack(s, 12), payload |-> Slice(s, 14, n - 4),
       fcs |-> WordsAt(Reverse(Slice(s, n - 4, n)), 0, 2)]

(* ARPFrame.                                                               *)
ArpBytes(f) ==
  Pack(<<f.htype, f.ptype, f.hlen * 256 + f.plen, f.oper>> \o f.sha \o f.spa \o f.tha \o f.tpa)
ArpParse(e) ==
  LET p == e.payload
  IN  [class |-> "arp", dst |-> e.dst, src |-> e.src, etype |-> e.etype,
       htype |-> Unpack(p, 0), ptype |-> Unpack(p, 2),
       hlen |-> Unpack(p, 4) \div 256, plen |-> Unpack(p, 4) % 256, oper |-> Unpack(p, 6),
       sha |-> WordsAt(p, 8, 3), spa |-> WordsAt(p, 14, 2),
       tha |-> WordsAt(p, 18, 3), tpa |-> WordsAt(p, 24, 2)]

(* IPFrame.  ip holds the fields of the header.                            *)
IpWords(ip) ==
  <<ip.version * 4096 + ip.ihl * 256 + ip.tos[1] * 4 + ip.tos[2], ip.length, ip.id,
    ip.frag[1] * 8192 + ip.frag[2], ip.ttlp[1] * 256 + ip.ttlp[2]>>
IpSum(ip) == 65535 - Fold16(Sum16(IpWords(ip) \o ip.from \o ip.to))
IpBytes(ip, payload) == Pack(IpWords(ip) \o << ip.sum >> \o ip.from \o ip.to) \o payload

(* Mutant: the padding of the MAC stays in the payload.                    *)
IpParsePadded(e) ==
  LET p == e.payload
      w(at) == Unpack(p, at)
  IN  [class |-> "ip", dst |-> e.dst, src |-> e.src, etype |-> e.etype,
       ip |-> [version |-> w(0) \div 4096, ihl |-> (w(0) \div 256) % 16,
               tos |-> <<(w(0) % 256) \div 4, w(0) % 4>>, length |-> w(2), id |-> w(4),
               frag |-> <<w(6) \div 8192, w(6) % 8192>>, ttlp |-> <<w(8) \div 256, w(8) % 256>>,
               sum |-> w(10), from |-> WordsAt(p, 12, 2), to |-> WordsAt(p, 16, 2)],
       payload |-> Slice(p, 20, Len(p))]

IpParse(e) ==
  LET p == e.payload
      w(at) == Unpack(p, at)
  IN  [class |-> "ip", dst |-> e.dst, src |-> e.src, etype |-> e.etype,
       ip |-> [version |-> w(0) \div 4096, ihl |-> (w(0) \div 256) % 16,
               tos |-> <<(w(0) % 256) \div 4, w(0) % 4>>, length |-> w(2), id |-> w(4),
               frag |-> <<w(6) \div 8192, w(6) % 8192>>, ttlp |-> <<w(8) \div 256, w(8) % 256>>,
               sum |-> w(10), from |-> WordsAt(p, 12, 2), to |-> WordsAt(p, 16, 2)],
       payload |-> Slice(p, 20, w(2))]

(* UDPFrame: an IPFrame whose payload begins with the UDP header.          *)
PseudoSum(f) == Fold16(Sum16(f.ip.from \o f.ip.to \o << f.ip.ttlp[2], f.udp.length >>))
UdpSum(f) == 65535 - Fold16(PseudoSum(f) + f.udp.sport + f.udp.dport + f.udp.length
                            + Sum16(WordsOf(f.payload)))
UdpBytes(f) == Pack(<<f.udp.sport, f.udp.dport, f.udp.length, f.udp.sum>>) \o f.payload

UdpParse(i) ==
  [class |-> "udp", dst |-> i.dst, src |-> i.src, etype |-> i.etype, ip |-> i.ip,
   udp |-> [sport |-> Unpack(i.payload, 0), dport |-> Unpack(i.payload, 2),
            length |-> Unpack(i.payload, 4), sum |-> Unpack(i.payload, 6)],
   payload |-> Slice(i.payload, 8, Unpack(i.payload, 4))]
-----------------------------------------------------------------------------
(* build: fields that are Unset are computed, in this order.                *)
IpFilled(f) ==
  LET long == [f EXCEPT !.ip.length = IF @ = Unset THEN Len(f.payload) + 20 ELSE @]
  IN  [long EXCEPT !.ip.sum = IF @ = Unset THEN IpSum(long.ip) ELSE @]

UdpFilled(f) ==
  LET long   == [f EXCEPT !.udp.length = IF @ = Unset THEN Len(f.payload) + 8 ELSE @]
      summed == [long EXCEPT !.udp.sum = IF @ = Unset THEN UdpSum(long) ELSE @]
      ip     == [summed EXCEPT !.ip.length = IF @ = Unset THEN long.udp.length + 20 ELSE @]
  IN  [ip EXCEPT !.ip.sum = IF @ = Unset THEN IpSum(ip.ip) ELSE @]

Filled(f) ==
  CASE f.class = "udp" -> UdpFilled(f)
    [] f.class = "ip"  -> IpFilled(f)
    [] f.class = "fcs" -> [f EXCEPT !.fcs = IF @ = << >> THEN crc32(EthBytes(f)) ELSE @]
    [] f.class = "arp" -> f

Raw(f) ==
  LET eth(payload) == EthBytes([dst |-> f.dst, src |-> f.src, etype |-> f.etype,
                                payload |-> payload])
  IN  CASE f.class = "udp" -> eth(IpBytes(f.ip, UdpBytes(f)))
        [] f.class = "ip"  -> eth(IpBytes(f.ip, f.payload))
        [] f.class = "arp" -> eth(ArpBytes(f))
        [] f.class = "fcs" -> EthBytesFcs(f)

(* The MAC pads a short payload before it adds a check sequence.           *)
PaddedBy(f, s) ==
  IF f.class = "fcs" \/ Len(s) >= 14 + MinPayload THEN s
  ELSE s \o [i \in 1 .. 14 + MinPayload - Len(s) |-> 0]

Parse(class, s) ==
  CASE class = "udp" -> UdpParse(IpParse(EthParse(s)))
    [] class = "ip"  -> IpParse(EthParse(s))
    [] class = "arp" -> ArpParse(EthParse(s))
    [] class = "fcs" -> EthParseFcs(s)
-----------------------------------------------------------------------------
Header0 == [version : {4}, ihl : {5}, tos : Tos, length : {Unset}, id : Words16,
            frag : Frags, ttlp : Ttls, sum : {Unset}, from : Ips, to : Ips]
Udp0 == [sport : Words16, dport : Words16, length : {Unset}, sum : {Unset}]

UdpFrames == [class : {"udp"}, dst : Macs, src : Macs, etype : {2048}, ip : Header0,
              udp : Udp0, payload : Datas]
IpFrames  == [class : {"ip"}, dst : Macs, src : Macs, etype : {2048}, ip : Header0,
              payload : Datas]
ArpFrames == [class : {"arp"}, dst : Macs, src : Macs, etype : {2054}, htype : {1},
              ptype : {2048}, hlen : {6}, plen : {4}, oper : {1, 2},
              sha : Macs, spa : Ips, tha : Macs, tpa : Ips]
EthFrames == [class : {"fcs"}, dst : Macs, src : Macs, etype : {2048}, payload : Datas,
              fcs : {<< >>}]
NewFrames == UdpFrames \cup IpFrames \cup ArpFrames \cup EthFrames

CodecInit ==
  /\ frame \in NewFrames
  /\ onwire = << >> /\ built = [frame |-> frame, outdated |-> {}]
  /\ outdated = {} /\ codec_calls = 0

(* build_axis, or build_axis_fcs of a frame with a check sequence.         *)
build_axis ==
  /\ onwire = << >> \/ built.frame # frame
  /\ frame' = Filled(frame)
  /\ onwire' = PaddedBy(frame', Raw(frame'))
  /\ built' = [frame |-> frame', outdated |-> outdated]
  /\ UNCHANGED <<outdated, codec_calls>>

Call(f, old) == /\ codec_calls < MaxEdits /\ codec_calls' = codec_calls + 1
                /\ frame' = f /\ outdated' = old
                /\ UNCHANGED <<onwire, built>>

Ip(f)      == f.class \in {"ip", "udp"}
Long(f)    == IF Ip(f) /\ f.ip.length # Unset THEN {"length"} ELSE {}
Summed(f)  == IF (f.class = "fcs" /\ f.fcs = << >>) \/ (Ip(f) /\ f.ip.sum = Unset)
              THEN {} ELSE {"sum"}

(* The setter of payload.                                                  *)
set_payload ==
  /\ frame.class # "arp"
  /\ \E d \in Datas : Call([frame EXCEPT !.payload = d], outdated \cup Long(frame) \cup Summed(frame))

update_length ==
  \/ /\ frame.class = "ip"
     /\ Call([frame EXCEPT !.ip.length = Len(frame.payload) + 20],
             (outdated \ {"length"}) \cup Summed(frame))
  \/ /\ frame.class = "udp"
     /\ Call([frame EXCEPT !.udp.length = Len(frame.payload) + 8,
                           !.ip.length = Len(frame.payload) + 28],
             (outdated \ {"length"}) \cup Summed(frame))

(* update_checksum or update_fcs.                                          *)
update_checksum ==
  \/ /\ frame.class = "ip" /\ frame.ip.length # Unset
     /\ Call([frame EXCEPT !.ip.sum = IpSum(frame.ip)], outdated \ {"sum"})
  \/ /\ frame.class = "udp" /\ frame.ip.length # Unset
     /\ Call([frame EXCEPT !.udp.sum = UdpSum(frame), !.ip.sum = IpSum(frame.ip)],
             outdated \ {"sum"})
  \/ /\ frame.class = "fcs"
     /\ Call([frame EXCEPT !.fcs = crc32(EthBytes(frame))], outdated \ {"sum"})

(* The checksum is left to the unit under test.                            *)
set_udp_pseudo_header_checksum ==
  /\ frame.class = "udp"
  /\ LET long == [frame EXCEPT !.udp.length = IF @ = Unset THEN Len(frame.payload) + 8 ELSE @]
     IN  Call([long EXCEPT !.udp.sum = PseudoSum(long)],
              outdated \cup {"sum"} \cup (IF frame.udp.length = Unset THEN {"length"} ELSE {}))

(* parse_axis, into the same object.                                       *)
parse_axis ==
  /\ onwire # << >>
  /\ Call(Parse(frame.class, onwire), built.outdated)

CodecNext == \/ build_axis \/ set_payload \/ update_length \/ update_checksum
             \/ set_udp_pseudo_header_checksum \/ parse_axis

CodecSpec == CodecInit /\ [][CodecNext]_codecVars
-----------------------------------------------------------------------------
(* A frame whose lengths are those of its payload comes back from the wire *)
(* field by field and byte by byte, also when the MAC has padded it, and   *)
(* whatever calls have changed and parsed it before (udp_ep.py:212-292,    *)
(* ip_ep.py:141-196, eth_ep.py:71-104, arp_ep.py:89-122).                  *)
SurvivesWire ==
  onwire # << >> /\ "length" \notin built.outdated =>
    Parse(built.frame.class, onwire) = built.frame

(* What a receiver adds up over the bytes on the wire is 0 modulo 65535,   *)
(* the negative zero of one's complement, carries and odd payloads         *)
(* included, and the check sequence is that of the bytes before it, unless *)
(* the payload was changed after they were computed (ip_ep.py:121-133,     *)
(* udp_ep.py:165-195, eth_ep.py:63-90).                                    *)
SumsVerify ==
  onwire # << >> /\ built.outdated = {} =>
    LET f   == built.frame
        eth == Slice(onwire, 14, Len(onwire))
        ip  == Slice(eth, 0, Unpack(eth, 2))
        udp == Slice(ip, 20, Len(ip))
    IN  /\ Ip(f) => Sum16(WordsAt(ip, 0, 10)) % 65535 = 0
        /\ f.class = "udp" =>
             (Sum16(WordsAt(ip, 12, 4)) + ip[10] + Len(udp) + Sum16(WordsOf(udp))) % 65535 = 0
        /\ f.class = "fcs" =>
             EthParseFcs(onwire).fcs = crc32(Slice(onwire, 0, Len(onwire) - 4))
=============================================================================
