------------------------------- MODULE Packets ---------------------------------
(* src/echo_raw/src/checksum.c and packet.c: the checksum of a packet that is sent,  *)
(* one iteration of a loop after the other, and the parser on whatever is received.  *)
(* A byte has ByteBase values instead of 256; header and packet sizes are the real   *)
(* ones.                                                                             *)
EXTENDS Integers, Sequences

CONSTANTS
    ByteBase,           \* values of a byte
    PseudoHeaders,      \* pseudo headers: sequences of bytes, of even length
    Datagrams,          \* UDP headers with a check field of 0, and data: sequences of bytes
    HeaderPackets       \* what is received: its length, and fields of its headers

ASSUME PacketsAssumption ==
    /\ ByteBase \in Nat \ {0, 1}
    /\ PseudoHeaders \subseteq Seq(0 .. ByteBase - 1) /\ Datagrams \subseteq Seq(0 .. ByteBase - 1)
    /\ \A h \in PseudoHeaders : Len(h) > 0 /\ Len(h) % 2 = 0
    /\ HeaderPackets \subseteq [len : Nat, version : Nat, ihl : Nat, protocol : Nat, ulen : Nat]

WordBase  == ByteBase * ByteBase
AllOnes   == WordBase - 1
IpHeader  == 20                                 \* sizeof(struct iphdr)
UdpHeader == 8                                  \* sizeof(struct udphdr)
UdpProtocol == 17

VARIABLES
    pkpart,             \* the bytes that are summed: "pseudo", "data", then "done";
                        \* or the parser: "parse", then "parsed"
    pkpseudo, pkdata,
    pkpos,              \* bytes taken
    pksum,              \* uint32_t sum
    pkcheck,            \* the checksum
    pkt,                \* a packet received
    pkout               \* what the parser returns: offset and length of the payload

pkVars == <<pkpart, pkpseudo, pkdata, pkpos, pksum, pkcheck, pkt, pkout>>

NoPacket == [len |-> 0, version |-> 0, ihl |-> 0, protocol |-> 0, ulen |-> 0]
Refused  == [offset |-> -1, len |-> -1]

PkTypeOK ==
    /\ pkpart \in {"pseudo", "data", "done", "parse", "parsed"}
    /\ pkpseudo \in PseudoHeaders /\ pkdata \in Datagrams \cup {<<>>}
    /\ pkpos \in 0 .. Len(pkpseudo) + Len(pkdata) /\ pksum \in Nat /\ pkcheck \in 0 .. AllOnes
    /\ pkt \in HeaderPackets \cup {NoPacket}

PkInit ==
    /\ pkpos = 0 /\ pksum = 0 /\ pkcheck = 0 /\ pkout = Refused
    /\ pkpseudo \in PseudoHeaders
    /\ \/ pkpart = "pseudo" /\ pkdata \in Datagrams /\ pkt = NoPacket
       \/ pkpart = "parse" /\ pkdata = <<>> /\ pkpseudo = (CHOOSE h \in PseudoHeaders : TRUE)
            /\ pkt \in HeaderPackets

-------------------------------------------------------------------------------
(* rawudp_udp_checksum(), the first part in rawudp_checksum16() *)

Bytes == IF pkpart = "pseudo" THEN pkpseudo ELSE pkdata

\* A word is two bytes, the first one high.
AddWord ==
    /\ pkpart \in {"pseudo", "data"} /\ pkpos + 1 < Len(Bytes)
    /\ pksum' = pksum + Bytes[pkpos + 1] * ByteBase + Bytes[pkpos + 2]
    /\ pkpos' = pkpos + 2
    /\ UNCHANGED <<pkpart, pkpseudo, pkdata, pkcheck, pkt, pkout>>

\* The last of an odd number of bytes is the high half of a word.
\* (Mutant: the low half.)
LastLow(b) == b
LastByte(b) == b * ByteBase

AddLast ==
    /\ pkpart \in {"pseudo", "data"} /\ pkpos + 1 = Len(Bytes)
    /\ pksum' = pksum + LastByte(Bytes[pkpos + 1]) /\ pkpos' = pkpos + 1
    /\ UNCHANGED <<pkpart, pkpseudo, pkdata, pkcheck, pkt, pkout>>

FoldCarry ==
    /\ pkpart \in {"pseudo", "data"} /\ pkpos = Len(Bytes) /\ pksum >= WordBase
    /\ pksum' = (pksum % WordBase) + (pksum \div WordBase)
    /\ UNCHANGED <<pkpart, pkpseudo, pkdata, pkpos, pkcheck, pkt, pkout>>

\* The sum of the pseudo header is complemented twice on its way to the second part.
PseudoDone ==
    /\ pkpart = "pseudo" /\ pkpos = Len(pkpseudo) /\ pksum < WordBase
    /\ pkpart' = "data" /\ pkpos' = 0
    /\ UNCHANGED <<pkpseudo, pkdata, pksum, pkcheck, pkt, pkout>>

\* No checksum is 0, which stands for none.
\* (Mutant: it is sent as it is.)
AsItIs(c) == c
NotZero(c) == IF c = 0 THEN AllOnes ELSE c

DataDone ==
    /\ pkpart = "data" /\ pkpos = Len(pkdata) /\ pksum < WordBase
    /\ pkpart' = "done" /\ pkcheck' = NotZero(AllOnes - pksum)
    /\ UNCHANGED <<pkpseudo, pkdata, pkpos, pksum, pkt, pkout>>

-------------------------------------------------------------------------------
(* rawudp_build_ipv4_udp(), rawudp_parse_ipv4_udp() *)

BuiltPacket(payload) ==
    [len |-> IpHeader + UdpHeader + payload, version |-> 4, ihl |-> IpHeader \div 4,
     protocol |-> UdpProtocol, ulen |-> UdpHeader + payload]

\* (Mutant: the length in the UDP header is believed.)
HoldsHeaders(p) == p.len >= p.ihl * 4 + UdpHeader
HoldsDatagram(p) == p.len >= p.ihl * 4 + p.ulen

Accepts4(p) ==
    /\ p.len >= IpHeader /\ p.version = 4
    /\ p.ihl * 4 >= IpHeader /\ p.len >= p.ihl * 4 + UdpHeader
    /\ p.protocol = UdpProtocol
    /\ p.ulen >= UdpHeader /\ HoldsDatagram(p)

Parse ==
    /\ pkpart = "parse" /\ pkpart' = "parsed"
    /\ pkout' = IF Accepts4(pkt)
                THEN [offset |-> pkt.ihl * 4 + UdpHeader, len |-> pkt.ulen - UdpHeader]
                ELSE Refused
    /\ UNCHANGED <<pkpseudo, pkdata, pkpos, pksum, pkcheck, pkt>>

PkNext == AddWord \/ AddLast \/ FoldCarry \/ PseudoDone \/ DataDone \/ Parse

PkSpec == PkInit /\ [][PkNext]_pkVars

-------------------------------------------------------------------------------
\* What the sender's host makes of a check field that is stored without htons(): on a
\* little-endian host its bytes are swapped.
Swapped(w) == (w % ByteBase) * ByteBase + w \div ByteBase

\* The word at an even position of the datagram, filled up with a 0.
WordAt(bytes, i) == bytes[i] * ByteBase + IF i < Len(bytes) THEN bytes[i + 1] ELSE 0

\* One's complement sum, by its definition: the number below 2^16 that is congruent
\* to the sum, 0 only for all zeroes.
OnesSum(words) ==
    LET total[i \in 0 .. Len(words)] == IF i = 0 THEN 0 ELSE total[i - 1] + words[i]
        all == total[Len(words)]
    IN  IF all = 0 THEN 0 ELSE ((all - 1) % AllOnes) + 1

WordsOf(bytes) == [i \in 1 .. (Len(bytes) + 1) \div 2 |-> WordAt(bytes, 2 * i - 1)]

Received(check) == OnesSum(WordsOf(pkpseudo) \o WordsOf(pkdata) \o <<check>>)

\* A receiver that checks finds all ones, and a checksum at all, in a packet of a
\* big-endian host; of a little-endian one only if the bytes of the checksum are the
\* same.
ChecksumVerifies ==
    pkpart = "done" =>
      /\ pkcheck # 0 /\ Received(pkcheck) = AllOnes
      /\ Received(Swapped(pkcheck)) = AllOnes <=> Swapped(pkcheck) = pkcheck

\* A payload that the parser returns lies inside the packet, behind its headers, for
\* any packet there is, and packets built here come back with their payload.
PayloadInside ==
    pkpart = "parsed" =>
      /\ pkout # Refused => pkout.offset >= IpHeader + UdpHeader /\ pkout.offset + pkout.len <= pkt.len
      /\ \A n \in 0 .. pkt.len :
           pkt = BuiltPacket(n) => pkout = [offset |-> IpHeader + UdpHeader, len |-> n]
===============================================================================
