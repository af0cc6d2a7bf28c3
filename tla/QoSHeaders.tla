------------------------------ MODULE QoSHeaders ------------------------------
(***************************************************************************)
(* The headers that carry the QoS flow of a user plane packet: the GRE     *)
(* header towards the UE, with QFI and RQI in its key field, and the PDU   *)
(* session container of the GTP-U header towards the UPF.  A packet is a   *)
(* sequence of octets.                                                     *)
(***************************************************************************)
EXTENDS Naturals, Sequences

Octet == 0..255

GREHeaderKeyFieldLength == 4
KeyFlag  == 32             \* 0x20 of the first octet
QFIUnit  == 16777216       \* the QFI is in the low six bits of the key's first octet
RQIFlag  == 128            \* 0x80 of the key's last octet

-----------------------------------------------------------------------------
(* GRE (gre/message.go).                                                   *)

GetKeyFlag(p) == (p.flags \div KeyFlag) % 2 = 1
GetQFI(p) == (p.key \div QFIUnit) % 64
GetRQI(p) == (p.key \div RQIFlag) % 2 = 1

\* SetQoS on a new packet, whose key and flags are 0.
SetQoS(qfi, rqi) ==
    [flags |-> KeyFlag,
     key   |-> (qfi % 64) * QFIUnit + (IF rqi THEN RQIFlag ELSE 0)]

\* Marshal writes the key field whether or not the flag is set.
Marshal(p, protocolType, payload) ==
    <<p.flags, 0, protocolType \div 256, protocolType % 256,
      p.key \div QFIUnit, (p.key \div 65536) % 256, (p.key \div 256) % 256, p.key % 256>>
    \o payload

Uint32(b, n) == b[n] * QFIUnit + b[n + 1] * 65536 + b[n + 2] * 256 + b[n + 3]

\* Unmarshal.  ok is FALSE for the errors "GRE packet too short".
Unmarshal(b) ==
    LET short == [ok |-> FALSE, flags |-> 0, key |-> 0, payload |-> <<>>]
        plain == [ok |-> TRUE, flags |-> b[1], key |-> 0, payload |-> SubSeq(b, 5, Len(b))]
        end   == 4 + GREHeaderKeyFieldLength
    IN  IF Len(b) < 4 THEN short
        ELSE IF ~GetKeyFlag(plain) THEN plain
        ELSE IF Len(b) < end THEN short
        ELSE [plain EXCEPT !.key = Uint32(b, 5), !.payload = SubSeq(b, end + 1, Len(b))]

-----------------------------------------------------------------------------
(* GTP-U (gtp/message/message.go).  An extension header has a type and its  *)
(* content; go-gtp delivers those of a T-PDU in order.                     *)

UL_PDU_SESSION_INFORMATION_TYPE == 16

\* unmarshalExtensionHeader: the last PDU session container counts; other types are
\* passed over; extension headers without a container are an error.
UnmarshalTPDU(headers) ==
    LET containers == {n \in DOMAIN headers : headers[n].type = "PDUSessionContainer"}
        last  == CHOOSE n \in containers : \A m \in containers : m <= n
        octet == headers[last].content[2]
    IN  IF headers = <<>> THEN [ok |-> TRUE, qos |-> FALSE, qfi |-> 0, rqi |-> FALSE]
        ELSE IF containers = {} THEN [ok |-> FALSE, qos |-> FALSE, qfi |-> 0, rqi |-> FALSE]
        ELSE [ok |-> TRUE, qos |-> TRUE, qfi |-> octet % 64, rqi |-> (octet \div 64) % 2 = 1]

BuildQoSGTPPacket(qfi, payload) ==
    [headers |-> <<[type |-> "PDUSessionContainer",
                    content |-> <<UL_PDU_SESSION_INFORMATION_TYPE, qfi>>]>>,
     payload |-> payload]
=============================================================================
