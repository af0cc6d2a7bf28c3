-------------------------- MODULE UserPlaneForwarding --------------------------
(***************************************************************************)
(* Theorems about the user plane: the headers of a packet keep what they   *)
(* say, a packet reaches its owner, and forwarding ends the process only   *)
(* after an identifier was used again.  The last two rest on SafeInv of    *)
(* module UserPlaneProofs.                                                 *)
(***************************************************************************)
EXTENDS UserPlaneProofs, FiniteSetTheorems, WellFoundedInduction

-----------------------------------------------------------------------------
(* GRE headers.  forwardDL marks a packet with SetQoS and writes it with   *)
(* Marshal; the UE reads the same header, and forwardUL reads with         *)
(* Unmarshal what the UE wrote.  The proof follows the octets: SetQoS puts *)
(* QFI and RQI in disjoint bits of the key, Marshal splits the key into    *)
(* four octets, Unmarshal puts them together and cuts the payload after    *)
(* the eighth.                                                             *)

LOCAL INSTANCE SequenceTheorems

\* A key from its octets.
KeyOf(k1, k2, k3, k4) == k1 * QFIUnit + k2 * 65536 + k3 * 256 + k4

\* GetQFI and GetRQI read back the two fields SetQoS put into the key: a QFI of six bits and the
\* RQI bit do not overlap.
LEMMA FieldsOfKey ==
    ASSUME NEW qfi \in 0..63, NEW rqi \in BOOLEAN
    PROVE  LET p == SetQoS(qfi, rqi) IN
           /\ p.flags = KeyFlag /\ p.key \in Nat
           /\ GetQFI(p) = qfi /\ (GetRQI(p) <=> rqi)
  <1>1. CASE rqi
    <2>1. SetQoS(qfi, rqi).key = qfi * 16777216 + 128
      BY <1>1, SMT DEF SetQoS, QFIUnit, RQIFlag
    <2>2. /\ (qfi * 16777216 + 128) \div 16777216 = qfi /\ qfi % 64 = qfi
          /\ ((qfi * 16777216 + 128) \div 128) % 2 = 1
      BY SMTT(30)
    <2> QED
      BY <1>1, <2>1, <2>2, SMT DEF SetQoS, GetQFI, GetRQI, QFIUnit, RQIFlag
  <1>2. CASE ~rqi
    <2>1. SetQoS(qfi, rqi).key = qfi * 16777216
      BY <1>2, SMT DEF SetQoS, QFIUnit
    <2>2. /\ (qfi * 16777216) \div 16777216 = qfi /\ qfi % 64 = qfi
          /\ ((qfi * 16777216) \div 128) % 2 = 0
      BY SMTT(30)
    <2> QED
      BY <1>2, <2>1, <2>2, SMT DEF SetQoS, GetQFI, GetRQI, QFIUnit, RQIFlag
  <1> QED
    BY <1>1, <1>2

\* A payload appended to a header of eight octets leaves the header where it was and is found
\* again, the empty payload included, from the ninth octet on (Marshal's append, Unmarshal's slice).
LEMMA AfterHeader ==
    ASSUME NEW payload \in Seq(Octet), NEW h \in Seq(Nat), Len(h) = 8
    PROVE  /\ Len(h \o payload) \in Nat /\ Len(h \o payload) >= 8
           /\ \A n \in 1..8 : (h \o payload)[n] = h[n]
           /\ SubSeq(h \o payload, 9, Len(h \o payload)) = payload
  <1>1. payload \in Seq(Nat)
    <2>1. Octet \subseteq Nat
      BY SMT DEF Octet
    <2> QED
      BY ZenonT(30), <2>1, SeqMonotonic
  <1>2. /\ Len(h \o payload) = Len(h) + Len(payload)
        /\ \A i \in 1 .. Len(h) + Len(payload) : (h \o payload)[i] =
              IF i <= Len(h) THEN h[i] ELSE payload[i - Len(h)]
    BY <1>1, ConcatProperties, Zenon
  <1>3. Len(payload) \in Nat
    BY LenProperties, Zenon
  <1>4. /\ Len(h \o payload) = 8 + Len(payload) /\ Len(h \o payload) \in Nat
        /\ Len(h \o payload) >= 8
        /\ \A n \in 1..8 : (h \o payload)[n] = h[n]
    BY <1>2, <1>3, SMTT(30)
  <1>5. CASE payload = <<>>
    <2>1. Len(h \o payload) = 8
      BY <1>4, <1>5, SMT
    <2>2. SubSeq(h \o payload, 9, 8) = <<>>
      BY SubSeqEmpty, SMT
    <2> QED
      BY <1>4, <1>5, <2>1, <2>2, Zenon
  <1>6. CASE payload # <<>>
    <2>1. Len(payload) \in Nat \ {0}
      BY <1>6, EmptySeq, Zenon
    <2>2. /\ 9 \in Len(h) + 1 .. Len(h) + Len(payload)
          /\ 8 + Len(payload) \in Len(h) + 1 .. Len(h) + Len(payload)
          /\ 9 - Len(h) = 1 /\ (8 + Len(payload)) - Len(h) = Len(payload)
      BY <2>1, SMT
    <2>3. SubSeq(h \o payload, 9, 8 + Len(payload))
            = SubSeq(payload, 9 - Len(h), (8 + Len(payload)) - Len(h))
      BY <1>1, <2>2, SubSeqOfConcat2, ZenonT(60)
    <2>4. SubSeq(payload, 1, Len(payload)) = payload
      BY SubSeqFull, Zenon
    <2> QED
      BY <1>4, <2>2, <2>3, <2>4, Zenon
  <1> QED
    BY <1>5, <1>6, Zenon

\* Marshal writes eight octets before the payload: the flags first, the key big-endian in the
\* last four, from which Uint32 restores it.
LEMMA HeaderOfKey ==
    ASSUME NEW p, p.flags \in Nat, p.key \in Nat, NEW protocolType \in Nat, NEW payload
    PROVE  \E h \in Seq(Nat) : /\ Marshal(p, protocolType, payload) = h \o payload
                               /\ Len(h) = 8 /\ h[1] = p.flags /\ Uint32(h, 5) = p.key
  <1> DEFINE t1 == protocolType \div 256
             t2 == protocolType % 256
             k1 == p.key \div QFIUnit
             k2 == (p.key \div 65536) % 256
             k3 == (p.key \div 256) % 256
             k4 == p.key % 256
             h == <<p.flags, 0, t1, t2, k1, k2, k3, k4>>
  <1>1. t1 \in Nat /\ t2 \in Nat
    BY SMT
  <1>2. k1 \in Nat /\ k2 \in Nat /\ k3 \in Nat /\ k4 \in Nat /\ KeyOf(k1, k2, k3, k4) = p.key
    BY SMTT(60) DEF KeyOf, QFIUnit
  <1>3. Marshal(p, protocolType, payload) = h \o payload
    BY SMT DEF Marshal
  <1> HIDE DEF t1, t2, k1, k2, k3, k4
  <1>4. h \in Seq(Nat) /\ Len(h) = 8 /\ h[1] = p.flags /\ Uint32(h, 5) = KeyOf(k1, k2, k3, k4)
    BY <1>1, <1>2, SMT DEF Uint32, KeyOf
  <1> HIDE DEF h
  <1> QED
    BY <1>2, <1>3, <1>4, Zenon

\* Unmarshal on at least eight octets with the key flag set succeeds, keeps the flag, and takes
\* the key from octets five to eight and the payload from the rest.
LEMMA Unmarshalled ==
    ASSUME NEW b, Len(b) \in Nat, Len(b) >= 8, b[1] = KeyFlag
    PROVE  /\ Unmarshal(b).ok /\ GetKeyFlag(Unmarshal(b))
           /\ Unmarshal(b).key = Uint32(b, 5) /\ Unmarshal(b).payload = SubSeq(b, 9, Len(b))
  <1> DEFINE plain == [ok |-> TRUE, flags |-> b[1], key |-> 0, payload |-> SubSeq(b, 5, Len(b))]
  <1>1. GetKeyFlag(plain)
    BY SMT DEF GetKeyFlag, KeyFlag
  <1>2. ~(Len(b) < 4) /\ ~(Len(b) < 8) /\ 4 + GREHeaderKeyFieldLength = 8 /\ 8 + 1 = 9
    BY SMT DEF GREHeaderKeyFieldLength
  <1>3. Unmarshal(b) = [plain EXCEPT !.key = Uint32(b, 5), !.payload = SubSeq(b, 9, Len(b))]
    BY <1>1, <1>2, Zenon DEF Unmarshal
  <1>4. Unmarshal(b).flags = plain.flags
    BY <1>3, SMT
  <1> QED
    BY <1>1, <1>3, <1>4, SMT DEF GetKeyFlag

\* Packet p has the QFI, the RQI and the payload.
Restored(p, qfi, rqi, payload) ==
    p.ok /\ GetKeyFlag(p) /\ GetQFI(p) = qfi /\ (GetRQI(p) <=> rqi) /\ p.payload = payload

\* For every QFI of six bits, RQI, protocol type and payload of any length, Unmarshal of what
\* Marshal writes after SetQoS succeeds and yields the same QFI, RQI and payload (gre/message.go).
THEOREM RoundTrip ==
    ASSUME NEW qfi \in 0..63, NEW rqi \in BOOLEAN,
           NEW protocolType \in Nat, NEW payload \in Seq(Octet)
    PROVE  Restored(Unmarshal(Marshal(SetQoS(qfi, rqi), protocolType, payload)), qfi, rqi, payload)
  <1> DEFINE q == SetQoS(qfi, rqi)
  <1>1. q.flags = KeyFlag /\ q.key \in Nat /\ GetQFI(q) = qfi /\ (GetRQI(q) <=> rqi)
    BY ZenonT(30), FieldsOfKey
  <1> HIDE DEF q
  <1>2. PICK h \in Seq(Nat) :
            /\ Marshal(q, protocolType, payload) = h \o payload
            /\ Len(h) = 8 /\ h[1] = KeyFlag /\ Uint32(h, 5) = q.key
    <2>1. q.flags \in Nat
      BY <1>1 DEF KeyFlag
    <2> QED
      BY ZenonT(30), <1>1, <2>1, HeaderOfKey
  <1> DEFINE b == h \o payload
  <1>3. /\ Len(b) \in Nat /\ Len(b) >= 8 /\ \A n \in 1..8 : b[n] = h[n]
        /\ SubSeq(b, 9, Len(b)) = payload
    BY ZenonT(30), <1>2, AfterHeader
  <1> HIDE DEF b
  <1>4. b[1] = KeyFlag /\ Uint32(b, 5) = q.key
    BY <1>2, <1>3, SMTT(30) DEF Uint32
  <1> DEFINE r == Unmarshal(b)
  <1>5. r.ok /\ GetKeyFlag(r) /\ r.key = q.key /\ r.payload = payload
    BY ZenonT(30), <1>3, <1>4, Unmarshalled
  <1> HIDE DEF r
  <1>6. GetQFI(r) = qfi /\ (GetRQI(r) <=> rqi)
    BY <1>1, <1>5, SMT DEF GetQFI, GetRQI
  <1>7. Unmarshal(Marshal(SetQoS(qfi, rqi), protocolType, payload)) = r
    BY Zenon, <1>2 DEF q, r, b
  <1> QED
    BY Zenon, <1>5, <1>6, <1>7 DEF Restored

-----------------------------------------------------------------------------
(* Facts about finite sets: two elements of a set that has at most one, and *)
(* the last of several positions.                                          *)

\* Two elements of a set that has at most one are the same.
LEMMA AtMostOne ==
    ASSUME NEW S, IsFiniteSet(S), ~(Cardinality(S) > 1), NEW r \in S, NEW s \in S
    PROVE  r = s
  <1>1. Cardinality(S) \in Nat BY FS_CardinalityType
  <1>2. Cardinality(S) # 0 BY FS_EmptySet
  <1>3. Cardinality(S) = 1 BY ONLY <1>1, <1>2, ~(Cardinality(S) > 1)
  <1>4. PICK x : S = {x} BY <1>3, FS_Singleton
  <1> QED BY <1>4

\* What SafeKept assumes of the session IDs, which are finitely many.
LEMMA OneMemberHolds == OneMember
  <1> SUFFICES ASSUME NEW S \in SUBSET Session, ~(Cardinality(S) > 1), NEW r \in S, NEW s \in S
               PROVE  r = s
    BY Zenon DEF OneMember
  <1>1. IsFiniteSet(Session) BY Zenon, UserPlaneAssumption
  <1>2. IsFiniteSet(S) BY Zenon, <1>1, FS_Subset
  <1> QED BY Zenon, <1>2, AtMostOne

\* A set of numbers up to n that is not empty has a greatest.
LEMMA Greatest ==
    ASSUME NEW n \in Nat, NEW T, T \subseteq 1..n, T # {} PROVE \E x \in T : \A y \in T : y <= x
  <1> DEFINE R == {ss \in Nat \X Nat : ss[1] < ss[2]}
             S == {n - x : x \in T}
  <1>1. IsWellFoundedOn(R, Nat) BY Zenon, NatLessThanWellFounded DEF OpToRel
  <1>2. S \subseteq Nat /\ S # {}
    <2>1. \A x \in T : n - x \in Nat OBVIOUS
    <2>2. PICK x : x \in T OBVIOUS
    <2>3. n - x \in S BY Zenon, <2>2
    <2> QED BY Zenon, <2>1, <2>3
  <1> HIDE DEF R
  <1>3. PICK z \in S : \A y \in S : ~(<<y, z>> \in R)
    <2> HIDE DEF S
    <2> QED BY ZenonT(30), <1>1, <1>2, WFMin
  <1>4. PICK x \in T : z = n - x OBVIOUS
  <1>5. ASSUME NEW y \in T PROVE y <= x
    <2>1. n - y \in S BY Zenon
    <2>2. ~(<<n - y, z>> \in R) BY Zenon, <1>3, <2>1
    <2>3. ~(n - y < n - x) BY <1>4, <2>2 DEF R
    <2>4. n \in Nat /\ x \in 1..n /\ y \in 1..n BY Zenon
    <2> QED BY ONLY <2>3, <2>4
  <1> QED BY Zenon, <1>5

\* unmarshalExtensionHeader accepts headers with a container and takes the last, or no headers.
LEMMA Containers ==
    ASSUME NEW h \in Seq([type: STRING, content: Seq(Octet)]), UnmarshalTPDU(h).ok,
           \A n \in DOMAIN h : Len(h[n].content) >= 2
    PROVE  /\ UnmarshalTPDU(h).qfi \in 0..63 /\ UnmarshalTPDU(h).rqi \in BOOLEAN
           /\ \A n \in DOMAIN h : LastContainer(h, n) =>
                /\ UnmarshalTPDU(h).qfi = h[n].content[2] % 64
                /\ UnmarshalTPDU(h).rqi = (h[n].content[2] \div 64 % 2 = 1)
  <1> DEFINE C == {n \in DOMAIN h : h[n].type = "PDUSessionContainer"}
             last == CHOOSE n \in C : \A m \in C : m <= n
             octet == h[last].content[2]
  <1>1. CASE h = <<>>
    <2>1. UnmarshalTPDU(h) = [ok |-> TRUE, qos |-> FALSE, qfi |-> 0, rqi |-> FALSE]
      BY Zenon, <1>1 DEF UnmarshalTPDU
    <2>2. DOMAIN h = {} BY <1>1
    <2> QED BY <2>1, <2>2
  <1>2. CASE h # <<>>
    <2>1. C # {}
      <3>1. SUFFICES ASSUME C = {} PROVE FALSE OBVIOUS
      <3>2. UnmarshalTPDU(h) = [ok |-> FALSE, qos |-> FALSE, qfi |-> 0, rqi |-> FALSE]
        BY ZenonT(30), <1>2, <3>1 DEF UnmarshalTPDU
      <3> QED BY <3>2
    <2>2. UnmarshalTPDU(h) =
            [ok |-> TRUE, qos |-> TRUE, qfi |-> octet % 64, rqi |-> (octet \div 64) % 2 = 1]
      BY ZenonT(30), <1>2, <2>1 DEF UnmarshalTPDU
    <2>3. C \subseteq 1..Len(h) /\ Len(h) \in Nat OBVIOUS
    <2>4. \E n \in C : \A m \in C : m <= n
      <3> HIDE DEF C
      <3> QED BY ZenonT(30), <2>1, <2>3, Greatest
    <2>5. last \in C /\ \A m \in C : m <= last
      <3> HIDE DEF C
      <3> QED BY Zenon, <2>4
    <2>6. last \in DOMAIN h BY Zenon, <2>5
    <2>7. octet \in Octet
      <3> HIDE DEF last
      <3>1. h[last].content \in Seq(Octet)
        <4>1. h[last] \in [type: STRING, content: Seq(Octet)]
          <5> HIDE DEF last
          <5> DEFINE X == [type: STRING, content: Seq(Octet)]
          <5> HIDE DEF X
          <5>1. h \in Seq(X) BY Zenon DEF X
          <5>2. h[last] \in X BY ONLY <2>6, <5>1
          <5> QED BY Zenon, <5>2 DEF X
        <4> QED BY ONLY <4>1
      <3>2. Len(h[last].content) >= 2 BY Zenon, <2>6
      <3> QED BY ONLY <3>1, <3>2
    <2>8. ASSUME NEW n \in DOMAIN h, LastContainer(h, n) PROVE n = last
      <3>1. n \in C /\ \A m \in C : ~(m > n) BY Zenon, <2>8 DEF LastContainer
      <3>2. ~(last > n) /\ n <= last BY Zenon, <2>5, <3>1
      <3>3. last \in Nat /\ n \in Nat
        <4> HIDE DEF C, last
        <4> QED BY <2>3, <2>5, <3>1
      <3> QED BY ONLY <3>2, <3>3
    <2> HIDE DEF octet, last
    <2>9. UnmarshalTPDU(h).qfi = octet % 64 /\ UnmarshalTPDU(h).rqi = ((octet \div 64) % 2 = 1)
      BY ONLY <2>2
    <2>10. octet % 64 \in 0..63 BY ONLY <2>7 DEF Octet
    <2>11. ASSUME NEW n \in DOMAIN h, LastContainer(h, n) PROVE h[n].content[2] = octet
      BY Zenon, <2>8, <2>11 DEF octet
    <2> QED BY ZenonT(30), <2>9, <2>10, <2>11
  <1> QED BY Zenon, <1>1, <1>2

\* Unmarshal keeps the payload and the QFI of a packet with a key, and the payload of any other.
LEMMA FromUe ==
    ASSUME NEW b \in Seq(Octet), Unmarshal(b).ok
    PROVE  IF b[1] \div KeyFlag % 2 = 1
           THEN /\ GetKeyFlag(Unmarshal(b)) /\ GetQFI(Unmarshal(b)) = b[5] % 64
                /\ Unmarshal(b).payload = SubSeq(b, 9, Len(b))
           ELSE ~GetKeyFlag(Unmarshal(b)) /\ Unmarshal(b).payload = SubSeq(b, 5, Len(b))
  <1> DEFINE short == [ok |-> FALSE, flags |-> 0, key |-> 0, payload |-> <<>>]
             plain == [ok |-> TRUE, flags |-> b[1], key |-> 0, payload |-> SubSeq(b, 5, Len(b))]
             keyed == [plain EXCEPT !.key = Uint32(b, 5), !.payload = SubSeq(b, 9, Len(b))]
  <1>1. GREHeaderKeyFieldLength = 4 /\ 4 + 4 = 8 /\ 8 + 1 = 9 BY DEF GREHeaderKeyFieldLength
  <1>2. Unmarshal(b) = IF Len(b) < 4 THEN short
                       ELSE IF ~GetKeyFlag(plain) THEN plain
                       ELSE IF Len(b) < 8 THEN short
                       ELSE keyed
    BY Zenon, <1>1 DEF Unmarshal
  <1>3. GetKeyFlag(plain) <=> b[1] \div KeyFlag % 2 = 1 BY Zenon DEF GetKeyFlag
  <1>4. ~short.ok BY Zenon
  <1>5. plain.payload = SubSeq(b, 5, Len(b)) BY Zenon
  <1>6. /\ keyed.payload = SubSeq(b, 9, Len(b)) /\ keyed.key = Uint32(b, 5)
        /\ keyed.flags = plain.flags
    BY SMT
  <1> HIDE DEF short, plain, keyed
  <1>7. Len(b) >= 8 => GetQFI(keyed) = b[5] % 64
    <2> SUFFICES ASSUME Len(b) >= 8 PROVE GetQFI(keyed) = b[5] % 64 OBVIOUS
    <2>1. b[5] \in 0..255 /\ b[6] \in 0..255 /\ b[7] \in 0..255 /\ b[8] \in 0..255
      <3>1. b \in Seq(Octet) /\ Len(b) >= 8 OBVIOUS
      <3>2. b[5] \in Octet /\ b[6] \in Octet /\ b[7] \in Octet /\ b[8] \in Octet BY ONLY <3>1
      <3> QED BY Zenon, <3>2 DEF Octet
    <2>2. PICK k5, k6, k7, k8 : k5 = b[5] /\ k6 = b[6] /\ k7 = b[7] /\ k8 = b[8] OBVIOUS
    <2>5. k5 \in 0..255 /\ k6 \in 0..255 /\ k7 \in 0..255 /\ k8 \in 0..255 BY Zenon, <2>1, <2>2
    <2>3. Uint32(b, 5) = k5 * 16777216 + k6 * 65536 + k7 * 256 + k8
      BY ONLY <2>2 DEF Uint32, QFIUnit
    <2>4. (k5 * 16777216 + k6 * 65536 + k7 * 256 + k8) \div 16777216 = k5
      BY ONLY <2>5, SMTT(30)
    <2> QED BY ONLY <1>6, <2>2, <2>3, <2>4 DEF GetQFI, QFIUnit
  <1>8. GetKeyFlag(keyed) <=> GetKeyFlag(plain) BY Zenon, <1>6 DEF GetKeyFlag
  <1>9. Len(b) \in Nat OBVIOUS
  <1>10. ~(Len(b) < 8) => Len(b) >= 8 BY <1>9
  <1> QED BY ZenonT(30), <1>2, <1>3, <1>4, <1>5, <1>6, <1>7, <1>8, <1>10

\* The UPF reads the QFI that BuildQoSGTPPacket wrote.
LEMMA ToUpf ==
    ASSUME NEW qfi, NEW payload
    PROVE  /\ BuildQoSGTPPacket(qfi, payload).payload = payload
           /\ UnmarshalTPDU(BuildQoSGTPPacket(qfi, payload).headers).qfi = qfi % 64
  <1> DEFINE h == <<[type |-> "PDUSessionContainer",
                     content |-> <<UL_PDU_SESSION_INFORMATION_TYPE, qfi>>]>>
             C == {n \in DOMAIN h : h[n].type = "PDUSessionContainer"}
             last == CHOOSE n \in C : \A m \in C : m <= n
             octet == h[last].content[2]
  <1>1. BuildQoSGTPPacket(qfi, payload) = [headers |-> h, payload |-> payload]
    BY Zenon DEF BuildQoSGTPPacket
  <1>2. C = {1} /\ h # <<>> /\ h[1].content[2] = qfi OBVIOUS
  <1>3. last = 1
    <2>1. \A m \in C : m <= 1 BY <1>2
    <2>2. \A n \in C : n = 1 BY <1>2
    <2> HIDE DEF C
    <2> QED BY Zenon, <1>2, <2>1, <2>2
  <1>4. UnmarshalTPDU(h) =
          [ok |-> TRUE, qos |-> TRUE, qfi |-> octet % 64, rqi |-> (octet \div 64) % 2 = 1]
    <2>1. C # {} BY <1>2
    <2> QED BY Zenon, <1>2, <2>1 DEF UnmarshalTPDU
  <1>5. octet = qfi BY Zenon, <1>2, <1>3
  <1> HIDE DEF octet, h
  <1>6. UnmarshalTPDU(h).qfi = octet % 64 BY ONLY <1>4
  <1>7. [headers |-> h, payload |-> payload].headers = h
          /\ [headers |-> h, payload |-> payload].payload = payload
    OBVIOUS
  <1> QED BY ZenonT(30), <1>1, <1>5, <1>6, <1>7

\* What forwardUL writes says what the UE said.
LEMMA SameQoSUp ==
    ASSUME NEW o, o.dir = "ul",
           o.gtp = [raw \in {r \in Raw : Unmarshal(r).ok} |-> ToGtp(Unmarshal(raw))]
    PROVE  SameQoS(o)
  <1>1. DOMAIN o.gtp = {r \in Raw : Unmarshal(r).ok} BY Zenon
  <1>2. ASSUME NEW raw \in DOMAIN o.gtp
        PROVE  IF raw[1] \div KeyFlag % 2 = 1
               THEN /\ o.gtp[raw].payload = SubSeq(raw, 9, Len(raw))
                    /\ UnmarshalTPDU(o.gtp[raw].headers).qfi = raw[5] % 64
               ELSE o.gtp[raw].payload = SubSeq(raw, 5, Len(raw)) /\ o.gtp[raw].headers = <<>>
    <2>1. raw \in Raw /\ Unmarshal(raw).ok BY Zenon, <1>1
    <2>2. raw \in Seq(Octet) BY Zenon, <2>1, UserPlaneAssumption
    <2>3. o.gtp[raw] = ToGtp(Unmarshal(raw)) BY Zenon, <1>1, <1>2
    <2>4. PICK p : p = Unmarshal(raw) OBVIOUS
    <2>5. o.gtp[raw] = IF GetKeyFlag(p) THEN BuildQoSGTPPacket(GetQFI(p), p.payload)
                       ELSE [headers |-> <<>>, payload |-> p.payload]
      BY Zenon, <2>3, <2>4 DEF ToGtp
    <2>6. IF raw[1] \div KeyFlag % 2 = 1
          THEN GetKeyFlag(p) /\ GetQFI(p) = raw[5] % 64 /\ p.payload = SubSeq(raw, 9, Len(raw))
          ELSE ~GetKeyFlag(p) /\ p.payload = SubSeq(raw, 5, Len(raw))
      BY ZenonT(30), <2>1, <2>2, <2>4, FromUe
    <2>7. CASE raw[1] \div KeyFlag % 2 = 1
      <3>1. o.gtp[raw] = BuildQoSGTPPacket(GetQFI(p), p.payload) BY Zenon, <2>5, <2>6, <2>7
      <3>2. /\ o.gtp[raw].payload = p.payload
            /\ UnmarshalTPDU(o.gtp[raw].headers).qfi = GetQFI(p) % 64
        <4>1. PICK q, y : q = GetQFI(p) /\ y = p.payload OBVIOUS
        <4>2. /\ BuildQoSGTPPacket(q, y).payload = y
              /\ UnmarshalTPDU(BuildQoSGTPPacket(q, y).headers).qfi = q % 64
          BY ToUpf
        <4> QED BY Zenon, <3>1, <4>1, <4>2
      <3>3. Len(raw) >= 8
        <4>1. Len(raw) \in Nat BY ONLY <2>2
        <4>2. SUFFICES ASSUME Len(raw) < 8 PROVE FALSE BY <4>1
        <4> DEFINE plain == [ok |-> TRUE, flags |-> raw[1], key |-> 0, payload |-> SubSeq(raw, 5, Len(raw))]
        <4>3. GetKeyFlag(plain) BY Zenon, <2>7 DEF GetKeyFlag
        <4>4. GREHeaderKeyFieldLength = 4 /\ 4 + 4 = 8 BY DEF GREHeaderKeyFieldLength
        <4>5. Unmarshal(raw) = [ok |-> FALSE, flags |-> 0, key |-> 0, payload |-> <<>>]
          BY ZenonT(30), <4>2, <4>3, <4>4 DEF Unmarshal
        <4> QED BY ONLY <2>1, <4>5
      <3>4. raw[5] \in 0..255
        <4>1. raw[5] \in Octet BY ONLY <2>2, <3>3
        <4> QED BY Zenon, <4>1 DEF Octet
      <3>5. (raw[5] % 64) % 64 = raw[5] % 64
        <4>1. PICK x : x = raw[5] OBVIOUS
        <4>2. (x % 64) % 64 = x % 64 BY ONLY <3>4, <4>1
        <4> QED BY Zenon, <4>1, <4>2
      <3> QED BY ZenonT(30), <2>6, <2>7, <3>2, <3>5
    <2>8. CASE ~(raw[1] \div KeyFlag % 2 = 1)
      <3>1. o.gtp[raw] = [headers |-> <<>>, payload |-> p.payload] BY ZenonT(30), <2>5, <2>6, <2>8
      <3>2. o.gtp[raw].headers = <<>> /\ o.gtp[raw].payload = p.payload BY ONLY <3>1
      <3> QED BY ZenonT(30), <2>6, <2>8, <3>2
    <2> QED BY Zenon, <2>7, <2>8
  <1>3. o.dir # "dl" OBVIOUS
  <1> QED BY Zenon, <1>2, <1>3 DEF SameQoS

\* What forwardDL writes says what the UPF said.
LEMMA SameQoSDown ==
    ASSUME NEW o, o.dir = "dl",
           o.gre = [h \in {g \in Headers : UnmarshalTPDU(g).ok} |-> ToGre(UnmarshalTPDU(h))]
    PROVE  SameQoS(o)
  <1>1. DOMAIN o.gre = {g \in Headers : UnmarshalTPDU(g).ok} BY Zenon
  <1>2. ASSUME NEW h \in DOMAIN o.gre
        PROVE  LET p == Unmarshal(o.gre[h]) IN
               /\ p.ok /\ GetKeyFlag(p) /\ p.payload = Payload
               /\ \A n \in DOMAIN h : LastContainer(h, n) =>
                    /\ GetQFI(p) = h[n].content[2] % 64
                    /\ GetRQI(p) = (h[n].content[2] \div 64 % 2 = 1)
    <2>1. h \in Headers /\ UnmarshalTPDU(h).ok BY Zenon, <1>1
    <2>2. h \in Seq([type: STRING, content: Seq(Octet)]) /\ \A n \in DOMAIN h : Len(h[n].content) >= 2
      BY Zenon, <2>1, UserPlaneAssumption
    <2>3. PICK m : m = UnmarshalTPDU(h) OBVIOUS
    <2>4. m.qfi \in 0..63 /\ m.rqi \in BOOLEAN BY ZenonT(30), <2>1, <2>2, <2>3, Containers
    <2>5. o.gre[h] = Marshal(SetQoS(m.qfi, m.rqi), IPv4, Payload)
      BY ZenonT(30), <1>1, <1>2, <2>3 DEF ToGre
    <2>6. Payload \in Seq(Octet) /\ IPv4 \in Nat BY DEF Payload, Octet, IPv4
    <2>7. PICK p : p = Unmarshal(o.gre[h]) OBVIOUS
    <2>8. p.ok /\ GetKeyFlag(p) /\ GetQFI(p) = m.qfi /\ (GetRQI(p) <=> m.rqi) /\ p.payload = Payload
      <3>1. PICK qfi \in 0..63, rqi \in BOOLEAN, protocolType \in Nat, payload \in Seq(Octet) :
               qfi = m.qfi /\ rqi = m.rqi /\ protocolType = IPv4 /\ payload = Payload
        BY Zenon, <2>4, <2>6
      <3>2. p = Unmarshal(Marshal(SetQoS(qfi, rqi), protocolType, payload))
        BY Zenon, <2>5, <2>7, <3>1
      <3>3. Restored(p, qfi, rqi, payload) BY Zenon, <3>2, RoundTrip
      <3> QED BY Zenon, <3>1, <3>3 DEF Restored
    <2>9. ASSUME NEW n \in DOMAIN h, LastContainer(h, n)
          PROVE  GetQFI(p) = h[n].content[2] % 64 /\ GetRQI(p) = (h[n].content[2] \div 64 % 2 = 1)
      <3>1. m.qfi = h[n].content[2] % 64 /\ m.rqi = (h[n].content[2] \div 64 % 2 = 1)
        BY ZenonT(30), <2>1, <2>2, <2>3, <2>9, Containers
      <3>2. GetRQI(p) \in BOOLEAN BY Zenon DEF GetRQI
      <3> QED BY ZenonT(30), <2>4, <2>8, <3>1, <3>2
    <2> QED BY ZenonT(30), <2>7, <2>8, <2>9
  <1> QED BY Zenon, <1>2 DEF SameQoS

-----------------------------------------------------------------------------
(* The theorems.                                                           *)

\* The invariants hold in every reachable state.
LEMMA SafeAlways == Spec => [](AddrInv /\ SafeInv)
  <1>1. Init /\ TeidInv => SafeInv
    <2> SUFFICES ASSUME Init, TeidInv PROVE SafeInv OBVIOUS
    <2> QED BY Zenon, InitSafe DEF SafeInv
  <1>2. AddrInv /\ SafeInv /\ TeidInv' /\ [Next]_vars => SafeInv'
    <2> SUFFICES ASSUME AddrInv, SafeInv, TeidInv', [Next]_vars PROVE SafeInv' OBVIOUS
    <2> QED BY Zenon, OneMemberHolds, SafeKept
  <1> QED BY <1>1, <1>2, AddrInvAlways, TeidInvAlways, PTL DEF Spec

\* In every reachable state the maps, contexts, events and packets have their types.
THEOREM TypeCorrect == Spec => []TypeOK
  <1>1. SafeInv => TypeOK
    BY Zenon DEF SafeInv, TeidInv, Types, IkeTypes, NgapTypes, MoreTypes, PktType, TypeOK
  <1> QED BY <1>1, SafeAlways, PTL

\* A step of a loop lets no packet be written and ends no process.
LEMMA ControlSilent ==
    ASSUME IkeLoop \/ NgapLoop \/ (\E u \in Ue : Register(u)) PROVE out' = None /\ exit = "no"
  <1>1. CASE IkeLoop
    BY ZenonT(30), <1>1 DEF IkeLoop, HandleIKEAUTH, CompleteChildSA, HandleInformationalEsp,
       HandleInformationalAnswer, HandleInformationalIke, HandleCreatePDUSession,
       continueCreateChildSA, HandleSendChildSADeleteRequest, HandleIKEDeleteEvt, Quiet,
       TakeIkeEvt, IkeIdle, Up
  <1>2. CASE NgapLoop
    BY ZenonT(30), <1>2 DEF NgapLoop, HandleUEContextReleaseCommand, HandleNGReset, CreatePDUSession,
       HandlePDUSessionResourceReleaseCommand, HandlePDUSessionResourceSetupRequest,
       HandleSendPDUSessionResourceSetupResponse, HandleSendPDUSessionResourceRelease, Quiet,
       TakeNgapEvt, NgapIdle, Up
  <1>3. CASE \E u \in Ue : Register(u)
    BY Zenon, <1>3 DEF Register, Quiet, NgapIdle, IkeIdle, Up
  <1> QED BY ZenonT(30), <1>1, <1>2, <1>3

\* A step of a loop leaves exit as it is.
LEMMA ControlLives ==
    ASSUME IkeLoop \/ NgapLoop \/ (\E u \in Ue : Register(u)) PROVE exit' = exit
  <1>1. CASE IkeLoop
    BY ZenonT(30), <1>1 DEF IkeLoop, HandleIKEAUTH, CompleteChildSA, HandleInformationalEsp,
       HandleInformationalAnswer, HandleInformationalIke, HandleCreatePDUSession,
       continueCreateChildSA, HandleSendChildSADeleteRequest, HandleIKEDeleteEvt
  <1>2. CASE NgapLoop
    BY ZenonT(30), <1>2 DEF NgapLoop, HandleUEContextReleaseCommand, HandleNGReset, CreatePDUSession,
       HandlePDUSessionResourceReleaseCommand, HandlePDUSessionResourceSetupRequest,
       HandleSendPDUSessionResourceSetupResponse, HandleSendPDUSessionResourceRelease
  <1>3. CASE \E u \in Ue : Register(u) BY Zenon, <1>3 DEF Register
  <1> QED BY ZenonT(30), <1>1, <1>2, <1>3

\* The session a child SA is found to be for is listed; without a tunnel it is being set up.
LEMMA ChildSession ==
    ASSUME SafeInv, NEW u \in Ue, NEW c \in ikeUe[u].child, SessionOf(u, c) # None
    PROVE  /\ c.session \in Session /\ c.teid \in Teid /\ HasChild(u, c.session, c.teid)
           /\ SessionOf(u, c).teid \in Teid \cup {None}
           /\ Lists(u, c.session, SessionOf(u, c).teid) /\ c.session \in Active(u)
           /\ SessionOf(u, c).teid = None => hist.again
  <1>t. ikeUe \in [Ue -> IkeUe] /\ ranUe \in [Ue -> RanUe]
    BY Zenon DEF SafeInv, TeidInv, Types, IkeTypes, NgapTypes
  <1>1. c \in ChildSA
    <2>1. ikeUe[u] \in IkeUe BY Zenon, <1>t
    <2>2. ikeUe[u].child \subseteq ChildSA BY ONLY <2>1 DEF IkeUe
    <2> QED BY Zenon, <2>2
  <1>2. c.session # None /\ SessionOf(u, c) = ranUe[u].PduSessionList[c.session]
    BY Zenon DEF SessionOf
  <1>3. c.session \in Session
    <2>1. c.session \in Session \cup {None} BY ONLY <1>1 DEF ChildSA
    <2> QED BY ZenonT(30), <1>2, <2>1
  <1>4. c.teid \in Teid
    <2>1. c.teid \in Teid \cup {None} BY ONLY <1>1 DEF ChildSA
    <2>2. c.teid # None BY Zenon, <1>2 DEF SafeInv, CoreInv, IkeInv, Unruled
    <2> QED BY Zenon, <2>1, <2>2
  <1>5. ranUe[u].PduSessionList[c.session] \in PDUSession
    <2>1. ranUe[u] \in RanUe BY Zenon, <1>t
    <2>2. ranUe[u].PduSessionList \in [Session -> PDUSession \cup {None}] BY ONLY <2>1 DEF RanUe
    <2> QED BY Zenon, <1>2, <1>3, <2>2
  <1>6. PICK x \in Teid \cup {None} : ranUe[u].PduSessionList[c.session] = [teid |-> x]
    BY ONLY <1>5 DEF PDUSession
  <1>7. SessionOf(u, c).teid = x
    <2>1. [teid |-> x].teid = x OBVIOUS
    <2> QED BY ZenonT(30), <1>2, <1>6, <2>1
  <1>8. Lists(u, c.session, x) BY Zenon, <1>6 DEF Lists
  <1>9. HasChild(u, c.session, c.teid) BY Zenon DEF HasChild
  <1>10. c.session \in Active(u) BY Zenon, <1>2, <1>3 DEF Active
  <1>11. x = None => hist.again
    <2>1. SUFFICES ASSUME x = None, ~hist.again PROVE FALSE BY Zenon
    <2>2. Pending(u, c.session)
      BY ZenonT(30), <1>3, <1>8, <2>1 DEF SafeInv, CoreInv, OwnInv, TeidPending
    <2>3. Part(u, c.session, c.teid) BY Zenon, <1>9 DEF Part
    <2>4. PendingFresh BY Zenon DEF SafeInv, CoreInv, OwnInv
    <2> QED BY ZenonT(30), <1>3, <1>4, <2>1, <2>2, <2>3, <2>4 DEF PendingFresh
  <1> QED BY ZenonT(30), <1>3, <1>4, <1>6, <1>7, <1>8, <1>9, <1>10, <1>11

\* A child SA that a downlink packet is matched with has its interface unless an identifier was
\* used again.
LEMMA MatchHasIface ==
    ASSUME SafeInv, pkt # None, pkt.at = "dl", NEW c \in ForTeid(pkt.found, pkt.teid), c.iface = None
    PROVE  hist.again \/ hist.reused
  <1>1. pkt \in Downlink
    <2>1. pkt \in Uplink \cup Downlink BY Zenon DEF SafeInv, PktType
    <2>2. pkt \notin Uplink
      <3>1. ASSUME pkt \in Uplink PROVE pkt.at \in {"ran", "ul"} BY ONLY <3>1 DEF Uplink
      <3>2. pkt.at \notin {"ran", "ul"} OBVIOUS
      <3> QED BY Zenon, <3>1, <3>2
    <2> QED BY Zenon, <2>1, <2>2
  <1>2. pkt.found \in Ue /\ pkt.teid \in Teid BY ONLY <1>1 DEF Downlink
  <1>3. PICK u \in Ue, t \in Teid : u = pkt.found /\ t = pkt.teid BY Zenon, <1>2
  <1>4. c \in ikeUe[u].child /\ SessionOf(u, c) # None /\ SessionOf(u, c).teid = t
    BY Zenon, <1>3 DEF ForTeid, WithSession
  <1>5. /\ c.session \in Session /\ c.teid \in Teid /\ HasChild(u, c.session, c.teid)
        /\ Lists(u, c.session, t)
    BY Zenon, <1>4, ChildSession
  <1>6. SUFFICES ASSUME ~hist.again, ~hist.reused PROVE FALSE BY Zenon
  <1>7. c.teid = t
    <2>1. SessionTeid BY Zenon DEF SafeInv, CoreInv, OwnInv
    <2>2. Part(u, c.session, c.teid) BY Zenon, <1>5 DEF Part
    <2> QED BY ZenonT(30), <1>5, <1>6, <2>1, <2>2 DEF SessionTeid
  <1>8. c = Bare(c.session, t)
    <2>1. c.session # None
      BY Zenon, <1>4 DEF SessionOf
    <2>2. ~c.rules BY Zenon, <1>4, <2>1 DEF SafeInv, CoreInv, IkeInv, Unruled
    <2>3. c \in ChildSA
      <3>1. ikeUe[u] \in IkeUe BY Zenon DEF SafeInv, TeidInv, Types, IkeTypes
      <3>2. ikeUe[u].child \subseteq ChildSA BY ONLY <3>1 DEF IkeUe
      <3> QED BY Zenon, <1>4, <3>2
    <2>4. c.iface = None OBVIOUS
    <2> QED BY ONLY <1>7, <2>2, <2>3, <2>4 DEF ChildSA, Bare
  <1>9. Open(u, c.session, t) BY Zenon, <1>4, <1>8 DEF Open
  <1>10. Downward(u, t)
    <2>1. pkt.at \in {"ike", "dl"} OBVIOUS
    <2> QED BY Zenon, <1>3, <2>1 DEF Downward
  <1>11. DownlinkOpen BY Zenon DEF SafeInv, CoreInv, UpfInv
  <1> QED BY ZenonT(30), <1>5, <1>6, <1>9, <1>10, <1>11 DEF DownlinkOpen

\* In every reachable state of every instance, forwarding has ended the process only after a
\* session ID or a TEID was used again: forwardUL and forwardDL dereference neither the missing
\* GTPConnInfo of a session nor the missing XfrmIface of a child SA before that.
THEOREM ExitsOnlyOnReuse == Spec => []ExitOnlyOnReuse
  <1>1. Init => ExitOnlyOnReuse
    <2> SUFFICES ASSUME Init PROVE ExitOnlyOnReuse OBVIOUS
    <2>1. exit = "no" BY Zenon DEF Init
    <2> QED BY <2>1 DEF ExitOnlyOnReuse
  <1>2. SafeInv /\ ExitOnlyOnReuse /\ [Next]_vars => ExitOnlyOnReuse'
    <2> SUFFICES ASSUME SafeInv, ExitOnlyOnReuse, [Next]_vars PROVE ExitOnlyOnReuse' OBVIOUS
    <2>1. CASE exit' = "no" BY <2>1 DEF ExitOnlyOnReuse
    <2>2. CASE UNCHANGED <<exit, hist>> BY Zenon, <2>2 DEF ExitOnlyOnReuse
    <2>3. CASE IkeLoop \/ NgapLoop \/ \E u \in Ue : Register(u)
      BY ZenonT(30), <2>1, <2>3, ControlSilent, ControlLives
    <2>4. CASE UNCHANGED vars BY Zenon, <2>2, <2>4 DEF vars
    <2>5. CASE UserPlaneStep
      <3>1. hist' = hist
        BY Zenon, <2>5 DEF UserPlaneStep, greListenAndServe, handleQoSTPDU, forwardUL_ran, forwardUL,
           forwardDL_ike, forwardDL, At
      <3>2. CASE exit' = exit BY ZenonT(30), <2>2, <3>1, <3>2
      <3>3. CASE forwardUL
        <4>1. ASSUME NEW c \in FromIface(pkt.found, pkt.iface), SessionOf(pkt.found, c) # None,
                     SessionOf(pkt.found, c).teid = None, exit' = "session"
              PROVE  ExitOnlyOnReuse'
          <5>1. pkt # None /\ pkt.at = "ul" BY Zenon, <3>3 DEF forwardUL, At
          <5>2. pkt.found \in Ue
            <6>1. pkt \in Uplink \cup Downlink BY Zenon, <5>1 DEF SafeInv, PktType
            <6> QED BY ONLY <6>1 DEF Uplink, Downlink
          <5>3. c \in ikeUe[pkt.found].child BY Zenon DEF FromIface
          <5>4. hist.again BY ZenonT(30), <4>1, <5>2, <5>3, ChildSession
          <5>5. exit' # "iface" BY <4>1
          <5> QED BY ZenonT(30), <3>1, <5>4, <5>5 DEF ExitOnlyOnReuse
        <4> QED BY ZenonT(30), <3>2, <3>3, <4>1 DEF forwardUL, Go
      <3>4. CASE forwardDL
        <4>1. pkt # None /\ pkt.at = "dl" BY Zenon, <3>4 DEF forwardDL, At
        <4>2. pkt.found \in Ue
          <5>1. pkt \in Uplink \cup Downlink BY Zenon, <4>1 DEF SafeInv, PktType
          <5> QED BY ONLY <5>1 DEF Uplink, Downlink
        <4>3. ASSUME NEW c \in ForTeid(pkt.found, None), exit' = "session" PROVE ExitOnlyOnReuse'
          <5>1. /\ c \in ikeUe[pkt.found].child /\ SessionOf(pkt.found, c) # None
                /\ SessionOf(pkt.found, c).teid = None
            BY Zenon DEF ForTeid, WithSession
          <5>2. hist.again BY ZenonT(30), <4>2, <5>1, ChildSession
          <5>3. exit' # "iface" BY <4>3
          <5> QED BY ZenonT(30), <3>1, <5>2, <5>3 DEF ExitOnlyOnReuse
        <4>4. ASSUME NEW c \in ForTeid(pkt.found, pkt.teid), c.iface = None, exit' = "iface"
              PROVE  ExitOnlyOnReuse'
          <5>1. hist.again \/ hist.reused BY ZenonT(30), <4>1, <4>4, MatchHasIface
          <5>2. exit' # "session" BY <4>4
          <5> QED BY ZenonT(30), <3>1, <5>1, <5>2 DEF ExitOnlyOnReuse
        <4>5. CASE ForTeid(pkt.found, None) # {} /\ exit' = "session"
          <5>1. PICK c : c \in ForTeid(pkt.found, None) BY <4>5
          <5> QED BY ZenonT(30), <4>3, <4>5, <5>1
        <4> QED BY ZenonT(30), <3>2, <3>4, <4>4, <4>5 DEF forwardDL, Go
      <3> QED BY ZenonT(30), <2>5, <3>2, <3>3, <3>4 DEF UserPlaneStep, greListenAndServe, handleQoSTPDU,
                 forwardUL_ran, forwardDL_ike, Go
    <2> QED BY ZenonT(30), <2>3, <2>4, <2>5 DEF Next
  <1> QED BY <1>1, <1>2, SafeAlways, PTL DEF Spec

\* The child SA an uplink packet is matched with is one of its UE, for the session it came
\* through: the interface of a session other than the first is its own, and the first session
\* that uses the default interface is alone there unless a session ID was used again.
LEMMA UplinkOwned ==
    ASSUME SafeInv, pkt # None, pkt.at = "ul", NEW c \in FromIface(pkt.found, pkt.iface),
           SessionOf(pkt.found, c) # None, LiveUe(pkt.ue), ~hist.twice
    PROVE  /\ pkt.found = pkt.ue
           /\ pkt.session \in Active(pkt.ue) /\ ~hist.again => c.session = pkt.session
  <1>1. pkt \in Uplink
    <2>1. pkt \in Uplink \cup Downlink BY Zenon DEF SafeInv, PktType
    <2>2. pkt \notin Downlink
      <3>1. ASSUME pkt \in Downlink PROVE pkt.at \in {"ike", "dl"} BY ONLY <3>1 DEF Downlink
      <3>2. pkt.at \notin {"ike", "dl"} OBVIOUS
      <3> QED BY Zenon, <3>1, <3>2
    <2> QED BY Zenon, <2>1, <2>2
  <1>2. pkt.ue \in Ue /\ pkt.session \in Session BY ONLY <1>1 DEF Uplink
  <1>3. PICK u \in Ue, s \in Session : u = pkt.ue /\ s = pkt.session BY Zenon, <1>2
  <1>4. InUplink(u, s)
    <2>1. pkt.at \in {"ran", "ul"} OBVIOUS
    <2> QED BY Zenon, <1>3, <2>1 DEF InUplink
  <1>5. UplinkFits BY Zenon DEF SafeInv, CoreInv, FwdInv
  <1>6. /\ pkt.found = u
        /\ \A d \in ikeUe[u].child : d.iface = pkt.iface /\ d.iface # 0 => d.session = s
    BY ZenonT(30), <1>3, <1>4, <1>5 DEF UplinkFits
  <1>7. c \in ikeUe[u].child /\ c.iface = pkt.iface BY Zenon, <1>6 DEF FromIface
  <1>8. c.session \in Session /\ c.session \in Active(u) BY ZenonT(30), <1>6, <1>7, ChildSession
  <1>9. ASSUME s \in Active(u), ~hist.again, c.iface = 0 PROVE c.session = s
    <2>1. First(u, c.session) BY Zenon, <1>7, <1>9 DEF First
    <2>2. First(u, s) BY ZenonT(30), <1>4, <1>7, <1>9 DEF First
    <2>3. u \in RANUePool BY Zenon, <1>3 DEF LiveUe
    <2>4. {c.session, s} \subseteq Active(u) BY Zenon, <1>8, <1>9
    <2>5. OneFirst BY Zenon DEF SafeInv, CoreInv, FwdInv
    <2> QED BY ZenonT(30), <1>8, <1>9, <2>1, <2>2, <2>3, <2>4, <2>5 DEF OneFirst
  <1> QED BY ZenonT(30), <1>3, <1>6, <1>7, <1>9

\* The child SA a downlink packet is matched with is one of its UE, for its session, and the
\* packet goes to the address registered for that UE.
LEMMA DownlinkOwned ==
    ASSUME AddrInv, SafeInv, pkt # None, pkt.at = "dl", NEW c \in ForTeid(pkt.found, pkt.teid),
           LiveUe(pkt.ue), ~hist.twice
    PROVE  /\ pkt.found = pkt.ue /\ c.session = pkt.session
           /\ AllocatedUEIPAddress[pkt.ip] = pkt.ue
  <1>1. pkt \in Downlink
    <2>1. pkt \in Uplink \cup Downlink BY Zenon DEF SafeInv, PktType
    <2>2. pkt \notin Uplink
      <3>1. ASSUME pkt \in Uplink PROVE pkt.at \in {"ran", "ul"} BY ONLY <3>1 DEF Uplink
      <3>2. pkt.at \notin {"ran", "ul"} OBVIOUS
      <3> QED BY ZenonT(30), <3>1, <3>2
    <2> QED BY Zenon, <2>1, <2>2
  <1>2. pkt.ue \in Ue /\ pkt.session \in Session /\ pkt.teid \in Teid BY ONLY <1>1 DEF Downlink
  <1>3. PICK u \in Ue, s \in Session, t \in Teid : u = pkt.ue /\ s = pkt.session /\ t = pkt.teid
    BY Zenon, <1>2
  <1>4. InDownlink(u, s, t)
    <2>1. pkt.at \in {"ike", "dl"} OBVIOUS
    <2> QED BY ZenonT(30), <1>3, <2>1 DEF InDownlink
  <1>5. pkt.found = u /\ pkt.ip = ikeUe[u].IPSecInnerIP
    <2>1. DownlinkFits BY Zenon DEF SafeInv, CoreInv, FwdInv
    <2> QED BY ZenonT(30), <1>3, <1>4, <2>1 DEF DownlinkFits
  <1>6. c \in ikeUe[u].child /\ SessionOf(u, c) # None /\ SessionOf(u, c).teid = t
    BY ZenonT(30), <1>3, <1>5 DEF ForTeid, WithSession
  <1>7. c.session \in Session /\ Lists(u, c.session, t) BY ZenonT(30), <1>6, ChildSession
  <1>8. Holder(u, s, t) BY Zenon, <1>4 DEF Holder
  <1>9. u \in RANUePool /\ ikeUe[u].sa BY Zenon, <1>3 DEF LiveUe
  <1>10. c.session = s
    <2>1. HoldersOwn BY Zenon DEF SafeInv, CoreInv, OwnInv
    <2> QED BY Zenon, <1>7, <1>8, <1>9, <2>1 DEF HoldersOwn
  <1>11. ikeUe[u].IPSecInnerIP # None
    <2>1. ikeUe[u].auth \in {"done", "gone"}
      BY Zenon, <1>8 DEF SafeInv, CoreInv, IkeInv, HoldersKnown
    <2>2. Addressed BY Zenon DEF SafeInv, CoreInv, IkeInv
    <2> QED BY ZenonT(30), <1>9, <2>1, <2>2 DEF Addressed
  <1>12. AllocatedUEIPAddress[ikeUe[u].IPSecInnerIP] = u
    BY ZenonT(30), <1>9, <1>11 DEF AddrInv, AddressOwned
  <1> QED BY ZenonT(30), <1>3, <1>5, <1>10, <1>12

\* In every reachable state of every instance, as long as both contexts of a UE are there and no
\* UE was removed twice, an uplink packet is sent in the tunnel of the session it came through
\* and a downlink packet to the address registered for its UE; QFI, RQI and payload are what they
\* were before (forwardUL, forwardDL).
THEOREM ForwardedToOwnerAlways == Spec => []ForwardedToOwner
  <1>1. Init => ForwardedToOwner
    <2> SUFFICES ASSUME Init PROVE ForwardedToOwner OBVIOUS
    <2>1. out = None BY Zenon DEF Init
    <2> QED BY Zenon, <2>1 DEF ForwardedToOwner
  <1>2. AddrInv /\ SafeInv /\ ForwardedToOwner /\ [Next]_vars => ForwardedToOwner'
    <2> SUFFICES ASSUME AddrInv, SafeInv, ForwardedToOwner, [Next]_vars PROVE ForwardedToOwner'
      OBVIOUS
    <2>1. CASE out' = None BY Zenon, <2>1 DEF ForwardedToOwner
    <2>2. CASE UNCHANGED vars
      <3>1. UNCHANGED <<out, hist, RANUePool, ikeUe, ranUe, AllocatedUEIPAddress>>
        BY Zenon, <2>2 DEF vars, ikeVars, ngapVars
      <3> QED BY Zenon, <3>1 DEF ForwardedToOwner, LiveUe, Active
    <2>3. CASE IkeLoop \/ NgapLoop \/ \E u \in Ue : Register(u)
      BY ZenonT(30), <2>1, <2>3, ControlSilent
    <2>4. CASE forwardUL
      <3>1. pkt # None /\ pkt.at = "ul" /\ UNCHANGED <<ikeVars, ngapVars, hist>>
        BY Zenon, <2>4 DEF forwardUL, At
      <3>2. ASSUME NEW c \in FromIface(pkt.found, pkt.iface), SessionOf(pkt.found, c) # None,
                   out' = [dir |-> "ul", ue |-> pkt.ue, sent |-> pkt.session, of |-> pkt.found,
                           session |-> c.session,
                           gtp |-> [raw \in {r \in Raw : Unmarshal(r).ok} |-> ToGtp(Unmarshal(raw))]]
            PROVE  ForwardedToOwner'
        <4>1. PICK g : g = [raw \in {r \in Raw : Unmarshal(r).ok} |-> ToGtp(Unmarshal(raw))] BY Zenon
        <4>2. PICK o, u, s, f : o = out' /\ u = pkt.ue /\ s = pkt.session /\ f = pkt.found OBVIOUS
        <4>3. o = [dir |-> "ul", ue |-> u, sent |-> s, of |-> f, session |-> c.session, gtp |-> g]
          BY ZenonT(30), <3>2, <4>1, <4>2
        <4>4. /\ o.dir = "ul" /\ o.ue = u /\ o.sent = s /\ o.of = f /\ o.session = c.session
              /\ o.gtp = g
          BY ONLY <4>3
        <4>5. SameQoS(o) BY ZenonT(30), <4>1, <4>4, SameQoSUp
        <4>6. LiveUe(u) /\ ~hist.twice =>
                f = u /\ (s \in Active(u) /\ ~hist.again => c.session = s)
          BY ZenonT(30), <3>1, <3>2, <4>2, UplinkOwned
        <4>7. o.dir # "dl" BY <4>4
        <4>8. UNCHANGED <<ikeUe, RANUePool, ranUe>> BY Zenon, <3>1 DEF ikeVars, ngapVars
        <4>9. (LiveUe(u)' <=> LiveUe(u)) /\ Active(u)' = Active(u)
          BY Zenon, <4>8 DEF LiveUe, Active
        <4> QED BY ZenonT(30), <3>1, <4>2, <4>4, <4>5, <4>6, <4>7, <4>9 DEF ForwardedToOwner
      <3> QED BY ZenonT(30), <2>1, <2>4, <3>2 DEF forwardUL, Go
    <2>5. CASE forwardDL
      <3>1. pkt # None /\ pkt.at = "dl" /\ UNCHANGED <<ikeVars, ngapVars, hist>>
        BY Zenon, <2>5 DEF forwardDL, At
      <3>2. ASSUME NEW c \in ForTeid(pkt.found, pkt.teid),
                   out' = [dir |-> "dl", ue |-> pkt.ue, sent |-> pkt.session, of |-> pkt.found,
                           session |-> c.session, ip |-> pkt.ip,
                           gre |-> [h \in {g \in Headers : UnmarshalTPDU(g).ok} |-> ToGre(UnmarshalTPDU(h))]]
            PROVE  ForwardedToOwner'
        <4>1. PICK m : m = [h \in {g \in Headers : UnmarshalTPDU(g).ok} |-> ToGre(UnmarshalTPDU(h))]
          BY Zenon
        <4>2. PICK o, u, s, f, a : /\ o = out' /\ u = pkt.ue /\ s = pkt.session
                                   /\ f = pkt.found /\ a = pkt.ip
          OBVIOUS
        <4>3. o = [dir |-> "dl", ue |-> u, sent |-> s, of |-> f, session |-> c.session, ip |-> a,
                   gre |-> m]
          BY ZenonT(30), <3>2, <4>1, <4>2
        <4>4. /\ o.dir = "dl" /\ o.ue = u /\ o.sent = s /\ o.of = f /\ o.session = c.session
              /\ o.ip = a /\ o.gre = m
          BY ONLY <4>3
        <4>5. SameQoS(o) BY ZenonT(30), <4>1, <4>4, SameQoSDown
        <4>6. LiveUe(u) /\ ~hist.twice => f = u /\ c.session = s /\ AllocatedUEIPAddress[a] = u
          BY ZenonT(30), <3>1, <3>2, <4>2, DownlinkOwned
        <4>8. UNCHANGED <<ikeUe, RANUePool, AllocatedUEIPAddress>>
          BY Zenon, <3>1 DEF ikeVars, ngapVars
        <4>9. LiveUe(u)' <=> LiveUe(u) BY Zenon, <4>8 DEF LiveUe
        <4> QED BY ZenonT(30), <3>1, <4>2, <4>4, <4>5, <4>6, <4>8, <4>9 DEF ForwardedToOwner
      <3> QED BY ZenonT(30), <2>1, <2>5, <3>2 DEF forwardDL, Go
    <2> QED BY ZenonT(30), <2>1, <2>2, <2>3, <2>4, <2>5 DEF Next, UserPlaneStep, greListenAndServe,
               handleQoSTPDU, forwardUL_ran, forwardDL_ike, Go
  <1> QED BY <1>1, <1>2, SafeAlways, PTL DEF Spec
=============================================================================
