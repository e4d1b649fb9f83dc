--------------------------- MODULE SessionProofs ---------------------------
(***************************************************************************)
(* Proofs about sessions, for any number of connections, any keys and      *)
(* set-ups, any number of payloads and whatever the radio repeats.         *)
(***************************************************************************)
EXTENDS Session, HandshakeProofs

(* A payload on the air is the one its end wrote at that count.            *)
Signed ==
  \A f \in payloads : /\ f.counter < Len(wrote[f.key])
                      /\ f.data = wrote[f.key][f.counter + 1]

(* Only ends that are through with the handshake write and read ...        *)
OnlyEstablished ==
  \A e \in Ends : ~Established(e) => wrote[e] = <<>> /\ read[e] = <<>>

(* ... and what they read was written under the key they verify with.      *)
ReadsPeer ==
  \A e \in Ends : Established(e) => IsStart(read[e], wrote[PeerKey(e)])

SessionInv == SessionTypeOK /\ Signed /\ OnlyEstablished /\ ReadsPeer

Values == Data \cup {Keepalive}

-----------------------------------------------------------------------------
(* The handshake does not depend on the sessions.                          *)
LEMMA IncludesHandshake == SessionSpec => Spec
<1>1. SessionInit => Init
  BY DEF SessionInit
<1>2. [SessionNext]_allVars => [Next]_vars
  BY DEF SessionNext, allVars, Write, Read, RefuseFrame
<1>. QED
  BY <1>1, <1>2, PTL DEF SessionSpec, Spec

(* An end is a client's or a server's of some connection.                  *)
LEMMA EndForms ==
  /\ \A e \in Ends : /\ e[2] \in Conns
                     /\ \/ e[1] = "client" /\ e = ClientPacketKey(e[2])
                        \/ e[1] = "server" /\ e = ServerPacketKey(e[2])
  /\ \A c \in Conns : /\ ClientPacketKey(c) \in Ends /\ ServerPacketKey(c) \in Ends
                      /\ ClientPacketKey(c)[1] = "client" /\ ClientPacketKey(c)[2] = c
                      /\ ServerPacketKey(c)[1] = "server" /\ ServerPacketKey(c)[2] = c
BY DEF Ends, PacketKeys, ClientPacketKey, ServerPacketKey

(* A server past the loop holds the ClientHello it accepted.               *)
ServerHolds == \A s \in Conns : sPc[s] \in {"flush", "done"} => sSeen[s] # NoFrame

(* What moves a server's task, and a client's.                             *)
LEMMA ServerPcChanges ==
  ASSUME [Next]_vars
  PROVE  \/ sPc' = sPc
         \/ \E d \in Conns : ServerAccepts(d) \/ ServerStart(d) \/ ServerFlushes(d)
         \/ \E d \in Conns : \E why : /\ ServerFails(d, why)
                                      /\ sPc[d] \in {"hello", "flush"}
BY DEF Next, vars, ServerTask, ClientTask, User, Timers, Hangups, Radio,
       clientVars, serverVars, netVars, ServerWaits,
       ServerAnswersKeyRequest, ServerRefuses, ServerRejectsFrame,
       ClientKnowsServer, ClientRefusesServer, ClientRequestsKey,
       ClientReadsKey, ClientCompletes, ClientRejectsFrame, UserAccepts,
       UserDeclines, ServerTimeout, ClientTimeout, ServerHangup,
       ClientHangup, LoseToServer, LoseToClient, StrayToServer, StrayToClient

LEMMA ClientPcChanges ==
  ASSUME [Next]_vars
  PROVE  \/ cPc' = cPc
         \/ \E d \in Conns : \E pc : /\ cPc' = [cPc EXCEPT ![d] = pc]
                                     /\ cPc[d] \in ClientReading \cup {"prompt"}
BY DEF Next, vars, ServerTask, ClientTask, User, Timers, Hangups, Radio,
       clientVars, serverVars, netVars, ClientReading, ClientFails,
       SendClientHello, ClientTimed, ServerStart, ServerAccepts, ServerFlushes,
       ServerAnswersKeyRequest, ServerRefuses, ServerRejectsFrame,
       ClientKnowsServer, ClientRefusesServer, ClientRequestsKey,
       ClientReadsKey, ClientCompletes, ClientRejectsFrame, UserAccepts,
       UserDeclines, ServerTimeout, ClientTimeout, ServerHangup,
       ClientHangup, LoseToServer, LoseToClient, StrayToServer, StrayToClient

LEMMA ServerHoldsStep ==
  ASSUME Inv, ServerHolds, [Next]_vars
  PROVE  ServerHolds'
<1>0. TypeInv /\ TypeOK
  BY DEF Inv, TypeInv
<1>. SUFFICES ASSUME NEW s \in Conns, sPc'[s] \in {"flush", "done"}
              PROVE  sSeen'[s] # NoFrame
  BY DEF ServerHolds
<1>1. CASE sPc[s] \in {"flush", "done"}
  BY <1>0, <1>1, Kept DEF ServerHolds
<1>2. CASE sPc[s] \notin {"flush", "done"}
  <2>1. ASSUME NEW d \in Conns, ServerAccepts(d)
        PROVE  sSeen'[s] # NoFrame
    <3>1. Head(toServer[d]) \in Frames /\ Head(toServer[d]).type \in {"ClientHello"}
      BY <1>0, <2>1, ReadByServer DEF ServerAccepts
    <3>2. Head(toServer[d]) # NoFrame
      BY <3>1 DEF NoFrame
    <3>3. /\ sSeen' = [sSeen EXCEPT ![d] = Head(toServer[d])]
          /\ sPc' = [sPc EXCEPT ![d] = "flush"]
      BY <2>1 DEF ServerAccepts
    <3>4. d = s
      BY <1>0, <1>2, <3>3 DEF TypeOK
    <3>. QED
      BY <1>0, <3>2, <3>3, <3>4 DEF TypeOK
  <2>2. ASSUME NEW d \in Conns, ServerStart(d)
        PROVE  FALSE
    BY <1>0, <1>2, <2>2 DEF ServerStart, TypeOK
  <2>3. ASSUME NEW d \in Conns, ServerFlushes(d)
        PROVE  FALSE
    BY <1>0, <1>2, <2>3 DEF ServerFlushes, TypeOK
  <2>4. ASSUME NEW d \in Conns, NEW why, ServerFails(d, why)
        PROVE  FALSE
    BY <1>0, <1>2, <2>4 DEF ServerFails, TypeOK
  <2>5. \/ sPc' = sPc
        \/ \E d \in Conns : ServerAccepts(d) \/ ServerStart(d) \/ ServerFlushes(d)
        \/ \E d \in Conns : \E why : ServerFails(d, why)
    BY ServerPcChanges
  <2>. QED
    BY <1>2, <2>1, <2>2, <2>3, <2>4, <2>5
<1>. QED
  BY <1>1, <1>2

(* An established end holds the other's hello, and so its packet key.       *)
KeysKnown == \A e \in Ends : Established(e) => PeerKey(e) \in Ends

LEMMA PeerKeyIsEnd == TypeInv /\ ServerHolds => KeysKnown
<1>. SUFFICES ASSUME TypeInv, ServerHolds, NEW e \in Ends, Established(e)
              PROVE  PeerKey(e) \in Ends
  BY DEF KeysKnown
<1>0. TypeOK /\ ClientProgress /\ e[2] \in Conns
  BY EndForms DEF TypeInv
<1>1. e[1] = "client" => cHello[e[2]] \in ServerHellos
  BY <1>0 DEF Established, ClientProgress, TypeOK
<1>2. e[1] # "client" => sSeen[e[2]] \in ClientHellos
  BY <1>0 DEF Established, ServerHolds, TypeOK
<1>3. \A m \in ServerHellos : m.packetKey \in Ends
  BY DEF ServerHellos, Ends
<1>4. \A m \in ClientHellos : m.body.packetKey \in Ends
  BY DEF ClientHellos, ClientBodies, Ends
<1>. QED
  BY <1>1, <1>2, <1>3, <1>4 DEF PeerKey

(* An established end stays so, with the same key to verify with.           *)
LEMMA EstablishedStays ==
  ASSUME TypeInv, ServerHolds, [Next]_vars, NEW e \in Ends, Established(e)
  PROVE  Established(e)' /\ PeerKey(e)' = PeerKey(e)
<1>0. TypeOK /\ ClientProgress /\ e[2] \in Conns
  BY EndForms DEF TypeInv
<1>1. CASE e[1] = "client"
  <2>1. cPc[e[2]] = "done"
    BY <1>1 DEF Established
  <2>2. cPc'[e[2]] = "done"
    BY <1>0, <2>1, ClientPcChanges DEF TypeOK, ClientReading
  <2>3. cHello'[e[2]] = cHello[e[2]]
    BY <1>0, <2>1, Kept DEF ClientProgress
  <2>. QED
    BY <1>1, <2>2, <2>3 DEF Established, PeerKey
<1>2. CASE e[1] # "client"
  <2>1. sPc[e[2]] = "done"
    BY <1>2 DEF Established
  <2>2. sPc'[e[2]] = "done"
    <3>1. ASSUME NEW d \in Conns, ServerAccepts(d) \/ ServerStart(d) \/ ServerFlushes(d)
          PROVE  sPc'[e[2]] = "done"
      BY <1>0, <2>1, <3>1 DEF ServerAccepts, ServerStart, ServerFlushes, TypeOK
    <3>2. ASSUME NEW d \in Conns, NEW why, ServerFails(d, why),
                 sPc[d] \in {"hello", "flush"}
          PROVE  sPc'[e[2]] = "done"
      BY <1>0, <2>1, <3>2 DEF ServerFails, TypeOK
    <3>. QED
      BY <2>1, <3>1, <3>2, ServerPcChanges
  <2>3. sSeen'[e[2]] = sSeen[e[2]]
    BY <1>0, <2>1, Kept DEF ServerHolds
  <2>. QED
    BY <1>2, <2>2, <2>3 DEF Established, PeerKey
<1>. QED
  BY <1>1, <1>2

-----------------------------------------------------------------------------
LEMMA SessionInvInit == SessionInit => SessionInv
<1>. SUFFICES ASSUME SessionInit PROVE SessionInv
  OBVIOUS
<1>1. SessionTypeOK
  BY PayloadAssumption DEF SessionInit, SessionTypeOK
<1>2. Signed /\ OnlyEstablished
  BY DEF SessionInit, Signed, OnlyEstablished
<1>3. ReadsPeer
  BY DEF SessionInit, Init, ReadsPeer, Established, Ends, PacketKeys
<1>. QED
  BY <1>1, <1>2, <1>3 DEF SessionInv

(* Steps of the handshake leave the sessions alone.                         *)
LEMMA HandshakeStep ==
  ASSUME TypeInv, TypeInv', ServerHolds, ServerHolds', SessionInv,
         [Next]_vars, UNCHANGED sessionVars
  PROVE  SessionInv'
<1>0. SessionTypeOK /\ Signed /\ OnlyEstablished /\ ReadsPeer
  BY DEF SessionInv
<1>1. SessionTypeOK' /\ Signed'
  BY <1>0 DEF SessionTypeOK, Signed, sessionVars
<1>2. OnlyEstablished'
  BY <1>0, EstablishedStays DEF OnlyEstablished, sessionVars
<1>3. ReadsPeer'
  <2>. SUFFICES ASSUME NEW e \in Ends, Established(e)'
                PROVE  IsStart(read[e], wrote[PeerKey(e)'])
    BY DEF ReadsPeer, sessionVars, IsStart
  <2>1. CASE Established(e)
    BY <1>0, <2>1, EstablishedStays DEF ReadsPeer
  <2>2. CASE ~Established(e)
    <3>1. read[e] = <<>>
      BY <1>0, <2>2 DEF OnlyEstablished
    <3>2. PeerKey(e)' \in Ends
      <4>1. KeysKnown'
        BY PeerKeyIsEnd, PTL
      <4>. QED
        BY <4>1 DEF KeysKnown
    <3>3. wrote[PeerKey(e)'] \in Seq(Values)
      BY <1>0, <3>2 DEF SessionTypeOK, Values
    <3>. QED
      BY <3>1, <3>3 DEF IsStart
  <2>. QED
    BY <2>1, <2>2
<1>. QED
  BY <1>1, <1>2, <1>3 DEF SessionInv

(* A session's own steps leave the handshake alone.                         *)
LEMMA SameEnds ==
  ASSUME UNCHANGED vars
  PROVE  \A e \in Ends : Established(e)' = Established(e) /\ PeerKey(e)' = PeerKey(e)
BY DEF vars, clientVars, serverVars, Established, PeerKey

(* Appending to a sequence keeps what it started with.                      *)
LEMMA Appended ==
  ASSUME NEW S, NEW w \in Seq(S), NEW d \in S
  PROVE  /\ Append(w, d) \in Seq(S)
         /\ Len(Append(w, d)) = Len(w) + 1
         /\ Append(w, d)[Len(w) + 1] = d
         /\ \A i \in 1..Len(w) : Append(w, d)[i] = w[i]
OBVIOUS

LEMMA WriteStep ==
  ASSUME TypeInv, ServerHolds, SessionInv, NEW e \in Ends, Write(e)
  PROVE  SessionInv'
<1>0. SessionTypeOK /\ Signed /\ OnlyEstablished /\ ReadsPeer
  BY DEF SessionInv
<1>1. PICK d \in Values :
        /\ wrote' = [wrote EXCEPT ![e] = Append(@, d)]
        /\ payloads' = payloads \cup {Payload(e, Len(wrote[e]), d)}
  BY DEF Write, Values
<1>2. /\ Established(e) /\ Len(wrote[e]) < MaxPayloads
      /\ UNCHANGED <<vars, read, refused>>
  BY DEF Write
<1>3. \A k \in Ends : wrote[k] \in Seq(Values)
  BY <1>0 DEF SessionTypeOK, Values
<1>4. wrote \in [Ends -> Seq(Values)]
  BY <1>0 DEF SessionTypeOK, Values
<1>5. /\ wrote'[e] = Append(wrote[e], d)
      /\ \A k \in Ends : k # e => wrote'[k] = wrote[k]
  BY <1>1, <1>4
<1>6. \A k \in Ends : /\ wrote'[k] \in Seq(Values)
                      /\ Len(wrote'[k]) \in Nat /\ Len(wrote'[k]) >= Len(wrote[k])
                      /\ \A i \in 1..Len(wrote[k]) : wrote'[k][i] = wrote[k][i]
  <2>. SUFFICES ASSUME NEW k \in Ends
                PROVE  /\ wrote'[k] \in Seq(Values)
                       /\ Len(wrote'[k]) \in Nat /\ Len(wrote'[k]) >= Len(wrote[k])
                       /\ \A i \in 1..Len(wrote[k]) : wrote'[k][i] = wrote[k][i]
    OBVIOUS
  <2>1. wrote[k] \in Seq(Values) /\ Len(wrote[k]) \in Nat
    BY <1>3
  <2>2. CASE k # e
    BY <1>5, <2>1, <2>2
  <2>3. CASE k = e
    <3>1. wrote'[k] = Append(wrote[k], d)
      BY <1>5, <2>3
    <3>2. /\ wrote'[k] \in Seq(Values)
          /\ Len(wrote'[k]) = Len(wrote[k]) + 1
          /\ \A i \in 1..Len(wrote[k]) : wrote'[k][i] = wrote[k][i]
      BY <2>1, <3>1, Appended
    <3>. QED
      BY <2>1, <3>2
  <2>. QED
    BY <2>2, <2>3
<1>7. /\ Len(wrote'[e]) = Len(wrote[e]) + 1
      /\ wrote'[e][Len(wrote[e]) + 1] = d
  BY <1>3, <1>5, Appended
<1>8. SessionTypeOK'
  <2>1. wrote' \in [Ends -> Seq(Values)]
    BY <1>1, <1>4, <1>6
  <2>2. \A k \in Ends : Len(wrote'[k]) <= MaxPayloads
    <3>1. Len(wrote[e]) \in Nat /\ MaxPayloads \in Nat
      BY <1>3, PayloadAssumption
    <3>2. Len(wrote'[e]) <= MaxPayloads
      BY <1>2, <1>7, <3>1
    <3>. QED
      BY <1>0, <1>5, <3>2 DEF SessionTypeOK
  <2>3. Payload(e, Len(wrote[e]), d) \in
          [type : {"Payload"}, key : Ends, counter : 0..(MaxPayloads - 1),
           data : Values]
    BY <1>2, <1>3, PayloadAssumption DEF Payload
  <2>. QED
    BY <1>0, <1>1, <1>2, <2>1, <2>2, <2>3 DEF SessionTypeOK, Values
<1>9. Signed'
  <2>1. ASSUME NEW f \in payloads
        PROVE  f.counter < Len(wrote'[f.key]) /\ f.data = wrote'[f.key][f.counter + 1]
    <3>1. f.key \in Ends /\ f.counter \in Nat
      BY <1>0, PayloadAssumption DEF SessionTypeOK
    <3>2. f.counter < Len(wrote[f.key]) /\ f.data = wrote[f.key][f.counter + 1]
      BY <1>0 DEF Signed
    <3>3. Len(wrote[f.key]) \in Nat
      BY <1>3, <3>1
    <3>4. f.counter + 1 \in 1..Len(wrote[f.key])
      BY <3>1, <3>2, <3>3
    <3>. QED
      BY <1>6, <3>1, <3>2, <3>3, <3>4
  <2>2. ASSUME NEW f, f = Payload(e, Len(wrote[e]), d)
        PROVE  f.counter < Len(wrote'[f.key]) /\ f.data = wrote'[f.key][f.counter + 1]
    <3>1. f.key = e /\ f.counter = Len(wrote[e]) /\ f.data = d
      BY <2>2 DEF Payload
    <3>2. Len(wrote[e]) \in Nat
      BY <1>3
    <3>. QED
      BY <1>7, <3>1, <3>2
  <2>. QED
    BY <1>1, <2>1, <2>2 DEF Signed
<1>10. OnlyEstablished'
  BY <1>0, <1>2, <1>5, SameEnds DEF OnlyEstablished
<1>11. ReadsPeer'
  <2>. SUFFICES ASSUME NEW k \in Ends, Established(k)
                PROVE  IsStart(read[k], wrote'[PeerKey(k)])
    BY <1>2, SameEnds DEF ReadsPeer, IsStart
  <2>1. PeerKey(k) \in Ends
    BY PeerKeyIsEnd DEF KeysKnown
  <2>2. IsStart(read[k], wrote[PeerKey(k)])
    BY <1>0 DEF ReadsPeer
  <2>3. Len(read[k]) \in Nat /\ Len(wrote[PeerKey(k)]) \in Nat
    BY <1>0, <1>3, <2>1 DEF SessionTypeOK
  <2>. QED
    BY <1>6, <2>1, <2>2, <2>3 DEF IsStart
<1>. QED
  BY <1>8, <1>9, <1>10, <1>11 DEF SessionInv

LEMMA ReadStep ==
  ASSUME TypeInv, ServerHolds, SessionInv, NEW e \in Ends, Read(e)
  PROVE  SessionInv'
<1>0. SessionTypeOK /\ Signed /\ OnlyEstablished /\ ReadsPeer
  BY DEF SessionInv
<1>1. PICK f \in payloads : /\ PayloadVerifies(e, f)
                            /\ read' = [read EXCEPT ![e] = Append(@, f.data)]
  BY DEF Read
<1>2. Established(e) /\ UNCHANGED <<vars, wrote, payloads, refused>>
  BY DEF Read
<1>3. read \in [Ends -> Seq(Values)] /\ f.data \in Values
  BY <1>0 DEF SessionTypeOK, Values
<1>4. read'[e] = Append(read[e], f.data) /\ \A k \in Ends : k # e => read'[k] = read[k]
  BY <1>1, <1>3
<1>5. read[e] \in Seq(Values)
  BY <1>3
<1>6. /\ read'[e] \in Seq(Values)
      /\ Len(read'[e]) = Len(read[e]) + 1
      /\ read'[e][Len(read[e]) + 1] = f.data
      /\ \A i \in 1..Len(read[e]) : read'[e][i] = read[e][i]
  BY <1>3, <1>4, <1>5, Appended
<1>7. f.key = PeerKey(e) /\ f.counter = Len(read[e])
  BY <1>1 DEF PayloadVerifies, Payload
<1>8. Len(read[e]) < Len(wrote[PeerKey(e)]) /\ f.data = wrote[PeerKey(e)][Len(read[e]) + 1]
  BY <1>0, <1>7 DEF Signed
<1>9. SessionTypeOK'
  <2>1. read' \in [Ends -> Seq(Values)]
    BY <1>1, <1>3, <1>6, <1>4
  <2>. QED
    BY <1>0, <1>2, <2>1 DEF SessionTypeOK, Values
<1>10. Signed'
  BY <1>0, <1>2 DEF Signed
<1>11. OnlyEstablished'
  BY <1>0, <1>2, <1>4, SameEnds DEF OnlyEstablished
<1>12. ReadsPeer'
  <2>. SUFFICES ASSUME NEW k \in Ends, Established(k)
                PROVE  IsStart(read'[k], wrote[PeerKey(k)])
    BY <1>2, SameEnds DEF ReadsPeer, IsStart
  <2>1. IsStart(read[k], wrote[PeerKey(k)])
    BY <1>0 DEF ReadsPeer
  <2>2. CASE k # e
    BY <1>4, <2>1, <2>2
  <2>3. CASE k = e
    <3>1. PeerKey(e) \in Ends
      BY <1>2, PeerKeyIsEnd DEF KeysKnown
    <3>2. Len(wrote[PeerKey(e)]) \in Nat /\ Len(read[e]) \in Nat
      BY <1>0, <1>5, <3>1 DEF SessionTypeOK
    <3>. QED
      BY <1>6, <1>8, <2>1, <2>3, <3>2, SMTT(30) DEF IsStart
  <2>. QED
    BY <2>2, <2>3
<1>. QED
  BY <1>9, <1>10, <1>11, <1>12 DEF SessionInv

LEMMA RefuseStep ==
  ASSUME SessionInv, NEW e \in Ends, RefuseFrame(e)
  PROVE  SessionInv'
<1>0. SessionTypeOK /\ Signed /\ OnlyEstablished /\ ReadsPeer
  BY DEF SessionInv
<1>1. UNCHANGED <<vars, wrote, read, payloads>> /\ refused' = refused \cup {e}
  BY DEF RefuseFrame
<1>2. SessionTypeOK' /\ Signed'
  BY <1>0, <1>1 DEF SessionTypeOK, Signed
<1>3. OnlyEstablished'
  BY <1>0, <1>1, SameEnds DEF OnlyEstablished
<1>4. ReadsPeer'
  BY <1>0, <1>1, SameEnds DEF ReadsPeer, IsStart
<1>. QED
  BY <1>2, <1>3, <1>4 DEF SessionInv

-----------------------------------------------------------------------------
AllInv == Inv /\ ServerHolds /\ SessionInv

LEMMA AllInvInit == SessionInit => AllInv
<1>1. SessionInit => Inv
  BY InvInit DEF SessionInit
<1>2. SessionInit => ServerHolds
  BY DEF SessionInit, Init, ServerHolds
<1>. QED
  BY <1>1, <1>2, SessionInvInit DEF AllInv

LEMMA AllInvStep == AllInv /\ [SessionNext]_allVars => AllInv'
<1>. SUFFICES ASSUME AllInv, [SessionNext]_allVars PROVE AllInv'
  OBVIOUS
<1>0. Inv /\ TypeInv /\ ServerHolds /\ SessionInv
  BY DEF AllInv, Inv
<1>1. [Next]_vars
  BY DEF SessionNext, allVars, Write, Read, RefuseFrame
<1>2. Inv' /\ ServerHolds'
  BY <1>0, <1>1, InvStep, ServerHoldsStep
<1>3. TypeInv'
  BY <1>2 DEF Inv
<1>4. SessionInv'
  <2>1. CASE UNCHANGED sessionVars
    BY <1>0, <1>1, <1>2, <1>3, <2>1, HandshakeStep
  <2>2. CASE \E e \in Ends : Write(e)
    BY <1>0, <2>2, WriteStep
  <2>3. CASE \E e \in Ends : Read(e)
    BY <1>0, <2>3, ReadStep
  <2>4. CASE \E e \in Ends : RefuseFrame(e)
    BY <1>0, <2>4, RefuseStep
  <2>. QED
    BY <2>1, <2>2, <2>3, <2>4 DEF SessionNext, allVars
<1>. QED
  BY <1>2, <1>4 DEF AllInv

THEOREM AllInvariance == SessionSpec => []AllInv
BY AllInvInit, AllInvStep, PTL DEF SessionSpec

(* Every variable of the sessions keeps its type.                           *)
THEOREM SessionTypeCorrect == SessionSpec => []SessionTypeOK
<1>1. AllInv => SessionTypeOK
  BY DEF AllInv, SessionInv
<1>. QED
  BY <1>1, AllInvariance, PTL

(* An established end and the peer its handshake gave it.                   *)
LEMMA ClientMet ==
  ASSUME AllInv, NEW c \in Conns, cPc[c] = "done"
  PROVE  \E s \in Conns : /\ Peers(c, s)
                          /\ conf[s].serverKey = cKey[c]
                          /\ PeerKey(ClientPacketKey(c)) = ServerPacketKey(s)
<1>0. OwnHello /\ Met /\ ClientProgress
  BY DEF AllInv, Inv, TypeInv
<1>1. PICK s \in Conns : /\ sHello[s] = cHello[c]
                         /\ sSeen[s] = cSent[c]
                         /\ conf[s].serverKey = cKey[c]
  BY <1>0 DEF Met
<1>2. cHello[c].packetKey = ServerPacketKey(s)
  BY <1>0, <1>1 DEF OwnHello, ClientProgress
<1>3. PeerKey(ClientPacketKey(c)) = cHello[c].packetKey
  BY EndForms DEF PeerKey
<1>. QED
  BY <1>1, <1>2, <1>3 DEF Peers

LEMMA ServerMet ==
  ASSUME AllInv, NEW s \in Conns, sPc[s] = "done"
  PROVE  \E c \in Conns : /\ Peers(c, s)
                          /\ conf[c].clientKey \in AuthorizedKeys
                          /\ PeerKey(ServerPacketKey(s)) = ClientPacketKey(c)
<1>0. OwnAnswer /\ ServerAgreement /\ ServerHolds
  BY DEF AllInv, Inv
<1>1. sSeen[s] # NoFrame
  BY <1>0 DEF ServerHolds
<1>2. PICK c \in Conns : /\ cSent[c] = sSeen[s]
                         /\ cHello[c] = sHello[s]
                         /\ conf[c].clientKey \in AuthorizedKeys
  BY <1>0, <1>1 DEF ServerAgreement
<1>3. cSent[c].body.packetKey = ClientPacketKey(c)
  BY <1>0, <1>1, <1>2, ClientHelloFields DEF OwnAnswer
<1>4. PeerKey(ServerPacketKey(s)) = sSeen[s].body.packetKey
  BY EndForms DEF PeerKey
<1>. QED
  BY <1>2, <1>3, <1>4 DEF Peers

(* What an end reads is the beginning of what its one peer of the           *)
(* handshake wrote.                                                         *)
THEOREM SessionsEndToEnd == SessionSpec => []EndToEnd
<1>1. AllInv => EndToEnd
  <2>. SUFFICES ASSUME AllInv PROVE EndToEnd
    OBVIOUS
  <2>0. OnlyEstablished /\ ReadsPeer
    BY DEF AllInv, SessionInv
  <2>1. ASSUME NEW c \in Conns, read[ClientPacketKey(c)] # <<>>
        PROVE  \E s \in Conns : /\ Peers(c, s)
                                /\ conf[s].serverKey = cKey[c]
                                /\ IsStart(read[ClientPacketKey(c)],
                                           wrote[ServerPacketKey(s)])
    <3>1. Established(ClientPacketKey(c)) /\ ClientPacketKey(c) \in Ends
      BY <2>0, <2>1, EndForms DEF OnlyEstablished
    <3>2. cPc[c] = "done"
      BY <3>1, EndForms DEF Established
    <3>. QED
      BY <2>0, <3>1, <3>2, ClientMet DEF ReadsPeer
  <2>2. ASSUME NEW s \in Conns, read[ServerPacketKey(s)] # <<>>
        PROVE  \E c \in Conns : /\ Peers(c, s)
                                /\ conf[c].clientKey \in AuthorizedKeys
                                /\ IsStart(read[ServerPacketKey(s)],
                                           wrote[ClientPacketKey(c)])
    <3>1. Established(ServerPacketKey(s)) /\ ServerPacketKey(s) \in Ends
      BY <2>0, <2>2, EndForms DEF OnlyEstablished
    <3>2. sPc[s] = "done"
      BY <3>1, EndForms DEF Established
    <3>. QED
      BY <2>0, <3>1, <3>2, ServerMet DEF ReadsPeer
  <2>. QED
    BY <2>1, <2>2 DEF EndToEnd
<1>. QED
  BY <1>1, AllInvariance, PTL

(* A server reads nothing before a client it agrees with has verified it.   *)
THEOREM ServersServeVerified == SessionSpec => []ServesVerified
<1>1. AllInv => ServesVerified
  <2>. SUFFICES ASSUME AllInv, NEW s \in Conns, read[ServerPacketKey(s)] # <<>>
                PROVE  \E c \in Conns : /\ Peers(c, s)
                                        /\ cPc[c] = "done"
                                        /\ conf[s].serverKey = cKey[c]
    BY DEF ServesVerified
  <2>0. /\ OnlyEstablished /\ ReadsPeer /\ SessionTypeOK
        /\ OwnHello /\ DistinctChallenges /\ ClientProgress
    BY DEF AllInv, SessionInv, Inv, TypeInv
  <2>1. Established(ServerPacketKey(s)) /\ ServerPacketKey(s) \in Ends
    BY <2>0, EndForms DEF OnlyEstablished
  <2>2. sPc[s] = "done"
    BY <2>1, EndForms DEF Established
  <2>3. PICK c \in Conns : /\ Peers(c, s)
                           /\ PeerKey(ServerPacketKey(s)) = ClientPacketKey(c)
    BY <2>2, ServerMet
  <2>4. wrote[ClientPacketKey(c)] # <<>>
    <3>1. IsStart(read[ServerPacketKey(s)], wrote[ClientPacketKey(c)])
      BY <2>0, <2>1, <2>3 DEF ReadsPeer
    <3>2. read[ServerPacketKey(s)] \in Seq(Values)
      BY <2>0, <2>1 DEF SessionTypeOK, Values
    <3>. QED
      BY <3>1, <3>2 DEF IsStart
  <2>5. cPc[c] = "done"
    BY <2>0, <2>4, EndForms DEF OnlyEstablished, Established
  <2>6. PICK t \in Conns : Peers(c, t) /\ conf[t].serverKey = cKey[c]
    BY <2>5, ClientMet
  <2>7. t = s
    BY <2>0, <2>3, <2>5, <2>6 DEF Peers, DistinctChallenges, ClientProgress
  <2>. QED
    BY <2>3, <2>5, <2>6, <2>7
<1>. QED
  BY <1>1, AllInvariance, PTL
=============================================================================
