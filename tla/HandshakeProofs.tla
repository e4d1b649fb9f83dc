-------------------------- MODULE HandshakeProofs --------------------------
(***************************************************************************)
(* Proofs about the handshake, for any number of connections, any keys,    *)
(* any set-ups and any number of radio faults.                             *)
(***************************************************************************)
EXTENDS HandshakeRefines, SequenceTheorems, TLAPS

(* What the program counters say of the rest of a connection's state.      *)
ServerProgress ==
  \A c \in Conns :
    /\ sPc[c] = "idle" <=> sHello[c] = NoFrame
    /\ sPc[c] \in {"idle", "hello"} => sSeen[c] = NoFrame

ClientProgress ==
  \A c \in Conns :
    /\ cPc[c] = "hello" => cHello[c] = NoFrame
    /\ cPc[c] \in {"pubkey", "prompt", "complete", "done"} => cHello[c] # NoFrame
    /\ cPc[c] \in {"hello", "pubkey", "prompt"} => cSent[c] = NoFrame
    /\ cPc[c] \in {"complete", "done"} => cSent[c] # NoFrame
    /\ cPc[c] \in {"pubkey", "prompt"} => conf[c].expected = NoKey
    /\ cPc[c] = "prompt" => /\ cKey[c] \in Keys
                            /\ DigestMatches(cKey[c], cHello[c])

TypeInv == TypeOK /\ ServerProgress /\ ClientProgress

-----------------------------------------------------------------------------
(* A frame of a given type is in the set of that type's frames.            *)
LEMMA FrameByType ==
  ASSUME NEW m \in Frames
  PROVE  /\ m.type \in FrameTypes
         /\ m.type = "ServerHello" => m \in ServerHellos
         /\ m.type = "ClientHello" => m \in ClientHellos
         /\ m.type = "ServerPubkey" => m \in ServerPubkeys
         /\ m.type = "ServerComplete" => m \in ServerCompletes
BY DEF Frames, FrameTypes, ServerHellos, ClientHellos, ServerPubkeys,
       ServerCompletes, RequestServerPubkey, Noise

LEMMA FramesContain ==
  /\ ServerHellos \subseteq Frames
  /\ ClientHellos \subseteq Frames
  /\ ServerPubkeys \subseteq Frames
  /\ ServerCompletes \subseteq Frames
  /\ RequestServerPubkey \in Frames
  /\ Noise \in Frames
BY DEF Frames

(* NoFrame is not a frame.                                                 *)
LEMMA NoFrameIsNone == NoFrame \notin ServerHellos \cup ClientHellos
BY DEF NoFrame, ServerHellos, ClientHellos

(* The constructors build frames of their sets.                            *)
LEMMA ServerHelloBuilt ==
  ASSUME NEW u \in Nonces, NEW k \in Keys, NEW p \in PacketKeys
  PROVE  ServerHello(u, k, p) \in ServerHellos
BY DEF ServerHello, ServerHellos, Digests, Digest

LEMMA ClientHelloBuilt ==
  ASSUME NEW u \in Nonces, NEW k \in Keys, NEW p \in PacketKeys,
         NEW b \in BOOLEAN
  PROVE  ClientHello(k, b, p, u) \in ClientHellos
<1>1. ClientBody(k, p) \in ClientBodies
  BY DEF ClientBody, ClientBodies, Digests, Digest
<1>. QED
  BY <1>1 DEF ClientHello, ClientHellos, Sign

LEMMA ServerCompleteBuilt ==
  ASSUME NEW k \in Keys, NEW b \in BOOLEAN, NEW h \in ServerHellos,
         NEW m \in ClientHellos
  PROVE  ServerComplete(k, b, h, m) \in ServerCompletes
BY DEF ServerComplete, ServerCompletes, Sign, Transcript

LEMMA ServerPubkeyBuilt ==
  ASSUME NEW k \in Keys
  PROVE  ServerPubkey(k) \in ServerPubkeys
BY DEF ServerPubkey, ServerPubkeys

(* Taking the first element of a queue, adding one at either end.          *)
LEMMA QueueOps ==
  ASSUME NEW S, NEW q \in Seq(S)
  PROVE  /\ q # <<>> => Head(q) \in S /\ Tail(q) \in Seq(S)
         /\ \A m \in S : Append(q, m) \in Seq(S) /\ <<m>> \o q \in Seq(S)
OBVIOUS

-----------------------------------------------------------------------------
LEMMA TypeInvInit == Init => TypeInv
<1>. SUFFICES ASSUME Init PROVE TypeInv
  OBVIOUS
<1>. USE ConfigAssumption
<1>1. TypeOK
  BY DEF Init, TypeOK, Errors
<1>2. ServerProgress /\ ClientProgress
  BY DEF Init, ServerProgress, ClientProgress
<1>. QED
  BY <1>1, <1>2 DEF TypeInv

(* The byte streams carry frames.                                          *)
LEMMA SentToServer ==
  ASSUME TypeOK, NEW c \in Conns, NEW m \in Frames, SendToServer(c, m)
  PROVE  toServer' \in [Conns -> Seq(Frames)] /\ air' \in SUBSET Frames
BY DEF TypeOK, SendToServer

LEMMA SentToClient ==
  ASSUME TypeOK, NEW c \in Conns, NEW m \in Frames, SendToClient(c, m)
  PROVE  toClient' \in [Conns -> Seq(Frames)] /\ air' \in SUBSET Frames
BY DEF TypeOK, SendToClient

LEMMA ReadByClient ==
  ASSUME TypeOK, NEW c \in Conns, NEW types, ClientReads(c, types)
  PROVE  /\ toClient' \in [Conns -> Seq(Frames)]
         /\ Head(toClient[c]) \in Frames
         /\ Head(toClient[c]).type \in types
BY DEF TypeOK, ClientReads

LEMMA ReadByServer ==
  ASSUME TypeOK, NEW c \in Conns, NEW types, ServerReads(c, types)
  PROVE  /\ toServer' \in [Conns -> Seq(Frames)]
         /\ Head(toServer[c]) \in Frames
         /\ Head(toServer[c]).type \in types
BY DEF TypeOK, ServerReads

LEMMA ConfFields ==
  ASSUME TypeOK, NEW c \in Conns
  PROVE  /\ conf[c].clientKey \in Keys
         /\ conf[c].serverKey \in Keys
         /\ conf[c].expected \in Keys \cup {NoKey}
         /\ conf[c].clientInsecure \in BOOLEAN
         /\ conf[c].serverInsecure \in BOOLEAN
BY ConfigAssumption DEF TypeOK, ConfigType

(* Every step keeps the types and the bookkeeping.                         *)
LEMMA TypeInvStep == TypeInv /\ [Next]_vars => TypeInv'
<1>. SUFFICES ASSUME TypeInv, [Next]_vars PROVE TypeInv'
  OBVIOUS
<1>. USE FramesContain, NoFrameIsNone
<1>0. TypeOK /\ ServerProgress /\ ClientProgress
  BY DEF TypeInv
<1>1. ASSUME NEW c \in Conns, ServerStart(c) PROVE TypeInv'
  <2>. PICK u \in FreshNonces :
         LET hello == ServerHello(u, conf[c].serverKey, ServerPacketKey(c))
         IN  /\ sHello' = [sHello EXCEPT ![c] = hello]
             /\ SendToClient(c, hello)
    BY <1>1 DEF ServerStart
  <2>. DEFINE hello == ServerHello(u, conf[c].serverKey, ServerPacketKey(c))
  <2>1. hello \in ServerHellos
    BY <1>0, ConfFields, ServerHelloBuilt
       DEF FreshNonces, PacketKeys, ServerPacketKey
  <2>2. toClient' \in [Conns -> Seq(Frames)] /\ air' \in SUBSET Frames
    BY <1>0, <2>1, SentToClient
  <2>3. /\ sPc[c] = "idle" /\ sPc' = [sPc EXCEPT ![c] = "hello"]
        /\ sHello' = [sHello EXCEPT ![c] = hello]
        /\ UNCHANGED <<conf, clientVars, sErr, sSeen, toServer, faults>>
    BY <1>1 DEF ServerStart
  <2>. HIDE DEF hello
  <2>4. TypeOK'
    BY <1>0, <2>1, <2>2, <2>3 DEF TypeOK, Ended, Errors, clientVars, serverVars, netVars, ClientFails, ServerFails
  <2>5. ServerProgress'
    BY <1>0, <2>1, <2>3 DEF TypeOK, ServerProgress, Ended, clientVars, serverVars, netVars, ClientFails, ServerFails
  <2>6. ClientProgress'
    BY <1>0, <2>3 DEF TypeOK, ClientProgress, DigestMatches, Ended, clientVars, serverVars, netVars, ClientFails, ServerFails
  <2>. QED
    BY <2>4, <2>5, <2>6 DEF TypeInv
<1>2. ASSUME NEW c \in Conns, ServerAnswersKeyRequest(c) PROVE TypeInv'
  <2>1. ServerPubkey(conf[c].serverKey) \in Frames
    BY <1>0, ConfFields, ServerPubkeyBuilt
  <2>2. /\ toServer' \in [Conns -> Seq(Frames)]
        /\ toClient' \in [Conns -> Seq(Frames)]
        /\ air' \in SUBSET Frames
    BY <1>0, <1>2, <2>1, ReadByServer, SentToClient DEF ServerAnswersKeyRequest
  <2>3. UNCHANGED <<conf, clientVars, serverVars, faults>>
    BY <1>2 DEF ServerAnswersKeyRequest
  <2>4. TypeOK'
    BY <1>0, <2>2, <2>3 DEF TypeOK, Ended, Errors, clientVars, serverVars, netVars, ClientFails, ServerFails
  <2>5. ServerProgress'
    BY <1>0, <2>3 DEF TypeOK, ServerProgress, Ended, clientVars, serverVars, netVars, ClientFails, ServerFails
  <2>6. ClientProgress'
    BY <1>0, <2>3 DEF TypeOK, ClientProgress, DigestMatches, Ended, clientVars, serverVars, netVars, ClientFails, ServerFails
  <2>. QED
    BY <2>4, <2>5, <2>6 DEF TypeInv
<1>3. ASSUME NEW c \in Conns, ServerAccepts(c) PROVE TypeInv'
  <2>. DEFINE m == Head(toServer[c])
              reply == ServerComplete(conf[c].serverKey, conf[c].serverInsecure,
                                      sHello[c], m)
  <2>1. m \in ClientHellos /\ toServer' \in [Conns -> Seq(Frames)]
    <3>1. ServerReads(c, {"ClientHello"})
      BY <1>3 DEF ServerAccepts
    <3>. QED
      BY <1>0, <3>1, ReadByServer, FrameByType
  <2>2. /\ sPc[c] = "hello" /\ sPc' = [sPc EXCEPT ![c] = "flush"]
        /\ sSeen' = [sSeen EXCEPT ![c] = m]
        /\ SendToClient(c, reply)
        /\ UNCHANGED <<conf, clientVars, sErr, sHello, faults>>
    BY <1>3 DEF ServerAccepts
  <2>3. sHello[c] \in ServerHellos
    BY <1>0, <2>2 DEF TypeOK, ServerProgress
  <2>4. reply \in ServerCompletes
    BY <1>0, <2>1, <2>3, ConfFields, ServerCompleteBuilt
  <2>5. toClient' \in [Conns -> Seq(Frames)] /\ air' \in SUBSET Frames
    BY <1>0, <2>2, <2>4, SentToClient
  <2>. HIDE DEF m, reply
  <2>6. TypeOK'
    BY <1>0, <2>1, <2>2, <2>5 DEF TypeOK, Ended, Errors, clientVars, serverVars, netVars, ClientFails, ServerFails
  <2>7. ServerProgress'
    BY <1>0, <2>1, <2>2 DEF TypeOK, ServerProgress, Ended, clientVars, serverVars, netVars, ClientFails, ServerFails
  <2>8. ClientProgress'
    BY <1>0, <2>2 DEF TypeOK, ClientProgress, DigestMatches, Ended, clientVars, serverVars, netVars, ClientFails, ServerFails
  <2>. QED
    BY <2>6, <2>7, <2>8 DEF TypeInv
<1>4. ASSUME NEW c \in Conns, ServerRefuses(c) PROVE TypeInv'
  <2>1. toServer' \in [Conns -> Seq(Frames)]
    BY <1>0, <1>4, ReadByServer DEF ServerRefuses
  <2>2. PICK why \in {"protocol", "unauthorized", "signature"} :
          ServerFails(c, why)
    BY <1>4 DEF ServerRefuses, Refusal
  <2>3. /\ sPc[c] = "hello"
        /\ UNCHANGED <<conf, clientVars, sHello, sSeen, toClient, air, faults>>
    BY <1>4 DEF ServerRefuses
  <2>4. TypeOK'
    BY <1>0, <2>1, <2>2, <2>3 DEF TypeOK, Ended, Errors, clientVars, serverVars, netVars, ClientFails, ServerFails
  <2>5. ServerProgress'
    BY <1>0, <2>2, <2>3 DEF TypeOK, ServerProgress, Ended, clientVars, serverVars, netVars, ClientFails, ServerFails
  <2>6. ClientProgress'
    BY <1>0, <2>2, <2>3 DEF TypeOK, ClientProgress, DigestMatches, Ended, clientVars, serverVars, netVars, ClientFails, ServerFails
  <2>. QED
    BY <2>4, <2>5, <2>6 DEF TypeInv
<1>5. ASSUME NEW c \in Conns, ServerRejectsFrame(c) PROVE TypeInv'
  <2>1. toServer' \in [Conns -> Seq(Frames)]
    BY <1>0, <1>5, ReadByServer DEF ServerRejectsFrame
  <2>2. /\ sPc[c] = "hello" /\ ServerFails(c, "protocol")
        /\ UNCHANGED <<conf, clientVars, sHello, sSeen, toClient, air, faults>>
    BY <1>5 DEF ServerRejectsFrame
  <2>3. TypeOK'
    BY <1>0, <2>1, <2>2 DEF TypeOK, Ended, Errors, clientVars, serverVars, netVars, ClientFails, ServerFails
  <2>4. ServerProgress'
    BY <1>0, <2>2 DEF TypeOK, ServerProgress, Ended, clientVars, serverVars, netVars, ClientFails, ServerFails
  <2>5. ClientProgress'
    BY <1>0, <2>2 DEF TypeOK, ClientProgress, DigestMatches, Ended, clientVars, serverVars, netVars, ClientFails, ServerFails
  <2>. QED
    BY <2>3, <2>4, <2>5 DEF TypeInv
<1>6. ASSUME NEW c \in Conns, ServerFlushes(c) PROVE TypeInv'
  BY <1>0, <1>6 DEF ServerFlushes, TypeInv, TypeOK, ServerProgress, ClientProgress,
                   Ended, clientVars, netVars
<1>7. ASSUME NEW c \in Conns, ClientKnowsServer(c) PROVE TypeInv'
  <2>. DEFINE hello == Head(toClient[c])
              sent == ClientHello(conf[c].clientKey, conf[c].clientInsecure,
                                  ClientPacketKey(c), hello.unique)
  <2>1. hello \in ServerHellos /\ toClient' \in [Conns -> Seq(Frames)]
    <3>1. ClientReads(c, {"ServerHello"})
      BY <1>7 DEF ClientKnowsServer
    <3>. QED
      BY <1>0, <3>1, ReadByClient, FrameByType
  <2>2. sent \in ClientHellos
    <3>1. hello.unique \in Nonces
      BY <2>1 DEF ServerHellos
    <3>. QED
      BY <1>0, <3>1, ConfFields, ClientHelloBuilt DEF ClientPacketKey, PacketKeys
  <2>3. /\ cPc[c] = "hello" /\ cPc' = [cPc EXCEPT ![c] = "complete"]
        /\ cHello' = [cHello EXCEPT ![c] = hello]
        /\ cKey' = [cKey EXCEPT ![c] = conf[c].expected]
        /\ cSent' = [cSent EXCEPT ![c] = sent]
        /\ SendToServer(c, sent)
        /\ UNCHANGED <<conf, cErr, serverVars, faults>>
    BY <1>7 DEF ClientKnowsServer, SendClientHello
  <2>4. toServer' \in [Conns -> Seq(Frames)] /\ air' \in SUBSET Frames
    BY <1>0, <2>2, <2>3, SentToServer
  <2>5. conf[c].expected \in Keys \cup {NoKey}
    BY <1>0, ConfFields
  <2>. HIDE DEF hello, sent
  <2>6. TypeOK'
    BY <1>0, <2>1, <2>2, <2>3, <2>4, <2>5 DEF TypeOK, Ended, Errors, clientVars, serverVars, netVars, ClientFails, ServerFails
  <2>7. ServerProgress'
    BY <1>0, <2>3 DEF TypeOK, ServerProgress, Ended, clientVars, serverVars, netVars, ClientFails, ServerFails
  <2>8. ClientProgress'
    BY <1>0, <2>1, <2>2, <2>3 DEF TypeOK, ClientProgress, DigestMatches, Ended, clientVars, serverVars, netVars, ClientFails, ServerFails
  <2>. QED
    BY <2>6, <2>7, <2>8 DEF TypeInv
<1>8. ASSUME NEW c \in Conns, ClientRefusesServer(c) PROVE TypeInv'
  <2>. DEFINE hello == Head(toClient[c])
  <2>1. hello \in ServerHellos /\ toClient' \in [Conns -> Seq(Frames)]
    <3>1. ClientReads(c, {"ServerHello"})
      BY <1>8 DEF ClientRefusesServer
    <3>. QED
      BY <1>0, <3>1, ReadByClient, FrameByType
  <2>2. /\ cPc[c] = "hello" /\ ClientFails(c, "digest")
        /\ cHello' = [cHello EXCEPT ![c] = hello]
        /\ UNCHANGED <<conf, cKey, cSent, serverVars, toServer, air, faults>>
    BY <1>8 DEF ClientRefusesServer
  <2>. HIDE DEF hello
  <2>3. TypeOK'
    BY <1>0, <2>1, <2>2 DEF TypeOK, Ended, Errors, clientVars, serverVars, netVars, ClientFails, ServerFails
  <2>4. ServerProgress'
    BY <1>0, <2>2 DEF TypeOK, ServerProgress, Ended, clientVars, serverVars, netVars, ClientFails, ServerFails
  <2>5. ClientProgress'
    BY <1>0, <2>2 DEF TypeOK, ClientProgress, DigestMatches, Ended, clientVars, serverVars, netVars, ClientFails, ServerFails
  <2>. QED
    BY <2>3, <2>4, <2>5 DEF TypeInv
<1>9. ASSUME NEW c \in Conns, ClientRequestsKey(c) PROVE TypeInv'
  <2>. DEFINE hello == Head(toClient[c])
  <2>1. hello \in ServerHellos /\ toClient' \in [Conns -> Seq(Frames)]
    <3>1. ClientReads(c, {"ServerHello"})
      BY <1>9 DEF ClientRequestsKey
    <3>. QED
      BY <1>0, <3>1, ReadByClient, FrameByType
  <2>2. /\ cPc[c] = "hello" /\ cPc' = [cPc EXCEPT ![c] = "pubkey"]
        /\ conf[c].expected = NoKey
        /\ cHello' = [cHello EXCEPT ![c] = hello]
        /\ SendToServer(c, RequestServerPubkey)
        /\ UNCHANGED <<conf, cErr, cKey, cSent, serverVars, faults>>
    BY <1>9 DEF ClientRequestsKey
  <2>3. toServer' \in [Conns -> Seq(Frames)] /\ air' \in SUBSET Frames
    BY <1>0, <2>2, SentToServer
  <2>. HIDE DEF hello
  <2>4. TypeOK'
    BY <1>0, <2>1, <2>2, <2>3 DEF TypeOK, Ended, Errors, clientVars, serverVars, netVars, ClientFails, ServerFails
  <2>5. ServerProgress'
    BY <1>0, <2>2 DEF TypeOK, ServerProgress, Ended, clientVars, serverVars, netVars, ClientFails, ServerFails
  <2>6. ClientProgress'
    BY <1>0, <2>1, <2>2 DEF TypeOK, ClientProgress, DigestMatches, Ended, clientVars, serverVars, netVars, ClientFails, ServerFails
  <2>. QED
    BY <2>4, <2>5, <2>6 DEF TypeInv
<1>10. ASSUME NEW c \in Conns, ClientReadsKey(c) PROVE TypeInv'
  <2>. DEFINE key == Head(toClient[c]).key
  <2>1. key \in Keys /\ toClient' \in [Conns -> Seq(Frames)]
    <3>1. ClientReads(c, {"ServerPubkey"})
      BY <1>10 DEF ClientReadsKey
    <3>2. Head(toClient[c]) \in ServerPubkeys
      BY <1>0, <3>1, ReadByClient, FrameByType
    <3>. QED
      BY <1>0, <3>1, <3>2, ReadByClient DEF ServerPubkeys
  <2>2. /\ cPc[c] = "pubkey"
        /\ \/ /\ DigestMatches(key, cHello[c])
              /\ cKey' = [cKey EXCEPT ![c] = key]
              /\ cPc' = [cPc EXCEPT ![c] = "prompt"]
              /\ UNCHANGED cErr
           \/ ClientFails(c, "digest") /\ UNCHANGED cKey
        /\ UNCHANGED <<conf, cHello, cSent, serverVars, toServer, air, faults>>
    BY <1>10 DEF ClientReadsKey
  <2>. HIDE DEF key
  <2>3. TypeOK'
    BY <1>0, <2>1, <2>2 DEF TypeOK, Ended, Errors, clientVars, serverVars, netVars, ClientFails, ServerFails
  <2>4. ServerProgress'
    BY <1>0, <2>2 DEF TypeOK, ServerProgress, Ended, clientVars, serverVars, netVars, ClientFails, ServerFails
  <2>5. ClientProgress'
    BY <1>0, <2>1, <2>2 DEF TypeOK, ClientProgress, DigestMatches, Ended, clientVars, serverVars, netVars, ClientFails, ServerFails
  <2>. QED
    BY <2>3, <2>4, <2>5 DEF TypeInv
<1>11. ASSUME NEW c \in Conns, ClientCompletes(c) PROVE TypeInv'
  <2>1. toClient' \in [Conns -> Seq(Frames)]
    BY <1>0, <1>11, ReadByClient DEF ClientCompletes
  <2>2. /\ cPc[c] = "complete"
        /\ \/ cPc' = [cPc EXCEPT ![c] = "done"] /\ UNCHANGED cErr
           \/ ClientFails(c, "signature")
           \/ ClientFails(c, "protocol")
        /\ UNCHANGED <<conf, cHello, cKey, cSent, serverVars, toServer, air, faults>>
    BY <1>11 DEF ClientCompletes
  <2>3. TypeOK'
    BY <1>0, <2>1, <2>2 DEF TypeOK, Ended, Errors, clientVars, serverVars, netVars, ClientFails, ServerFails
  <2>4. ServerProgress'
    BY <1>0, <2>2 DEF TypeOK, ServerProgress, Ended, clientVars, serverVars, netVars, ClientFails, ServerFails
  <2>5. ClientProgress'
    BY <1>0, <2>2 DEF TypeOK, ClientProgress, DigestMatches, Ended, clientVars, serverVars, netVars, ClientFails, ServerFails
  <2>. QED
    BY <2>3, <2>4, <2>5 DEF TypeInv
<1>12. ASSUME NEW c \in Conns, ClientRejectsFrame(c) PROVE TypeInv'
  <2>1. toClient' \in [Conns -> Seq(Frames)]
    BY <1>0, <1>12, ReadByClient DEF ClientRejectsFrame
  <2>2. /\ ClientFails(c, "protocol")
        /\ UNCHANGED <<conf, cHello, cKey, cSent, serverVars, toServer, air, faults>>
    BY <1>12 DEF ClientRejectsFrame
  <2>3. TypeOK'
    BY <1>0, <2>1, <2>2 DEF TypeOK, Ended, Errors, clientVars, serverVars, netVars, ClientFails, ServerFails
  <2>4. ServerProgress'
    BY <1>0, <2>2 DEF TypeOK, ServerProgress, Ended, clientVars, serverVars, netVars, ClientFails, ServerFails
  <2>5. ClientProgress'
    BY <1>0, <2>2 DEF TypeOK, ClientProgress, DigestMatches, Ended, clientVars, serverVars, netVars, ClientFails, ServerFails
  <2>. QED
    BY <2>3, <2>4, <2>5 DEF TypeInv
<1>13. ASSUME NEW c \in Conns, UserAccepts(c) PROVE TypeInv'
  <2>. DEFINE sent == ClientHello(conf[c].clientKey, conf[c].clientInsecure,
                                  ClientPacketKey(c), cHello[c].unique)
  <2>1. cHello[c] \in ServerHellos /\ cKey[c] \in Keys
    BY <1>0, <1>13 DEF UserAccepts, TypeOK, ClientProgress
  <2>2. sent \in ClientHellos
    <3>1. cHello[c].unique \in Nonces
      BY <2>1 DEF ServerHellos
    <3>. QED
      BY <1>0, <3>1, ConfFields, ClientHelloBuilt DEF ClientPacketKey, PacketKeys
  <2>3. /\ cPc[c] = "prompt" /\ cPc' = [cPc EXCEPT ![c] = "complete"]
        /\ cKey' = [cKey EXCEPT ![c] = cKey[c]]
        /\ cSent' = [cSent EXCEPT ![c] = sent]
        /\ SendToServer(c, sent)
        /\ UNCHANGED <<conf, cErr, cHello, serverVars, toClient, faults>>
    BY <1>13 DEF UserAccepts, SendClientHello
  <2>4. toServer' \in [Conns -> Seq(Frames)] /\ air' \in SUBSET Frames
    BY <1>0, <2>2, <2>3, SentToServer
  <2>. HIDE DEF sent
  <2>5. TypeOK'
    BY <1>0, <2>1, <2>2, <2>3, <2>4 DEF TypeOK, Ended, Errors, clientVars, serverVars, netVars, ClientFails, ServerFails
  <2>6. ServerProgress'
    BY <1>0, <2>3 DEF TypeOK, ServerProgress, Ended, clientVars, serverVars, netVars, ClientFails, ServerFails
  <2>7. ClientProgress'
    BY <1>0, <2>1, <2>2, <2>3 DEF TypeOK, ClientProgress, DigestMatches, Ended, clientVars, serverVars, netVars, ClientFails, ServerFails
  <2>. QED
    BY <2>5, <2>6, <2>7 DEF TypeInv
<1>14. ASSUME NEW c \in Conns, UserDeclines(c) PROVE TypeInv'
  BY <1>0, <1>14 DEF UserDeclines, TypeInv, TypeOK, ServerProgress, ClientProgress,
     ClientFails, DigestMatches, Ended, Errors, clientVars, serverVars, netVars
<1>15. ASSUME NEW c \in Conns, ServerTimeout(c) PROVE TypeInv'
  BY <1>0, <1>15 DEF ServerTimeout, ServerWaits, TypeInv, TypeOK, ServerProgress, ClientProgress,
     ServerFails, DigestMatches, Ended, Errors, clientVars, serverVars, netVars
<1>16. ASSUME NEW c \in Conns, ClientTimeout(c) PROVE TypeInv'
  BY <1>0, <1>16 DEF ClientTimeout, ClientTimed, ClientReading, TypeInv, TypeOK, ServerProgress, ClientProgress,
     ClientFails, DigestMatches, Ended, Errors, clientVars, serverVars, netVars
<1>17. ASSUME NEW c \in Conns, ServerHangup(c) PROVE TypeInv'
  BY <1>0, <1>17 DEF ServerHangup, ServerWaits, TypeInv, TypeOK, ServerProgress, ClientProgress,
     ServerFails, DigestMatches, Ended, Errors, clientVars, serverVars, netVars
<1>18. ASSUME NEW c \in Conns, ClientHangup(c) PROVE TypeInv'
  BY <1>0, <1>18 DEF ClientHangup, ClientReading, TypeInv, TypeOK, ServerProgress, ClientProgress,
     ClientFails, DigestMatches, Ended, Errors, clientVars, serverVars, netVars
<1>19. ASSUME NEW c \in Conns, LoseToServer(c) PROVE TypeInv'
  <2>1. toServer' \in [Conns -> Seq(Frames)] /\ faults' \in 0..MaxFaults
    BY <1>0, <1>19, ConfigAssumption DEF LoseToServer, TypeOK
  <2>2. UNCHANGED <<conf, clientVars, serverVars, toClient, air>>
    BY <1>19 DEF LoseToServer
  <2>3. TypeOK'
    BY <1>0, <2>1, <2>2 DEF TypeOK, Ended, Errors, clientVars, serverVars, netVars, ClientFails, ServerFails
  <2>4. ServerProgress'
    BY <1>0, <2>2 DEF TypeOK, ServerProgress, Ended, clientVars, serverVars, netVars, ClientFails, ServerFails
  <2>5. ClientProgress'
    BY <1>0, <2>2 DEF TypeOK, ClientProgress, DigestMatches, Ended, clientVars, serverVars, netVars, ClientFails, ServerFails
  <2>. QED
    BY <2>3, <2>4, <2>5 DEF TypeInv
<1>20. ASSUME NEW c \in Conns, LoseToClient(c) PROVE TypeInv'
  <2>1. toClient' \in [Conns -> Seq(Frames)] /\ faults' \in 0..MaxFaults
    BY <1>0, <1>20, ConfigAssumption DEF LoseToClient, TypeOK
  <2>2. UNCHANGED <<conf, clientVars, serverVars, toServer, air>>
    BY <1>20 DEF LoseToClient
  <2>3. TypeOK'
    BY <1>0, <2>1, <2>2 DEF TypeOK, Ended, Errors, clientVars, serverVars, netVars, ClientFails, ServerFails
  <2>4. ServerProgress'
    BY <1>0, <2>2 DEF TypeOK, ServerProgress, Ended, clientVars, serverVars, netVars, ClientFails, ServerFails
  <2>5. ClientProgress'
    BY <1>0, <2>2 DEF TypeOK, ClientProgress, DigestMatches, Ended, clientVars, serverVars, netVars, ClientFails, ServerFails
  <2>. QED
    BY <2>3, <2>4, <2>5 DEF TypeInv
<1>21. ASSUME NEW c \in Conns, StrayToServer(c) PROVE TypeInv'
  <2>1. toServer' \in [Conns -> Seq(Frames)] /\ faults' \in 0..MaxFaults
    <3>. PICK m \in air \cup {Noise} : toServer' = [toServer EXCEPT ![c] = <<m>> \o @]
      BY <1>21 DEF StrayToServer
    <3>1. m \in Frames /\ <<m>> \o toServer[c] \in Seq(Frames)
      BY <1>0 DEF TypeOK
    <3>. QED
      BY <1>0, <1>21, <3>1, ConfigAssumption DEF StrayToServer, TypeOK
  <2>2. UNCHANGED <<conf, clientVars, serverVars, toClient, air>>
    BY <1>21 DEF StrayToServer
  <2>3. TypeOK'
    BY <1>0, <2>1, <2>2 DEF TypeOK, Ended, Errors, clientVars, serverVars, netVars, ClientFails, ServerFails
  <2>4. ServerProgress'
    BY <1>0, <2>2 DEF TypeOK, ServerProgress, Ended, clientVars, serverVars, netVars, ClientFails, ServerFails
  <2>5. ClientProgress'
    BY <1>0, <2>2 DEF TypeOK, ClientProgress, DigestMatches, Ended, clientVars, serverVars, netVars, ClientFails, ServerFails
  <2>. QED
    BY <2>3, <2>4, <2>5 DEF TypeInv
<1>22. ASSUME NEW c \in Conns, StrayToClient(c) PROVE TypeInv'
  <2>1. toClient' \in [Conns -> Seq(Frames)] /\ faults' \in 0..MaxFaults
    <3>. PICK m \in air \cup {Noise} : toClient' = [toClient EXCEPT ![c] = <<m>> \o @]
      BY <1>22 DEF StrayToClient
    <3>1. m \in Frames /\ <<m>> \o toClient[c] \in Seq(Frames)
      BY <1>0 DEF TypeOK
    <3>. QED
      BY <1>0, <1>22, <3>1, ConfigAssumption DEF StrayToClient, TypeOK
  <2>2. UNCHANGED <<conf, clientVars, serverVars, toServer, air>>
    BY <1>22 DEF StrayToClient
  <2>3. TypeOK'
    BY <1>0, <2>1, <2>2 DEF TypeOK, Ended, Errors, clientVars, serverVars, netVars, ClientFails, ServerFails
  <2>4. ServerProgress'
    BY <1>0, <2>2 DEF TypeOK, ServerProgress, Ended, clientVars, serverVars, netVars, ClientFails, ServerFails
  <2>5. ClientProgress'
    BY <1>0, <2>2 DEF TypeOK, ClientProgress, DigestMatches, Ended, clientVars, serverVars, netVars, ClientFails, ServerFails
  <2>. QED
    BY <2>3, <2>4, <2>5 DEF TypeInv
<1>23. CASE UNCHANGED vars
  BY <1>0, <1>23 DEF vars, clientVars, serverVars, netVars, TypeInv, TypeOK, ServerProgress, ClientProgress
<1>. QED
  BY <1>1, <1>2, <1>3, <1>4, <1>5, <1>6, <1>7, <1>8, <1>9, <1>10, <1>11, <1>12,
     <1>13, <1>14, <1>15, <1>16, <1>17, <1>18, <1>19, <1>20, <1>21, <1>22, <1>23
     DEF Next, ServerTask, ClientTask, User, Timers, Hangups, Radio

(* Every variable keeps its type (TypeOK), whatever happens.               *)
THEOREM TypeCorrect == Spec => []TypeOK
<1>1. TypeInv => TypeOK
  BY DEF TypeInv
<1>. QED
  BY <1>1, TypeInvInit, TypeInvStep, PTL DEF Spec

-----------------------------------------------------------------------------
(***************************************************************************)
(* Agreement.  ServerAgreement and ClientAgreement are not inductive: that *)
(* a frame verifies says who made it only because every frame an endpoint  *)
(* can read was put on the air by the endpoint it names.                   *)
(***************************************************************************)
(* A ServerHello is the stream's own, and no two have the same challenge.  *)
OwnHello ==
  \A s \in Conns : sHello[s] # NoFrame =>
    /\ sHello[s].packetKey = ServerPacketKey(s)
    /\ sHello[s].digest = Digest(conf[s].serverKey)

DistinctChallenges ==
  \A s, t \in Conns :
    (/\ sHello[s] # NoFrame
     /\ sHello[t] # NoFrame
     /\ sHello[s].unique = sHello[t].unique) => s = t

(* A client reads a ServerHello that a server sent ...                     *)
HelloRead ==
  \A c \in Conns : cHello[c] # NoFrame => \E s \in Conns : sHello[s] = cHello[c]

(* ... and answers that one, for the key it settled on.                    *)
OwnAnswer ==
  \A c \in Conns : cSent[c] # NoFrame =>
    /\ cHello[c] # NoFrame
    /\ cSent[c] = ClientHello(conf[c].clientKey, conf[c].clientInsecure,
                              ClientPacketKey(c), cHello[c].unique)
    /\ DigestMatches(cKey[c], cHello[c])
    /\ conf[c].expected \in {NoKey, cKey[c]}

(* Where a frame on the air comes from.                                    *)
Origin(m) ==
  /\ m.type = "ServerHello" => \E s \in Conns : sHello[s] = m
  /\ m.type = "ClientHello" => \E c \in Conns : cSent[c] = m
  /\ m.type = "ServerComplete" =>
       \E s \in Conns : /\ sHello[s] # NoFrame
                        /\ sSeen[s] # NoFrame
                        /\ m = ServerComplete(conf[s].serverKey,
                                 conf[s].serverInsecure, sHello[s], sSeen[s])

OnAir == \A m \in air : Origin(m)

Heard == air \cup {Noise}
Queued == /\ toServer \in [Conns -> Seq(Heard)]
          /\ toClient \in [Conns -> Seq(Heard)]

(* A client that is done holds what a server holds.                        *)
Met ==
  \A c \in Conns : cPc[c] = "done" =>
    \E s \in Conns : /\ sHello[s] = cHello[c]
                     /\ sSeen[s] = cSent[c]
                     /\ conf[s].serverKey = cKey[c]

Inv == /\ TypeInv
       /\ OwnHello
       /\ DistinctChallenges
       /\ HelloRead
       /\ OwnAnswer
       /\ OnAir
       /\ Queued
       /\ ServerAgreement
       /\ Met

LEMMA InvInit == Init => Inv
<1>. SUFFICES ASSUME Init PROVE Inv
  OBVIOUS
<1>1. TypeInv
  BY TypeInvInit
<1>2. OwnHello /\ DistinctChallenges
  BY DEF Init, OwnHello, DistinctChallenges
<1>3. HelloRead /\ OwnAnswer
  BY DEF Init, HelloRead, OwnAnswer
<1>4. ServerAgreement /\ Met
  BY DEF Init, ServerAgreement, Met
<1>5. OnAir /\ Queued
  BY DEF Init, OnAir, Queued
<1>. QED
  BY <1>1, <1>2, <1>3, <1>4, <1>5 DEF Inv

-----------------------------------------------------------------------------
(* Which steps change what.                                                *)
LEMMA HelloChanges ==
  ASSUME [Next]_vars
  PROVE  \/ UNCHANGED sHello
         \/ \E c \in Conns : ServerStart(c)
BY DEF Next, vars, ServerTask, ClientTask, User, Timers, Hangups, Radio,
       clientVars, serverVars, netVars,
       ServerAnswersKeyRequest, ServerAccepts, ServerRefuses,
       ServerRejectsFrame, ServerFlushes, ClientKnowsServer,
       ClientRefusesServer, ClientRequestsKey, ClientReadsKey,
       ClientCompletes, ClientRejectsFrame, UserAccepts,
       UserDeclines, ServerTimeout, ClientTimeout, ServerHangup,
       ClientHangup, LoseToServer, LoseToClient, StrayToServer,
       StrayToClient

LEMMA SeenChanges ==
  ASSUME [Next]_vars
  PROVE  \/ UNCHANGED sSeen
         \/ \E c \in Conns : ServerAccepts(c)
BY DEF Next, vars, ServerTask, ClientTask, User, Timers, Hangups, Radio,
       clientVars, serverVars, netVars,
       ServerStart, ServerAnswersKeyRequest, ServerRefuses,
       ServerRejectsFrame, ServerFlushes, ClientKnowsServer,
       ClientRefusesServer, ClientRequestsKey, ClientReadsKey,
       ClientCompletes, ClientRejectsFrame, UserAccepts,
       UserDeclines, ServerTimeout, ClientTimeout, ServerHangup,
       ClientHangup, LoseToServer, LoseToClient, StrayToServer,
       StrayToClient

LEMMA ReadChanges ==
  ASSUME [Next]_vars
  PROVE  \/ UNCHANGED cHello
         \/ \E c \in Conns : ClientKnowsServer(c) \/ ClientRefusesServer(c) \/ ClientRequestsKey(c)
BY DEF Next, vars, ServerTask, ClientTask, User, Timers, Hangups, Radio,
       clientVars, serverVars, netVars,
       ServerStart, ServerAnswersKeyRequest, ServerAccepts,
       ServerRefuses, ServerRejectsFrame, ServerFlushes,
       ClientReadsKey, ClientCompletes, ClientRejectsFrame,
       UserAccepts, UserDeclines, ServerTimeout, ClientTimeout,
       ServerHangup, ClientHangup, LoseToServer, LoseToClient,
       StrayToServer, StrayToClient

LEMMA SentChanges ==
  ASSUME [Next]_vars
  PROVE  \/ UNCHANGED cSent
         \/ \E c \in Conns : ClientKnowsServer(c) \/ UserAccepts(c)
BY DEF Next, vars, ServerTask, ClientTask, User, Timers, Hangups, Radio,
       clientVars, serverVars, netVars,
       ServerStart, ServerAnswersKeyRequest, ServerAccepts,
       ServerRefuses, ServerRejectsFrame, ServerFlushes,
       ClientRefusesServer, ClientRequestsKey, ClientReadsKey,
       ClientCompletes, ClientRejectsFrame, UserDeclines,
       ServerTimeout, ClientTimeout, ServerHangup, ClientHangup,
       LoseToServer, LoseToClient, StrayToServer, StrayToClient

LEMMA KeyChanges ==
  ASSUME [Next]_vars
  PROVE  \/ UNCHANGED cKey
         \/ \E c \in Conns : ClientKnowsServer(c) \/ ClientReadsKey(c) \/ UserAccepts(c)
BY DEF Next, vars, ServerTask, ClientTask, User, Timers, Hangups, Radio,
       clientVars, serverVars, netVars,
       ServerStart, ServerAnswersKeyRequest, ServerAccepts,
       ServerRefuses, ServerRejectsFrame, ServerFlushes,
       ClientRefusesServer, ClientRequestsKey, ClientCompletes,
       ClientRejectsFrame, UserDeclines, ServerTimeout,
       ClientTimeout, ServerHangup, ClientHangup, LoseToServer,
       LoseToClient, StrayToServer, StrayToClient

LEMMA AirChanges ==
  ASSUME [Next]_vars
  PROVE  \/ UNCHANGED air
         \/ \E c \in Conns : ServerStart(c) \/ ServerAnswersKeyRequest(c) \/ ServerAccepts(c) \/ ClientKnowsServer(c) \/ ClientRequestsKey(c) \/ UserAccepts(c)
BY DEF Next, vars, ServerTask, ClientTask, User, Timers, Hangups, Radio,
       clientVars, serverVars, netVars,
       ServerRefuses, ServerRejectsFrame, ServerFlushes,
       ClientRefusesServer, ClientReadsKey, ClientCompletes,
       ClientRejectsFrame, UserDeclines, ServerTimeout,
       ClientTimeout, ServerHangup, ClientHangup, LoseToServer,
       LoseToClient, StrayToServer, StrayToClient

LEMMA ConfFixed ==
  ASSUME [Next]_vars
  PROVE  conf' = conf
BY DEF Next, vars, ServerTask, ClientTask, User, Timers, Hangups, Radio,
       clientVars, serverVars, netVars,
       ServerStart, ServerAnswersKeyRequest, ServerAccepts,
       ServerRefuses, ServerRejectsFrame, ServerFlushes,
       ClientKnowsServer, ClientRefusesServer, ClientRequestsKey,
       ClientReadsKey, ClientCompletes, ClientRejectsFrame,
       UserAccepts, UserDeclines, ServerTimeout, ClientTimeout,
       ServerHangup, ClientHangup, LoseToServer, LoseToClient,
       StrayToServer, StrayToClient

(* What an endpoint has read, sent or accepted it never takes back.        *)
LEMMA Kept ==
  ASSUME TypeInv, [Next]_vars, NEW c \in Conns
  PROVE  /\ sHello[c] # NoFrame => sHello'[c] = sHello[c]
         /\ sSeen[c] # NoFrame => sSeen'[c] = sSeen[c]
         /\ cHello[c] # NoFrame => cHello'[c] = cHello[c]
         /\ cSent[c] # NoFrame => cSent'[c] = cSent[c] /\ cKey'[c] = cKey[c]
<1>0. TypeOK /\ ServerProgress /\ ClientProgress
  BY DEF TypeInv
<1>1. sHello[c] # NoFrame => sHello'[c] = sHello[c]
  <2>1. CASE UNCHANGED sHello
    BY <2>1
  <2>2. ASSUME NEW d \in Conns, ServerStart(d)
        PROVE  sHello[c] # NoFrame => sHello'[c] = sHello[c]
    <3>1. sHello[d] = NoFrame
      BY <1>0, <2>2 DEF ServerStart, ServerProgress
    <3>2. PICK h : sHello' = [sHello EXCEPT ![d] = h]
      BY <2>2 DEF ServerStart
    <3>. QED
      BY <1>0, <3>1, <3>2 DEF TypeOK
  <2>. QED
    BY <2>1, <2>2, HelloChanges
<1>2. sSeen[c] # NoFrame => sSeen'[c] = sSeen[c]
  <2>1. CASE UNCHANGED sSeen
    BY <2>1
  <2>2. ASSUME NEW d \in Conns, ServerAccepts(d)
        PROVE  sSeen[c] # NoFrame => sSeen'[c] = sSeen[c]
    <3>1. sSeen[d] = NoFrame
      BY <1>0, <2>2 DEF ServerAccepts, ServerProgress
    <3>2. sSeen' = [sSeen EXCEPT ![d] = Head(toServer[d])]
      BY <2>2 DEF ServerAccepts
    <3>. QED
      BY <1>0, <3>1, <3>2 DEF TypeOK
  <2>. QED
    BY <2>1, <2>2, SeenChanges
<1>3. cHello[c] # NoFrame => cHello'[c] = cHello[c]
  <2>1. CASE UNCHANGED cHello
    BY <2>1
  <2>2. ASSUME NEW d \in Conns,
               ClientKnowsServer(d) \/ ClientRefusesServer(d) \/ ClientRequestsKey(d)
        PROVE  cHello[c] # NoFrame => cHello'[c] = cHello[c]
    <3>1. cPc[d] = "hello" /\ cHello' = [cHello EXCEPT ![d] = Head(toClient[d])]
      BY <2>2 DEF ClientKnowsServer, ClientRefusesServer, ClientRequestsKey
    <3>2. cHello[d] = NoFrame
      BY <1>0, <3>1 DEF ClientProgress
    <3>. QED
      BY <1>0, <3>1, <3>2 DEF TypeOK
  <2>. QED
    BY <2>1, <2>2, ReadChanges
<1>4. cSent[c] # NoFrame => cSent'[c] = cSent[c]
  <2>1. CASE UNCHANGED cSent
    BY <2>1
  <2>2. ASSUME NEW d \in Conns, ClientKnowsServer(d) \/ UserAccepts(d)
        PROVE  cSent[c] # NoFrame => cSent'[c] = cSent[c]
    <3>1. cPc[d] \in {"hello", "prompt"} /\ \E m : cSent' = [cSent EXCEPT ![d] = m]
      BY <2>2 DEF ClientKnowsServer, UserAccepts, SendClientHello
    <3>2. cSent[d] = NoFrame
      BY <1>0, <3>1 DEF ClientProgress
    <3>. QED
      BY <1>0, <3>1, <3>2 DEF TypeOK
  <2>. QED
    BY <2>1, <2>2, SentChanges
<1>5. cSent[c] # NoFrame => cKey'[c] = cKey[c]
  <2>1. CASE UNCHANGED cKey
    BY <2>1
  <2>2. ASSUME NEW d \in Conns,
               ClientKnowsServer(d) \/ ClientReadsKey(d) \/ UserAccepts(d)
        PROVE  cSent[c] # NoFrame => cKey'[c] = cKey[c]
    <3>1. /\ cPc[d] \in {"hello", "pubkey", "prompt"}
          /\ UNCHANGED cKey \/ \E k : cKey' = [cKey EXCEPT ![d] = k]
      BY <2>2 DEF ClientKnowsServer, ClientReadsKey, UserAccepts, SendClientHello
    <3>2. cSent[d] = NoFrame
      BY <1>0, <3>1 DEF ClientProgress
    <3>. QED
      BY <1>0, <3>1, <3>2 DEF TypeOK
  <2>. QED
    BY <2>1, <2>2, KeyChanges
<1>. QED
  BY <1>1, <1>2, <1>3, <1>4, <1>5

(* A frame an endpoint reads has an origin.                                *)
LEMMA ReadOrigin ==
  ASSUME Inv, NEW c \in Conns
  PROVE  /\ \A types : ClientReads(c, types) /\ "Noise" \notin types =>
              Head(toClient[c]) \in air /\ Origin(Head(toClient[c]))
         /\ \A types : ServerReads(c, types) /\ "Noise" \notin types =>
              Head(toServer[c]) \in air /\ Origin(Head(toServer[c]))
<1>1. ASSUME NEW types, ClientReads(c, types), "Noise" \notin types
      PROVE  Head(toClient[c]) \in air /\ Origin(Head(toClient[c]))
  <2>1. Head(toClient[c]) \in Heard
    BY <1>1 DEF Inv, Queued, ClientReads
  <2>. QED
    BY <1>1, <2>1 DEF Inv, OnAir, Heard, ClientReads, Noise
<1>2. ASSUME NEW types, ServerReads(c, types), "Noise" \notin types
      PROVE  Head(toServer[c]) \in air /\ Origin(Head(toServer[c]))
  <2>1. Head(toServer[c]) \in Heard
    BY <1>2 DEF Inv, Queued, ServerReads
  <2>. QED
    BY <1>2, <2>1 DEF Inv, OnAir, Heard, ServerReads, Noise
<1>. QED
  BY <1>1, <1>2

-----------------------------------------------------------------------------
(* Each part of the invariant, over one step.                              *)
LEMMA OwnHelloStep ==
  ASSUME Inv, [Next]_vars
  PROVE  OwnHello' /\ DistinctChallenges'
<1>0. TypeOK /\ OwnHello /\ DistinctChallenges
  BY DEF Inv, TypeInv
<1>1. CASE UNCHANGED sHello
  BY <1>0, <1>1, ConfFixed DEF OwnHello, DistinctChallenges
<1>2. ASSUME NEW c \in Conns, ServerStart(c)
      PROVE  OwnHello' /\ DistinctChallenges'
  <2>1. PICK u \in FreshNonces :
          sHello' = [sHello EXCEPT ![c] =
                       ServerHello(u, conf[c].serverKey, ServerPacketKey(c))]
    BY <1>2 DEF ServerStart
  <2>2. OwnHello'
    BY <1>0, <2>1, ConfFixed DEF TypeOK, OwnHello, ServerHello
  <2>3. ASSUME NEW s \in Conns, s # c, sHello[s] # NoFrame
        PROVE  sHello[s].unique # u
    BY <2>3 DEF FreshNonces
  <2>4. sHello'[c].unique = u /\ \A s \in Conns : s # c => sHello'[s] = sHello[s]
    BY <1>0, <2>1 DEF TypeOK, ServerHello
  <2>5. DistinctChallenges'
    BY <1>0, <2>3, <2>4 DEF DistinctChallenges
  <2>. QED
    BY <2>2, <2>5
<1>. QED
  BY <1>1, <1>2, HelloChanges

LEMMA HelloReadStep ==
  ASSUME Inv, [Next]_vars
  PROVE  HelloRead'
<1>0. TypeInv /\ TypeOK /\ HelloRead
  BY DEF Inv, TypeInv
<1>1. ASSUME NEW m \in ServerHellos, NEW s \in Conns, sHello[s] = m
      PROVE  sHello'[s] = m
  BY <1>0, <1>1, Kept, NoFrameIsNone
<1>2. CASE UNCHANGED cHello
  <2>. SUFFICES ASSUME NEW c \in Conns, cHello[c] # NoFrame
                PROVE  \E s \in Conns : sHello'[s] = cHello[c]
    BY <1>2 DEF HelloRead
  <2>1. PICK s \in Conns : sHello[s] = cHello[c]
    BY <1>0 DEF HelloRead
  <2>. QED
    BY <1>0, <1>1, <2>1 DEF TypeOK
<1>3. ASSUME NEW d \in Conns,
             ClientKnowsServer(d) \/ ClientRefusesServer(d) \/ ClientRequestsKey(d)
      PROVE  HelloRead'
  <2>1. /\ ClientReads(d, {"ServerHello"})
        /\ cHello' = [cHello EXCEPT ![d] = Head(toClient[d])]
    BY <1>3 DEF ClientKnowsServer, ClientRefusesServer, ClientRequestsKey
  <2>2. Head(toClient[d]) \in ServerHellos
    BY <1>0, <2>1, ReadByClient, FrameByType
  <2>3. Origin(Head(toClient[d])) /\ Head(toClient[d]).type = "ServerHello"
    BY <1>0, <2>1, ReadOrigin, ReadByClient
  <2>4. PICK t \in Conns : sHello[t] = Head(toClient[d])
    BY <2>3 DEF Origin
  <2>. SUFFICES ASSUME NEW c \in Conns, cHello'[c] # NoFrame
                PROVE  \E s \in Conns : sHello'[s] = cHello'[c]
    BY DEF HelloRead
  <2>5. CASE c = d
    BY <1>0, <1>1, <2>1, <2>2, <2>4, <2>5 DEF TypeOK
  <2>6. CASE c # d
    <3>1. cHello'[c] = cHello[c]
      BY <1>0, <2>1, <2>6 DEF TypeOK
    <3>2. PICK s \in Conns : sHello[s] = cHello[c]
      BY <1>0, <3>1 DEF HelloRead
    <3>. QED
      BY <1>0, <1>1, <3>1, <3>2 DEF TypeOK
  <2>. QED
    BY <2>5, <2>6
<1>. QED
  BY <1>2, <1>3, ReadChanges

LEMMA OwnAnswerStep ==
  ASSUME Inv, [Next]_vars
  PROVE  OwnAnswer'
<1>0. TypeInv /\ TypeOK /\ ClientProgress /\ OwnAnswer
  BY DEF Inv, TypeInv
<1>. SUFFICES ASSUME NEW c \in Conns, cSent'[c] # NoFrame
              PROVE  /\ cHello'[c] # NoFrame
                     /\ cSent'[c] = ClientHello(conf[c].clientKey,
                                       conf[c].clientInsecure,
                                       ClientPacketKey(c), cHello'[c].unique)
                     /\ DigestMatches(cKey'[c], cHello'[c])
                     /\ conf[c].expected \in {NoKey, cKey'[c]}
  BY ConfFixed DEF OwnAnswer, DigestMatches
<1>1. CASE cSent[c] # NoFrame
  <2>1. cHello[c] # NoFrame
    BY <1>0, <1>1 DEF OwnAnswer
  <2>2. /\ cSent'[c] = cSent[c] /\ cHello'[c] = cHello[c] /\ cKey'[c] = cKey[c]
    BY <1>0, <1>1, <2>1, Kept
  <2>. QED
    BY <1>0, <1>1, <2>1, <2>2 DEF OwnAnswer
<1>2. CASE cSent[c] = NoFrame
  <2>1. PICK d \in Conns : ClientKnowsServer(d) \/ UserAccepts(d)
    BY <1>2, SentChanges
  <2>2. d = c
    <3>1. \E m : cSent' = [cSent EXCEPT ![d] = m]
      BY <2>1 DEF ClientKnowsServer, UserAccepts, SendClientHello
    <3>. QED
      BY <1>0, <1>2, <3>1 DEF TypeOK
  <2>3. CASE ClientKnowsServer(c)
    <3>. DEFINE hello == Head(toClient[c])
                sent == ClientHello(conf[c].clientKey, conf[c].clientInsecure,
                                    ClientPacketKey(c), hello.unique)
    <3>1. hello \in ServerHellos
      <4>1. ClientReads(c, {"ServerHello"})
        BY <2>3 DEF ClientKnowsServer
      <4>. QED
        BY <1>0, <4>1, ReadByClient, FrameByType
    <3>2. /\ cHello' = [cHello EXCEPT ![c] = hello]
          /\ cKey' = [cKey EXCEPT ![c] = conf[c].expected]
          /\ cSent' = [cSent EXCEPT ![c] = sent]
          /\ DigestMatches(conf[c].expected, hello)
      BY <2>3 DEF ClientKnowsServer, SendClientHello
    <3>. HIDE DEF hello, sent
    <3>3. cHello'[c] = hello /\ cKey'[c] = conf[c].expected /\ cSent'[c] = sent
      BY <1>0, <3>2 DEF TypeOK
    <3>. QED
      BY <3>1, <3>2, <3>3, NoFrameIsNone DEF sent
  <2>4. CASE UserAccepts(c)
    <3>1. /\ cPc[c] = "prompt"
          /\ cHello' = cHello
          /\ cKey' = [cKey EXCEPT ![c] = cKey[c]]
          /\ cSent' = [cSent EXCEPT ![c] =
               ClientHello(conf[c].clientKey, conf[c].clientInsecure,
                           ClientPacketKey(c), cHello[c].unique)]
      BY <2>4 DEF UserAccepts, SendClientHello
    <3>2. /\ cHello[c] # NoFrame /\ conf[c].expected = NoKey
          /\ DigestMatches(cKey[c], cHello[c])
      BY <1>0, <3>1 DEF ClientProgress
    <3>. QED
      BY <1>0, <3>1, <3>2 DEF TypeOK
  <2>. QED
    BY <2>1, <2>2, <2>3, <2>4
<1>. QED
  BY <1>1, <1>2

(* What is on the air keeps its origin, and what a step sends has one.     *)
LEMMA OnAirStep ==
  ASSUME Inv, [Next]_vars
  PROVE  OnAir'
<1>0. TypeInv /\ TypeOK /\ ServerProgress /\ OnAir
  BY DEF Inv, TypeInv
<1>1. ASSUME NEW m \in air PROVE Origin(m)'
  <2>0. Origin(m)
    BY <1>0 DEF OnAir
  <2>1. m \in Frames
    BY <1>0 DEF TypeOK
  <2>2. m.type = "ServerHello" => \E s \in Conns : sHello'[s] = m
    <3>. SUFFICES ASSUME m.type = "ServerHello"
                  PROVE  \E s \in Conns : sHello'[s] = m
      OBVIOUS
    <3>1. m # NoFrame
      BY <2>1, FrameByType, NoFrameIsNone
    <3>2. PICK s \in Conns : sHello[s] = m
      BY <2>0 DEF Origin
    <3>. QED
      BY <1>0, <3>1, <3>2, Kept
  <2>3. m.type = "ClientHello" => \E c \in Conns : cSent'[c] = m
    <3>. SUFFICES ASSUME m.type = "ClientHello"
                  PROVE  \E c \in Conns : cSent'[c] = m
      OBVIOUS
    <3>1. m # NoFrame
      BY <2>1, FrameByType, NoFrameIsNone
    <3>2. PICK c \in Conns : cSent[c] = m
      BY <2>0 DEF Origin
    <3>. QED
      BY <1>0, <3>1, <3>2, Kept
  <2>4. m.type = "ServerComplete" =>
          \E s \in Conns : /\ sHello'[s] # NoFrame
                           /\ sSeen'[s] # NoFrame
                           /\ m = ServerComplete(conf'[s].serverKey,
                                conf'[s].serverInsecure, sHello'[s], sSeen'[s])
    <3>. SUFFICES ASSUME m.type = "ServerComplete"
                  PROVE  \E s \in Conns :
                           /\ sHello'[s] # NoFrame
                           /\ sSeen'[s] # NoFrame
                           /\ m = ServerComplete(conf'[s].serverKey,
                                conf'[s].serverInsecure, sHello'[s], sSeen'[s])
      OBVIOUS
    <3>1. PICK s \in Conns : /\ sHello[s] # NoFrame
                            /\ sSeen[s] # NoFrame
                            /\ m = ServerComplete(conf[s].serverKey,
                                 conf[s].serverInsecure, sHello[s], sSeen[s])
      BY <2>0 DEF Origin
    <3>2. sHello'[s] = sHello[s] /\ sSeen'[s] = sSeen[s] /\ conf' = conf
      BY <1>0, <3>1, Kept, ConfFixed
    <3>. QED
      BY <3>1, <3>2
  <2>. QED
    BY <2>2, <2>3, <2>4 DEF Origin
<1>2. CASE UNCHANGED air
  BY <1>1, <1>2 DEF OnAir
<1>3. ASSUME NEW c \in Conns, ServerStart(c) PROVE OnAir'
  <2>1. PICK h : /\ sHello' = [sHello EXCEPT ![c] = h]
                 /\ air' = air \cup {h}
                 /\ h.type = "ServerHello"
    <3>. PICK u \in FreshNonces :
           LET hello == ServerHello(u, conf[c].serverKey, ServerPacketKey(c))
           IN  sHello' = [sHello EXCEPT ![c] = hello] /\ SendToClient(c, hello)
      BY <1>3 DEF ServerStart
    <3>1. ServerHello(u, conf[c].serverKey, ServerPacketKey(c)).type = "ServerHello"
      BY DEF ServerHello
    <3>. QED
      BY <3>1 DEF SendToClient
  <2>2. sHello'[c] = h
    BY <1>0, <2>1 DEF TypeOK
  <2>3. Origin(h)'
    BY <2>1, <2>2 DEF Origin
  <2>. QED
    BY <1>1, <2>1, <2>3 DEF OnAir
<1>4. ASSUME NEW c \in Conns, ServerAnswersKeyRequest(c) PROVE OnAir'
  <2>1. PICK h : air' = air \cup {h} /\ h.type = "ServerPubkey"
    BY <1>4 DEF ServerAnswersKeyRequest, SendToClient, ServerPubkey
  <2>2. Origin(h)'
    BY <2>1 DEF Origin
  <2>. QED
    BY <1>1, <2>1, <2>2 DEF OnAir
<1>5. ASSUME NEW c \in Conns, ServerAccepts(c) PROVE OnAir'
  <2>1. /\ sPc[c] = "hello" /\ ServerReads(c, {"ClientHello"})
        /\ sHello' = sHello /\ conf' = conf
    BY <1>5 DEF ServerAccepts, serverVars
  <2>2. PICK m \in ClientHellos : m = Head(toServer[c])
    BY <1>0, <2>1, ReadByServer, FrameByType
  <2>3. PICK reply : reply = ServerComplete(conf[c].serverKey,
                               conf[c].serverInsecure, sHello[c], m)
    OBVIOUS
  <2>4. sSeen' = [sSeen EXCEPT ![c] = m] /\ air' = air \cup {reply}
    BY <1>5, <2>2, <2>3 DEF ServerAccepts, SendToClient
  <2>5. /\ sHello[c] # NoFrame
        /\ sSeen'[c] = m /\ m # NoFrame
    BY <1>0, <2>1, <2>4, NoFrameIsNone DEF TypeOK, ServerProgress
  <2>6. Origin(reply)'
    <3>1. reply.type = "ServerComplete"
      BY <2>3 DEF ServerComplete
    <3>2. reply = ServerComplete(conf'[c].serverKey, conf'[c].serverInsecure,
                                 sHello'[c], sSeen'[c])
      BY <2>1, <2>3, <2>5
    <3>. QED
      BY <2>1, <2>5, <3>1, <3>2 DEF Origin
  <2>. QED
    BY <1>1, <2>4, <2>6 DEF OnAir
<1>6. ASSUME NEW c \in Conns, ClientKnowsServer(c) \/ UserAccepts(c)
      PROVE  OnAir'
  <2>1. PICK m : /\ cSent' = [cSent EXCEPT ![c] = m]
                 /\ air' = air \cup {m}
                 /\ m.type = "ClientHello"
    BY <1>6 DEF ClientKnowsServer, UserAccepts, SendClientHello, SendToServer,
                ClientHello
  <2>2. cSent'[c] = m
    BY <1>0, <2>1 DEF TypeOK
  <2>3. Origin(m)'
    BY <2>1, <2>2 DEF Origin
  <2>. QED
    BY <1>1, <2>1, <2>3 DEF OnAir
<1>7. ASSUME NEW c \in Conns, ClientRequestsKey(c) PROVE OnAir'
  <2>1. air' = air \cup {RequestServerPubkey}
    BY <1>7 DEF ClientRequestsKey, SendToServer
  <2>2. Origin(RequestServerPubkey)'
    BY DEF Origin, RequestServerPubkey
  <2>. QED
    BY <1>1, <2>1, <2>2 DEF OnAir
<1>. QED
  BY <1>2, <1>3, <1>4, <1>5, <1>6, <1>7, AirChanges

(* What a step does to the queues of one direction: nothing, or at one     *)
(* connection it takes the first frame, or adds one at either end.         *)
Requeued(old, new, more) ==
  \/ new = old
  \/ \E c \in Conns : old[c] # <<>> /\ new = [old EXCEPT ![c] = Tail(@)]
  \/ \E c \in Conns, m \in more : new = [old EXCEPT ![c] = Append(@, m)]
  \/ \E c \in Conns, m \in more : new = [old EXCEPT ![c] = <<m>> \o @]

LEMMA RequeuedHolds ==
  ASSUME NEW S, NEW T, S \subseteq T, NEW old \in [Conns -> Seq(S)], NEW new,
         Requeued(old, new, T)
  PROVE  new \in [Conns -> Seq(T)]
<1>1. \A q \in Seq(S) : q \in Seq(T)
  BY SeqMonotonic
<1>2. old \in [Conns -> Seq(T)]
  BY <1>1
<1>3. ASSUME NEW q \in Seq(T), NEW m \in T
      PROVE  Append(q, m) \in Seq(T) /\ <<m>> \o q \in Seq(T)
  OBVIOUS
<1>4. ASSUME NEW q \in Seq(T), q # <<>>
      PROVE  Tail(q) \in Seq(T)
  BY <1>4
<1>. QED
  BY <1>2, <1>3, <1>4, ZenonT(30) DEF Requeued

LEMMA QueuedStep ==
  ASSUME Inv, [Next]_vars
  PROVE  Queued'
<1>0. Queued
  BY DEF Inv
<1>1. /\ air \subseteq air'
      /\ Requeued(toServer, toServer', Heard')
      /\ Requeued(toClient, toClient', Heard')
  <2>1. ASSUME NEW c \in Conns, ServerStart(c)
        PROVE  /\ air \subseteq air'
               /\ Requeued(toServer, toServer', Heard')
               /\ Requeued(toClient, toClient', Heard')
    BY <2>1 DEF ServerStart, Requeued, Heard, SendToClient
  <2>2. ASSUME NEW c \in Conns, ServerAnswersKeyRequest(c)
        PROVE  /\ air \subseteq air'
               /\ Requeued(toServer, toServer', Heard')
               /\ Requeued(toClient, toClient', Heard')
    BY <2>2 DEF ServerAnswersKeyRequest, Requeued, Heard, ServerReads, SendToClient
  <2>3. ASSUME NEW c \in Conns, ServerAccepts(c)
        PROVE  /\ air \subseteq air'
               /\ Requeued(toServer, toServer', Heard')
               /\ Requeued(toClient, toClient', Heard')
    BY <2>3 DEF ServerAccepts, Requeued, Heard, ServerReads, SendToClient
  <2>4. ASSUME NEW c \in Conns, ServerRefuses(c)
        PROVE  /\ air \subseteq air'
               /\ Requeued(toServer, toServer', Heard')
               /\ Requeued(toClient, toClient', Heard')
    BY <2>4 DEF ServerRefuses, Requeued, Heard, ServerReads
  <2>5. ASSUME NEW c \in Conns, ServerRejectsFrame(c)
        PROVE  /\ air \subseteq air'
               /\ Requeued(toServer, toServer', Heard')
               /\ Requeued(toClient, toClient', Heard')
    BY <2>5 DEF ServerRejectsFrame, Requeued, Heard, ServerReads
  <2>6. ASSUME NEW c \in Conns, ServerFlushes(c)
        PROVE  /\ air \subseteq air'
               /\ Requeued(toServer, toServer', Heard')
               /\ Requeued(toClient, toClient', Heard')
    BY <2>6 DEF ServerFlushes, Requeued, Heard, netVars
  <2>7. ASSUME NEW c \in Conns, ClientKnowsServer(c)
        PROVE  /\ air \subseteq air'
               /\ Requeued(toServer, toServer', Heard')
               /\ Requeued(toClient, toClient', Heard')
    BY <2>7 DEF ClientKnowsServer, Requeued, Heard, ClientReads, SendClientHello, SendToServer
  <2>8. ASSUME NEW c \in Conns, ClientRefusesServer(c)
        PROVE  /\ air \subseteq air'
               /\ Requeued(toServer, toServer', Heard')
               /\ Requeued(toClient, toClient', Heard')
    BY <2>8 DEF ClientRefusesServer, Requeued, Heard, ClientReads
  <2>9. ASSUME NEW c \in Conns, ClientRequestsKey(c)
        PROVE  /\ air \subseteq air'
               /\ Requeued(toServer, toServer', Heard')
               /\ Requeued(toClient, toClient', Heard')
    BY <2>9 DEF ClientRequestsKey, Requeued, Heard, ClientReads, SendToServer
  <2>10. ASSUME NEW c \in Conns, ClientReadsKey(c)
        PROVE  /\ air \subseteq air'
               /\ Requeued(toServer, toServer', Heard')
               /\ Requeued(toClient, toClient', Heard')
    BY <2>10 DEF ClientReadsKey, Requeued, Heard, ClientReads
  <2>11. ASSUME NEW c \in Conns, ClientCompletes(c)
        PROVE  /\ air \subseteq air'
               /\ Requeued(toServer, toServer', Heard')
               /\ Requeued(toClient, toClient', Heard')
    BY <2>11 DEF ClientCompletes, Requeued, Heard, ClientReads
  <2>12. ASSUME NEW c \in Conns, ClientRejectsFrame(c)
        PROVE  /\ air \subseteq air'
               /\ Requeued(toServer, toServer', Heard')
               /\ Requeued(toClient, toClient', Heard')
    BY <2>12 DEF ClientRejectsFrame, Requeued, Heard, ClientReads
  <2>13. ASSUME NEW c \in Conns, UserAccepts(c)
        PROVE  /\ air \subseteq air'
               /\ Requeued(toServer, toServer', Heard')
               /\ Requeued(toClient, toClient', Heard')
    BY <2>13 DEF UserAccepts, Requeued, Heard, SendClientHello, SendToServer
  <2>14. ASSUME NEW c \in Conns, UserDeclines(c)
        PROVE  /\ air \subseteq air'
               /\ Requeued(toServer, toServer', Heard')
               /\ Requeued(toClient, toClient', Heard')
    BY <2>14 DEF UserDeclines, Requeued, Heard, netVars
  <2>15. ASSUME NEW c \in Conns, ServerTimeout(c)
        PROVE  /\ air \subseteq air'
               /\ Requeued(toServer, toServer', Heard')
               /\ Requeued(toClient, toClient', Heard')
    BY <2>15 DEF ServerTimeout, Requeued, Heard, netVars
  <2>16. ASSUME NEW c \in Conns, ClientTimeout(c)
        PROVE  /\ air \subseteq air'
               /\ Requeued(toServer, toServer', Heard')
               /\ Requeued(toClient, toClient', Heard')
    BY <2>16 DEF ClientTimeout, Requeued, Heard, netVars
  <2>17. ASSUME NEW c \in Conns, ServerHangup(c)
        PROVE  /\ air \subseteq air'
               /\ Requeued(toServer, toServer', Heard')
               /\ Requeued(toClient, toClient', Heard')
    BY <2>17 DEF ServerHangup, Requeued, Heard, netVars
  <2>18. ASSUME NEW c \in Conns, ClientHangup(c)
        PROVE  /\ air \subseteq air'
               /\ Requeued(toServer, toServer', Heard')
               /\ Requeued(toClient, toClient', Heard')
    BY <2>18 DEF ClientHangup, Requeued, Heard, netVars
  <2>19. ASSUME NEW c \in Conns, LoseToServer(c)
        PROVE  /\ air \subseteq air'
               /\ Requeued(toServer, toServer', Heard')
               /\ Requeued(toClient, toClient', Heard')
    BY <2>19 DEF LoseToServer, Requeued, Heard
  <2>20. ASSUME NEW c \in Conns, LoseToClient(c)
        PROVE  /\ air \subseteq air'
               /\ Requeued(toServer, toServer', Heard')
               /\ Requeued(toClient, toClient', Heard')
    BY <2>20 DEF LoseToClient, Requeued, Heard
  <2>21. ASSUME NEW c \in Conns, StrayToServer(c)
        PROVE  /\ air \subseteq air'
               /\ Requeued(toServer, toServer', Heard')
               /\ Requeued(toClient, toClient', Heard')
    BY <2>21 DEF StrayToServer, Requeued, Heard
  <2>22. ASSUME NEW c \in Conns, StrayToClient(c)
        PROVE  /\ air \subseteq air'
               /\ Requeued(toServer, toServer', Heard')
               /\ Requeued(toClient, toClient', Heard')
    BY <2>22 DEF StrayToClient, Requeued, Heard
  <2>23. CASE UNCHANGED vars
    BY <2>23 DEF vars, netVars, Requeued
  <2>. QED
    BY <2>1, <2>2, <2>3, <2>4, <2>5, <2>6, <2>7, <2>8, <2>9, <2>10, <2>11, <2>12,
       <2>13, <2>14, <2>15, <2>16, <2>17, <2>18, <2>19, <2>20, <2>21, <2>22, <2>23
       DEF Next, ServerTask, ClientTask, User, Timers, Hangups, Radio
<1>2. Heard \subseteq Heard'
  BY <1>1 DEF Heard
<1>. QED
  BY <1>0, <1>1, <1>2, RequeuedHolds DEF Queued

(* A client is done only by reading ServerComplete.                         *)
LEMMA DoneChanges ==
  ASSUME TypeOK, [Next]_vars, NEW c \in Conns, cPc'[c] = "done", cPc[c] # "done"
  PROVE  ClientCompletes(c)
<1>1. PICK d \in Conns : ClientCompletes(d)
  <2>1. ASSUME NEW d \in Conns, ClientKnowsServer(d) \/ UserAccepts(d)
        PROVE  FALSE
    BY <2>1 DEF ClientKnowsServer, UserAccepts, SendClientHello, TypeOK
  <2>2. ASSUME NEW d \in Conns, ClientRefusesServer(d) \/ ClientRequestsKey(d)
        PROVE  FALSE
    BY <2>2 DEF ClientRefusesServer, ClientRequestsKey, ClientFails, TypeOK
  <2>3. ASSUME NEW d \in Conns, ClientReadsKey(d) \/ ClientRejectsFrame(d)
        PROVE  FALSE
    BY <2>3 DEF ClientReadsKey, ClientRejectsFrame, ClientFails, TypeOK
  <2>4. ASSUME NEW d \in Conns, UserDeclines(d) \/ ClientTimeout(d) \/ ClientHangup(d)
        PROVE  FALSE
    BY <2>4 DEF UserDeclines, ClientTimeout, ClientHangup, ClientFails, TypeOK
  <2>5. ~(\/ \E d \in Conns : ServerTask(d) \/ ServerTimeout(d) \/ ServerHangup(d)
         \/ \E d \in Conns : Radio(d)
         \/ UNCHANGED vars)
    BY DEF vars, clientVars, ServerTask, Radio, ServerStart,
           ServerAnswersKeyRequest, ServerAccepts, ServerRefuses,
           ServerRejectsFrame, ServerFlushes, ServerTimeout, ServerHangup,
           LoseToServer, LoseToClient, StrayToServer, StrayToClient
  <2>. QED
    BY <2>1, <2>2, <2>3, <2>4, <2>5 DEF Next, ClientTask, User, Timers, Hangups
<1>2. d = c
  BY <1>1 DEF ClientCompletes, ClientFails, TypeOK
<1>. QED
  BY <1>1, <1>2

LEMMA ServerAgreementStep ==
  ASSUME Inv, [Next]_vars
  PROVE  ServerAgreement'
<1>0. /\ TypeInv /\ TypeOK /\ ServerProgress /\ ServerAgreement
      /\ OwnAnswer /\ HelloRead /\ DistinctChallenges
  BY DEF Inv, TypeInv
(* A pair that agrees stays one.                                           *)
<1>1. ASSUME NEW s \in Conns, NEW c \in Conns, cSent[c] \in ClientHellos,
             cHello[c] = sHello[s], cHello[c] # NoFrame
      PROVE  cSent'[c] = cSent[c] /\ cHello'[c] = sHello'[s]
  BY <1>0, <1>1, Kept, NoFrameIsNone
<1>2. CASE UNCHANGED sSeen
  <2>. SUFFICES ASSUME NEW s \in Conns, sSeen[s] # NoFrame
                PROVE  \E c \in Conns : /\ cSent'[c] = sSeen[s]
                                        /\ cHello'[c] = sHello'[s]
                                        /\ conf[c].clientKey \in AuthorizedKeys
                                        /\ SameMode(c, s)
    BY <1>2, ConfFixed DEF ServerAgreement, SameMode
  <2>1. PICK c \in Conns : /\ cSent[c] = sSeen[s]
                          /\ cHello[c] = sHello[s]
                          /\ conf[c].clientKey \in AuthorizedKeys
                          /\ SameMode(c, s)
    BY <1>0 DEF ServerAgreement
  <2>2. cSent[c] \in ClientHellos /\ cHello[c] # NoFrame
    BY <1>0, <2>1 DEF TypeOK, OwnAnswer
  <2>. QED
    BY <1>1, <2>1, <2>2
<1>3. ASSUME NEW d \in Conns, ServerAccepts(d) PROVE ServerAgreement'
  <2>. DEFINE m == Head(toServer[d])
  <2>1. /\ sPc[d] = "hello" /\ ServerReads(d, {"ClientHello"}) /\ Acceptable(d, m)
        /\ sSeen' = [sSeen EXCEPT ![d] = m]
        /\ UNCHANGED <<conf, clientVars, sHello>>
    BY <1>3 DEF ServerAccepts
  <2>2. m \in ClientHellos /\ m.type = "ClientHello"
    BY <1>0, <2>1, ReadByServer, FrameByType
  <2>3. PICK c \in Conns : cSent[c] = m
    BY <2>1, <2>2, ReadOrigin DEF Origin
  <2>4. /\ cHello[c] # NoFrame
        /\ m = ClientHello(conf[c].clientKey, conf[c].clientInsecure,
                           ClientPacketKey(c), cHello[c].unique)
    BY <1>0, <2>2, <2>3, NoFrameIsNone DEF OwnAnswer
  <2>. HIDE DEF m
  (* The signature verifies over this server's challenge and in its mode.  *)
  <2>5. /\ m.sig.insecure = conf[d].serverInsecure
        /\ m.sig.over[1] = sHello[d].unique
        /\ Authorized(m.body.digest)
    BY <2>1 DEF Acceptable, ClientHelloVerifies, Verifies, Sign
  <2>6. /\ m.sig.insecure = conf[c].clientInsecure
        /\ m.sig.over[1] = cHello[c].unique
        /\ m.body.digest = Digest(conf[c].clientKey)
    BY <2>4 DEF ClientHello, ClientBody, Sign
  <2>7. cHello[c] = sHello[d]
    <3>1. PICK t \in Conns : sHello[t] = cHello[c]
      BY <1>0, <2>4 DEF HelloRead
    <3>2. sHello[d] # NoFrame
      BY <1>0, <2>1 DEF ServerProgress
    <3>. QED
      BY <1>0, <2>4, <2>5, <2>6, <3>1, <3>2 DEF DistinctChallenges
  <2>8. conf[c].clientKey \in AuthorizedKeys
    <3>1. PICK k \in AuthorizedKeys : m.body.digest = Digest(k)
      BY <2>5 DEF Authorized
    <3>2. \A key : Digest(key).sha256 = key
      BY DEF Digest
    <3>. QED
      BY <2>6, <3>1, <3>2
  <2>9. SameMode(c, d)
    BY <2>5, <2>6 DEF SameMode
  <2>. SUFFICES ASSUME NEW s \in Conns, sSeen'[s] # NoFrame
                PROVE  \E b \in Conns : /\ cSent[b] = sSeen'[s]
                                        /\ cHello[b] = sHello[s]
                                        /\ conf[b].clientKey \in AuthorizedKeys
                                        /\ SameMode(b, s)
    BY <2>1 DEF ServerAgreement, SameMode, clientVars
  <2>10. CASE s = d
    BY <1>0, <2>1, <2>3, <2>7, <2>8, <2>9, <2>10 DEF TypeOK
  <2>11. CASE s # d
    BY <1>0, <2>1, <2>11 DEF TypeOK, ServerAgreement
  <2>. QED
    BY <2>10, <2>11
<1>. QED
  BY <1>2, <1>3, SeenChanges

LEMMA MetStep ==
  ASSUME Inv, [Next]_vars
  PROVE  Met'
<1>0. /\ TypeInv /\ TypeOK /\ ServerProgress /\ ClientProgress /\ Met
      /\ OwnHello /\ OwnAnswer
  BY DEF Inv, TypeInv
<1>1. ASSUME NEW c \in Conns, cPc[c] = "done"
      PROVE  \E s \in Conns : /\ sHello'[s] = cHello'[c]
                              /\ sSeen'[s] = cSent'[c]
                              /\ conf'[s].serverKey = cKey'[c]
  <2>1. PICK s \in Conns : /\ sHello[s] = cHello[c]
                          /\ sSeen[s] = cSent[c]
                          /\ conf[s].serverKey = cKey[c]
    BY <1>0, <1>1 DEF Met
  <2>2. cHello[c] # NoFrame /\ cSent[c] # NoFrame
    BY <1>0, <1>1 DEF ClientProgress
  <2>. QED
    BY <1>0, <2>1, <2>2, Kept, ConfFixed
<1>. SUFFICES ASSUME NEW c \in Conns, cPc'[c] = "done", cPc[c] # "done"
              PROVE  \E s \in Conns : /\ sHello'[s] = cHello'[c]
                                      /\ sSeen'[s] = cSent'[c]
                                      /\ conf'[s].serverKey = cKey'[c]
  BY <1>1 DEF Met
<1>2. ClientCompletes(c)
  BY <1>0, DoneChanges
<1>. DEFINE m == Head(toClient[c])
<1>3. /\ cPc[c] = "complete" /\ ClientReads(c, {"ServerComplete"})
      /\ CompleteVerifies(c, m)
      /\ UNCHANGED <<conf, cHello, cKey, cSent, sHello, sSeen>>
  BY <1>0, <1>2 DEF ClientCompletes, ClientFails, serverVars, TypeOK
<1>4. m.type = "ServerComplete" /\ Origin(m)
  BY <1>0, <1>3, ReadOrigin, ReadByClient
<1>5. PICK s \in Conns : /\ sHello[s] # NoFrame
                        /\ sSeen[s] # NoFrame
                        /\ m = ServerComplete(conf[s].serverKey,
                                 conf[s].serverInsecure, sHello[s], sSeen[s])
  BY <1>4 DEF Origin
<1>. HIDE DEF m
(* The transcript that verifies is the server's and the client's.          *)
<1>6. sHello[s] = cHello[c] /\ sSeen[s] = cSent[c] /\ conf[s].serverKey = cKey[c]
  <2>1. m.sig.over = <<sHello[s], sSeen[s]>> /\ m.sig.by = conf[s].serverKey
    BY <1>5 DEF ServerComplete, Sign, Transcript
  <2>2. m.sig.over = <<cHello[c], cSent[c]>> /\ m.sig.by = cKey[c]
    BY <1>3 DEF CompleteVerifies, Verifies, Sign, Transcript
  <2>. QED
    BY <2>1, <2>2
<1>. QED
  BY <1>3, <1>6

-----------------------------------------------------------------------------
LEMMA InvStep == Inv /\ [Next]_vars => Inv'
<1>. SUFFICES ASSUME Inv, [Next]_vars PROVE Inv'
  OBVIOUS
<1>1. TypeInv'
  BY TypeInvStep DEF Inv
<1>. QED
  BY <1>1, OwnHelloStep, HelloReadStep, OwnAnswerStep, OnAirStep, QueuedStep,
     ServerAgreementStep, MetStep DEF Inv

THEOREM Invariance == Spec => []Inv
BY InvInit, InvStep, PTL DEF Spec

LEMMA ClientHelloFields ==
  \A key, insecure, packetKey, unique :
    ClientHello(key, insecure, packetKey, unique).body.packetKey = packetKey
BY DEF ClientHello, ClientBody

(* A server that has accepted a ClientHello has it from an authorized      *)
(* client that made it for this server's challenge: for any number of      *)
(* connections and whatever the radio loses, garbles or repeats.           *)
THEOREM ServersAgree == Spec => []ServerAgreement
<1>1. Inv => ServerAgreement
  BY DEF Inv
<1>. QED
  BY <1>1, Invariance, PTL

(* A client that is done faces a server that accepted its ClientHello, and *)
(* both will verify payloads with each other's packet keys.                *)
THEOREM ClientsAgree == Spec => []ClientAgreement
<1>1. Inv => ClientAgreement
  <2>. SUFFICES ASSUME Inv, NEW c \in Conns, cPc[c] = "done"
                PROVE  /\ conf[c].expected \in {NoKey, cKey[c]}
                       /\ \E s \in Conns :
                            /\ sHello[s] = cHello[c]
                            /\ sSeen[s] = cSent[c]
                            /\ conf[s].serverKey = cKey[c]
                            /\ cHello[c].packetKey = ServerPacketKey(s)
                            /\ sSeen[s].body.packetKey = ClientPacketKey(c)
    BY DEF ClientAgreement
  <2>0. /\ OwnHello /\ OwnAnswer /\ Met /\ ClientProgress
    BY DEF Inv, TypeInv
  <2>1. PICK s \in Conns : /\ sHello[s] = cHello[c]
                          /\ sSeen[s] = cSent[c]
                          /\ conf[s].serverKey = cKey[c]
    BY <2>0 DEF Met
  <2>2. cHello[c] # NoFrame /\ cSent[c] # NoFrame
    BY <2>0 DEF ClientProgress
  <2>3. cHello[c].packetKey = ServerPacketKey(s)
    BY <2>0, <2>1, <2>2 DEF OwnHello
  <2>4. /\ cSent[c].body.packetKey = ClientPacketKey(c)
        /\ conf[c].expected \in {NoKey, cKey[c]}
    BY <2>0, <2>2, ClientHelloFields DEF OwnAnswer
  <2>. QED
    BY <2>1, <2>3, <2>4
<1>. QED
  BY <1>1, Invariance, PTL

(* No handshake frame opens two sessions.                                  *)
THEOREM SessionsNotShared == Spec => []NoSharedSession
<1>1. Inv => NoSharedSession
  <2>. SUFFICES ASSUME Inv PROVE NoSharedSession
    OBVIOUS
  <2>0. /\ OwnHello /\ OwnAnswer /\ Met /\ ClientProgress
        /\ DistinctChallenges /\ ServerAgreement
    BY DEF Inv, TypeInv
  <2>1. ASSUME NEW s \in Conns, NEW t \in Conns, sHello[s] = sHello[t],
               sHello[s] # NoFrame
        PROVE  s = t
    BY <2>0, <2>1 DEF DistinctChallenges
  <2>2. ASSUME NEW c \in Conns, NEW d \in Conns, cSent[c] = cSent[d],
               cSent[c] # NoFrame
        PROVE  c = d
    <3>1. cSent[c].body.packetKey = ClientPacketKey(c)
      BY <2>0, <2>2, ClientHelloFields DEF OwnAnswer
    <3>2. cSent[d].body.packetKey = ClientPacketKey(d)
      BY <2>0, <2>2, ClientHelloFields DEF OwnAnswer
    <3>. QED
      BY <2>2, <3>1, <3>2 DEF ClientPacketKey
  <2>3. ASSUME NEW a \in Conns, NEW b \in Conns, sSeen[a] # NoFrame,
               sSeen[a] = sSeen[b]
        PROVE  a = b
    <3>1. PICK c \in Conns : cSent[c] = sSeen[a] /\ cHello[c] = sHello[a]
      BY <2>0, <2>3 DEF ServerAgreement
    <3>2. PICK d \in Conns : cSent[d] = sSeen[b] /\ cHello[d] = sHello[b]
      BY <2>0, <2>3 DEF ServerAgreement
    <3>3. c = d /\ cHello[c] # NoFrame
      BY <2>0, <2>2, <2>3, <3>1, <3>2 DEF OwnAnswer
    <3>. QED
      BY <2>1, <3>1, <3>2, <3>3
  <2>4. ASSUME NEW a \in Conns, NEW b \in Conns, cPc[a] = "done",
               cPc[b] = "done", cHello[a] = cHello[b]
        PROVE  a = b
    <3>1. PICK s \in Conns : sHello[s] = cHello[a] /\ sSeen[s] = cSent[a]
      BY <2>0, <2>4 DEF Met
    <3>2. PICK t \in Conns : sHello[t] = cHello[b] /\ sSeen[t] = cSent[b]
      BY <2>0, <2>4 DEF Met
    <3>3. cHello[a] # NoFrame /\ cSent[a] # NoFrame
      BY <2>0, <2>4 DEF ClientProgress
    <3>4. s = t
      BY <2>1, <2>4, <3>1, <3>2, <3>3
    <3>. QED
      BY <2>2, <3>1, <3>2, <3>3, <3>4
  <2>. QED
    BY <2>3, <2>4 DEF NoSharedSession
<1>. QED
  BY <1>1, Invariance, PTL
-----------------------------------------------------------------------------
(***************************************************************************)
(* A clean radio.  While nothing is lost or strayed, what is under way on  *)
(* a connection whose ends fit together is at most the one frame that the  *)
(* end it is for is waiting for - except to a client that has left, whose  *)
(* requests the server still answers.                                      *)
(***************************************************************************)
Answer(c) == ClientHello(conf[c].clientKey, conf[c].clientInsecure,
                         ClientPacketKey(c), sHello[c].unique)

Completion(c) == ServerComplete(conf[c].serverKey, conf[c].serverInsecure,
                                sHello[c], Answer(c))

(* Who fails has a reason, and only the reasons of a clean radio.          *)
Blameless(c) ==
  /\ cPc[c] = "failed" <=> cErr[c] # "none"
  /\ sPc[c] = "failed" <=> sErr[c] # "none"
  /\ cErr[c] \in {"none", "declined", "timeout", "eof"}
  /\ sErr[c] \in {"none", "timeout", "eof"}
  /\ cErr[c] = "eof" => sErr[c] = "timeout"
  /\ sErr[c] = "eof" => cErr[c] \in {"declined", "timeout"}

(* What the server may find, whether or not the client is still there.     *)
Expected(c) ==
  /\ toServer[c] \in Seq({RequestServerPubkey, Answer(c)})
  /\ sPc[c] = "idle" => /\ cPc[c] \in {"hello", "failed"}
                        /\ toServer[c] = <<>> /\ toClient[c] = <<>>

(* Nothing under way, a frame to the server, or a frame to the client.     *)
Silent(c)   == toServer[c] = <<>> /\ toClient[c] = <<>>
Asks(c, m)  == toServer[c] = <<m>> /\ toClient[c] = <<>>
Tells(c, m) == toServer[c] = <<>> /\ toClient[c] = <<m>>

(* One at a time, as long as the client is there.                          *)
InTurn(c) ==
  /\ cPc[c] = "hello" => Silent(c) \/ Tells(c, sHello[c])
  /\ cPc[c] = "pubkey" => \/ Asks(c, RequestServerPubkey) \/ Silent(c)
                          \/ Tells(c, ServerPubkey(conf[c].serverKey))
  /\ cPc[c] = "prompt" => Silent(c)
  /\ cPc[c] = "complete" => \/ Asks(c, Answer(c)) \/ Silent(c)
                            \/ Tells(c, Completion(c))
  /\ cPc[c] \in {"pubkey", "prompt", "complete"} => cHello[c] = sHello[c]
  /\ cPc[c] \in {"prompt", "complete"} => cKey[c] = conf[c].serverKey
  /\ cPc[c] = "complete" => cSent[c] = Answer(c)

Clean(c) == Blameless(c) /\ Expected(c) /\ InTurn(c)

CleanRadio == faults = 0 => \A c \in Conns : Compatible(c) => Clean(c)

LEMMA InitClean == Init => CleanRadio
<1>. SUFFICES ASSUME Init, NEW c \in Conns PROVE Clean(c)
  BY DEF CleanRadio
<1>1. /\ cPc[c] = "hello" /\ sPc[c] = "idle" /\ cErr[c] = "none" /\ sErr[c] = "none"
      /\ toServer[c] = <<>> /\ toClient[c] = <<>>
  BY DEF Init
<1>2. <<>> \in Seq({RequestServerPubkey, Answer(c)})
  OBVIOUS
<1>. QED
  BY <1>1, <1>2 DEF Clean, Blameless, Expected, InTurn, Silent

(* A step of one connection leaves the others as they are.                 *)
LEMMA Elsewhere ==
  ASSUME TypeOK, [Next]_vars, ~UNCHANGED vars, faults' = 0
  PROVE  \E d \in Conns :
           /\ ServerTask(d) \/ ClientTask(d) \/ User(d) \/ Timers(d) \/ Hangups(d)
           /\ \A c \in Conns \ {d} :
                /\ cPc'[c] = cPc[c] /\ cErr'[c] = cErr[c] /\ cHello'[c] = cHello[c]
                /\ cKey'[c] = cKey[c] /\ cSent'[c] = cSent[c]
                /\ sPc'[c] = sPc[c] /\ sErr'[c] = sErr[c] /\ sHello'[c] = sHello[c]
                /\ toServer'[c] = toServer[c] /\ toClient'[c] = toClient[c]
<1>. DEFINE Same(d) ==
       \A c \in Conns \ {d} :
         /\ cPc'[c] = cPc[c] /\ cErr'[c] = cErr[c] /\ cHello'[c] = cHello[c]
         /\ cKey'[c] = cKey[c] /\ cSent'[c] = cSent[c]
         /\ sPc'[c] = sPc[c] /\ sErr'[c] = sErr[c] /\ sHello'[c] = sHello[c]
         /\ toServer'[c] = toServer[c] /\ toClient'[c] = toClient[c]
<1>1. faults \in Nat
  BY DEF TypeOK
<1>2. PICK d \in Conns : \/ ServerTask(d) \/ ClientTask(d) \/ User(d)
                         \/ Timers(d) \/ Hangups(d) \/ Radio(d)
  BY DEF Next
<1>3. ~Radio(d)
  BY <1>1 DEF Radio, LoseToServer, LoseToClient, StrayToServer, StrayToClient
<1>4. ASSUME ServerTask(d) PROVE Same(d)
  <2>1. CASE ServerStart(d)
    BY <2>1 DEF ServerStart, SendToClient, TypeOK, clientVars
  <2>2. CASE ServerAnswersKeyRequest(d)
    BY <2>2 DEF ServerAnswersKeyRequest, ServerReads, SendToClient, TypeOK, clientVars,
       serverVars
  <2>3. CASE ServerAccepts(d)
    BY <2>3 DEF ServerAccepts, ServerReads, SendToClient, TypeOK, clientVars
  <2>4. CASE ServerRefuses(d)
    BY <2>4 DEF ServerRefuses, ServerReads, ServerFails, TypeOK, clientVars
  <2>5. CASE ServerRejectsFrame(d)
    BY <2>5 DEF ServerRejectsFrame, ServerReads, ServerFails, TypeOK, clientVars
  <2>6. CASE ServerFlushes(d)
    BY <2>6 DEF ServerFlushes, TypeOK, clientVars, netVars
  <2>. QED
    BY <1>4, <2>1, <2>2, <2>3, <2>4, <2>5, <2>6 DEF ServerTask
<1>5. ASSUME ClientTask(d) PROVE Same(d)
  <2>1. CASE ClientKnowsServer(d)
    BY <2>1 DEF ClientKnowsServer, ClientReads, SendClientHello, SendToServer, TypeOK,
       serverVars
  <2>2. CASE ClientRefusesServer(d)
    BY <2>2 DEF ClientRefusesServer, ClientReads, ClientFails, TypeOK, serverVars
  <2>3. CASE ClientRequestsKey(d)
    BY <2>3 DEF ClientRequestsKey, ClientReads, SendToServer, TypeOK, serverVars
  <2>4. CASE ClientReadsKey(d)
    BY <2>4 DEF ClientReadsKey, ClientReads, ClientFails, TypeOK, serverVars
  <2>5. CASE ClientCompletes(d)
    BY <2>5 DEF ClientCompletes, ClientReads, ClientFails, TypeOK, serverVars
  <2>6. CASE ClientRejectsFrame(d)
    BY <2>6 DEF ClientRejectsFrame, ClientReads, ClientFails, TypeOK, serverVars
  <2>. QED
    BY <1>5, <2>1, <2>2, <2>3, <2>4, <2>5, <2>6 DEF ClientTask
<1>6. ASSUME User(d) \/ Timers(d) \/ Hangups(d) PROVE Same(d)
  <2>1. CASE UserAccepts(d)
    BY <2>1 DEF UserAccepts, SendClientHello, SendToServer, TypeOK, serverVars
  <2>2. CASE UserDeclines(d)
    BY <2>2 DEF UserDeclines, ClientFails, TypeOK, serverVars, netVars
  <2>3. CASE ServerTimeout(d) \/ ServerHangup(d)
    BY <2>3 DEF ServerTimeout, ServerHangup, ServerFails, TypeOK, clientVars, netVars
  <2>4. CASE ClientTimeout(d) \/ ClientHangup(d)
    BY <2>4 DEF ClientTimeout, ClientHangup, ClientFails, TypeOK, serverVars, netVars
  <2>. QED
    BY <1>6, <2>1, <2>2, <2>3, <2>4 DEF User, Timers, Hangups
<1>. QED
  BY <1>2, <1>3, <1>4, <1>5, <1>6

(* Steps in which nothing is sent or read.                                 *)
LEMMA SilentClean ==
  ASSUME NEW c \in Conns, Clean(c), Blameless(c)', conf' = conf,
         cHello'[c] = cHello[c], cKey'[c] = cKey[c], cSent'[c] = cSent[c],
         sHello'[c] = sHello[c], toServer'[c] = toServer[c], toClient'[c] = toClient[c],
         cPc'[c] \in {cPc[c], "failed"}, sPc'[c] = "idle" => sPc[c] = "idle"
  PROVE  Clean(c)'
<1>1. Answer(c)' = Answer(c)
  BY DEF Answer, ClientPacketKey
<1>2. Expected(c)'
  BY <1>1 DEF Clean, Expected
<1>3. Completion(c)' = Completion(c)
  BY <1>1 DEF Completion
<1>4. InTurn(c)'
  BY <1>1, <1>3 DEF Clean, InTurn, Silent, Asks, Tells
<1>. QED
  BY <1>2, <1>4 DEF Clean

(* The frames of a fitting pair are what their readers wait for.           *)
LEMMA AnswerAccepted ==
  ASSUME TypeOK, NEW c \in Conns, Compatible(c)
  PROVE  /\ Answer(c).type = "ClientHello"
         /\ Acceptable(c, Answer(c))
<1>1. /\ Answer(c).type = "ClientHello"
      /\ Answer(c).body = ClientBody(conf[c].clientKey, ClientPacketKey(c))
      /\ Answer(c).sig = Sign(conf[c].clientKey, conf[c].clientInsecure,
                              <<sHello[c].unique, Answer(c).body>>)
  BY DEF Answer, ClientHello
<1>2. Answer(c).body.digest = Digest(conf[c].clientKey)
  BY <1>1 DEF ClientBody
<1>3. /\ conf[c].clientInsecure = conf[c].serverInsecure
      /\ conf[c].clientKey \in AuthorizedKeys
  BY DEF Compatible
<1>4. Parses(Answer(c), conf[c].serverInsecure)
  BY <1>1, <1>3 DEF Parses, Sign
<1>5. Authorized(Answer(c).body.digest)
  BY <1>2, <1>3 DEF Authorized
<1>6. AuthorizedKey(Answer(c).body.digest) = conf[c].clientKey
  BY <1>2 DEF AuthorizedKey, Digest
<1>7. ClientHelloVerifies(c, Answer(c))
  BY <1>1, <1>3, <1>6 DEF ClientHelloVerifies, Verifies
<1>. QED
  BY <1>1, <1>4, <1>5, <1>7 DEF Acceptable

LEMMA CompletionVerifies ==
  ASSUME NEW c \in Conns, Compatible(c), InTurn(c), cPc[c] = "complete"
  PROVE  /\ Completion(c).type = "ServerComplete"
         /\ CompleteVerifies(c, Completion(c))
BY DEF Compatible, InTurn, Completion, ServerComplete, CompleteVerifies, Verifies

(* What is at the head of a stream, and what a step makes of it.           *)
LEMMA OneFrame ==
  ASSUME NEW m
  PROVE  /\ <<m>> # <<>> /\ Head(<<m>>) = m /\ Tail(<<m>>) = <<>>
         /\ Append(<<>>, m) = <<m>>
OBVIOUS

-----------------------------------------------------------------------------
(* What the server's steps do to a clean connection.                       *)

LEMMA ServerStartClean ==
  ASSUME Inv, NEW c \in Conns, Clean(c), ServerStart(c) PROVE Clean(c)'
<1>0. TypeOK
  BY DEF Inv, TypeInv
<1>1. /\ sPc[c] = "idle" /\ sPc'[c] = "hello"
      /\ toClient'[c] = Append(toClient[c], sHello'[c])
      /\ UNCHANGED <<conf, clientVars, sErr, toServer>>
  BY <1>0 DEF ServerStart, SendToClient, TypeOK
<1>2. /\ cPc[c] \in {"hello", "failed"} /\ toServer[c] = <<>>
      /\ toClient'[c] = <<sHello'[c]>>
  BY <1>1, OneFrame DEF Clean, Expected
<1>3. Blameless(c)'
  BY <1>1 DEF Clean, Blameless, clientVars
<1>4. Expected(c)'
  <2>1. toServer'[c] = <<>> /\ sPc'[c] # "idle"
    BY <1>1, <1>2
  <2>2. <<>> \in Seq({RequestServerPubkey, Answer(c)'})
    OBVIOUS
  <2>. QED
    BY <2>1, <2>2 DEF Expected
<1>5. InTurn(c)'
  <2>1. cPc'[c] \in {"hello", "failed"}
    BY <1>1, <1>2 DEF clientVars
  <2>. QED
    BY <1>1, <1>2, <2>1 DEF InTurn, Tells
<1>. QED
  BY <1>3, <1>4, <1>5 DEF Clean

LEMMA ServerAnswersClean ==
  ASSUME Inv, NEW c \in Conns, Compatible(c), Clean(c), ServerAnswersKeyRequest(c)
  PROVE  Clean(c)'
<1>0. TypeOK
  BY DEF Inv, TypeInv
<1>1. /\ sPc[c] = "hello"
      /\ toServer[c] # <<>> /\ Head(toServer[c]).type = "RequestServerPubkey"
      /\ toServer'[c] = Tail(toServer[c])
      /\ toClient'[c] = Append(toClient[c], ServerPubkey(conf[c].serverKey))
      /\ UNCHANGED <<conf, clientVars, serverVars>>
  BY <1>0 DEF ServerAnswersKeyRequest, ServerReads, SendToClient, TypeOK
<1>2. Answer(c)' = Answer(c)
  BY <1>1 DEF Answer, ClientPacketKey, serverVars
<1>3. Blameless(c)'
  BY <1>1 DEF Clean, Blameless, clientVars, serverVars
<1>4. Expected(c)'
  <2>1. sPc'[c] # "idle"
    BY <1>1 DEF serverVars
  <2>2. toServer[c] \in Seq({RequestServerPubkey, Answer(c)})
    BY DEF Clean, Expected
  <2>3. toServer'[c] \in Seq({RequestServerPubkey, Answer(c)})
    BY <1>1, <2>2, QueueOps
  <2>. QED
    BY <1>2, <2>1, <2>3 DEF Expected
<1>5. cPc[c] = "pubkey" => Tells(c, ServerPubkey(conf[c].serverKey))'
  BY <1>1, OneFrame DEF Clean, InTurn, Asks, Silent, Tells
<1>6. cPc[c] \notin {"hello", "prompt", "complete"}
  BY <1>1, OneFrame, <1>0, AnswerAccepted DEF Clean, InTurn, Asks, Silent, Tells
<1>7. InTurn(c)'
  BY <1>1, <1>5, <1>6 DEF Clean, InTurn, clientVars, serverVars
<1>. QED
  BY <1>3, <1>4, <1>7 DEF Clean

LEMMA ServerAcceptsClean ==
  ASSUME Inv, NEW c \in Conns, Compatible(c), Clean(c), ServerAccepts(c)
  PROVE  Clean(c)'
<1>0. TypeOK
  BY DEF Inv, TypeInv
<1>1. /\ sPc[c] = "hello" /\ sPc'[c] = "flush"
      /\ toServer[c] # <<>> /\ Head(toServer[c]).type = "ClientHello"
      /\ toServer'[c] = Tail(toServer[c])
      /\ toClient'[c] = Append(toClient[c], ServerComplete(conf[c].serverKey,
                          conf[c].serverInsecure, sHello[c], Head(toServer[c])))
      /\ UNCHANGED <<conf, clientVars, sErr, sHello>>
  BY <1>0 DEF ServerAccepts, ServerReads, SendToClient, TypeOK
<1>2. Answer(c)' = Answer(c) /\ Completion(c)' = Completion(c)
  BY <1>1 DEF Answer, Completion, ClientPacketKey
<1>3. Blameless(c)'
  BY <1>1 DEF Clean, Blameless, clientVars
<1>4. Expected(c)'
  <2>1. toServer[c] \in Seq({RequestServerPubkey, Answer(c)})
    BY DEF Clean, Expected
  <2>2. toServer'[c] \in Seq({RequestServerPubkey, Answer(c)})
    BY <1>1, <2>1, QueueOps
  <2>. QED
    BY <1>1, <1>2, <2>2 DEF Expected
<1>5. cPc[c] = "complete" => Tells(c, Completion(c))'
  BY <1>1, <1>2, OneFrame DEF Clean, InTurn, Asks, Silent, Tells, Completion
<1>6. cPc[c] \notin {"hello", "pubkey", "prompt"}
  BY <1>1, OneFrame DEF Clean, InTurn, Asks, Silent, Tells, RequestServerPubkey
<1>7. InTurn(c)'
  BY <1>1, <1>2, <1>5, <1>6 DEF Clean, InTurn, clientVars
<1>. QED
  BY <1>3, <1>4, <1>7 DEF Clean

(* The server finds nothing to refuse.                                     *)
LEMMA ServerRefusesNothing ==
  ASSUME Inv, NEW c \in Conns, Compatible(c), Clean(c)
  PROVE  ~ServerRefuses(c) /\ ~ServerRejectsFrame(c)
<1>0. TypeOK
  BY DEF Inv, TypeInv
<1>1. toServer[c] # <<>> => Head(toServer[c]) \in {RequestServerPubkey, Answer(c)}
  <2>1. toServer[c] \in Seq({RequestServerPubkey, Answer(c)})
    BY DEF Clean, Expected
  <2>. QED
    BY <2>1, QueueOps
<1>2. /\ RequestServerPubkey.type = "RequestServerPubkey"
      /\ Answer(c).type = "ClientHello" /\ Acceptable(c, Answer(c))
  BY <1>0, AnswerAccepted DEF RequestServerPubkey
<1>. QED
  BY <1>1, <1>2 DEF ServerRefuses, ServerRejectsFrame, ServerReads

LEMMA ServerLeavesClean ==
  ASSUME Inv, NEW c \in Conns, Clean(c),
         ServerFlushes(c) \/ ServerTimeout(c) \/ ServerHangup(c)
  PROVE  Clean(c)'
<1>0. TypeOK
  BY DEF Inv, TypeInv
<1>1. CASE ServerFlushes(c)
  <2>1. /\ sPc[c] = "flush" /\ sPc'[c] = "done"
        /\ UNCHANGED <<conf, clientVars, sErr, sHello, netVars>>
    BY <1>0, <1>1 DEF ServerFlushes, TypeOK
  <2>2. Blameless(c)'
    BY <2>1 DEF Clean, Blameless, clientVars
  <2>. QED
    BY <2>1, <2>2, SilentClean DEF clientVars, netVars
<1>2. CASE ServerTimeout(c)
  <2>1. /\ sPc[c] \in {"hello", "flush"} /\ sPc'[c] = "failed" /\ sErr'[c] = "timeout"
        /\ UNCHANGED <<conf, clientVars, sHello, netVars>>
    BY <1>0, <1>2 DEF ServerTimeout, ServerWaits, ServerFails, TypeOK
  <2>2. Blameless(c)'
    BY <2>1 DEF Clean, Blameless, clientVars
  <2>. QED
    BY <2>1, <2>2, SilentClean DEF clientVars, netVars
<1>3. CASE ServerHangup(c)
  <2>1. /\ sPc[c] \in {"hello", "flush"} /\ sPc'[c] = "failed" /\ sErr'[c] = "eof"
        /\ cPc[c] = "failed"
        /\ UNCHANGED <<conf, clientVars, sHello, netVars>>
    BY <1>0, <1>3 DEF ServerHangup, ServerWaits, ServerFails, TypeOK
  <2>2. Blameless(c)'
    BY <2>1 DEF Clean, Blameless, clientVars
  <2>. QED
    BY <2>1, <2>2, SilentClean DEF clientVars, netVars
<1>. QED
  BY <1>1, <1>2, <1>3

-----------------------------------------------------------------------------
(* What the client's steps do to a clean connection.                       *)

(* The ServerHello that is read is the connection's own.                   *)
LEMMA CleanHello ==
  ASSUME Inv, NEW c \in Conns, Clean(c), cPc[c] = "hello",
         ClientReads(c, {"ServerHello"})
  PROVE  /\ Head(toClient[c]) = sHello[c] /\ sHello[c] # NoFrame
         /\ toServer[c] = <<>> /\ toClient'[c] = <<>>
         /\ sHello[c].digest = Digest(conf[c].serverKey)
<1>0. TypeOK /\ ServerProgress /\ OwnHello
  BY DEF Inv, TypeInv
<1>1. Tells(c, sHello[c])
  BY DEF Clean, InTurn, Silent, ClientReads
<1>2. sHello[c] # NoFrame
  BY <1>0, <1>1, OneFrame DEF Tells, Clean, Expected, ServerProgress
<1>3. toClient'[c] = <<>>
  BY <1>0, <1>1, OneFrame DEF Tells, ClientReads, TypeOK
<1>. QED
  BY <1>0, <1>1, <1>2, <1>3, OneFrame DEF Tells, OwnHello

(* A client that is past its first read has a server that is not idle.     *)
LEMMA ServerAwake ==
  ASSUME Inv, NEW c \in Conns, Clean(c), sHello[c] # NoFrame
  PROVE  sPc[c] # "idle"
BY DEF Inv, TypeInv, ServerProgress

LEMMA SendsHelloClean ==
  ASSUME Inv, NEW c \in Conns, Clean(c), sHello[c] # NoFrame,
         toServer[c] = <<>>, toClient'[c] = <<>>, cPc[c] # "failed",
         cHello'[c] = sHello[c],
         SendClientHello(c, conf[c].serverKey, sHello[c]),
         UNCHANGED <<conf, cErr, serverVars>>
  PROVE  Clean(c)'
<1>0. TypeOK
  BY DEF Inv, TypeInv
<1>1. /\ cPc'[c] = "complete" /\ cKey'[c] = conf[c].serverKey
      /\ cSent'[c] = Answer(c) /\ toServer'[c] = Append(toServer[c], Answer(c))
  BY <1>0 DEF SendClientHello, SendToServer, Answer, TypeOK
<1>2. Answer(c)' = Answer(c) /\ conf' = conf /\ sHello' = sHello
  BY DEF Answer, ClientPacketKey, serverVars
<1>3. Asks(c, Answer(c))'
  BY <1>1, <1>2, OneFrame DEF Asks
<1>4. Blameless(c)'
  BY <1>1 DEF Clean, Blameless, serverVars
<1>5. Expected(c)'
  <2>1. sPc'[c] # "idle"
    BY ServerAwake DEF serverVars
  <2>2. <<Answer(c)>> \in Seq({RequestServerPubkey, Answer(c)})
    OBVIOUS
  <2>. QED
    BY <1>2, <1>3, <2>1, <2>2 DEF Expected, Asks
<1>6. InTurn(c)'
  BY <1>1, <1>2, <1>3 DEF InTurn
<1>. QED
  BY <1>4, <1>5, <1>6 DEF Clean

LEMMA ClientReadsHelloClean ==
  ASSUME Inv, NEW c \in Conns, Compatible(c), Clean(c),
         ClientKnowsServer(c) \/ ClientRefusesServer(c) \/ ClientRequestsKey(c)
  PROVE  Clean(c)'
<1>0. TypeOK
  BY DEF Inv, TypeInv
<1>1. cPc[c] = "hello" /\ ClientReads(c, {"ServerHello"}) /\ UNCHANGED <<conf, serverVars>>
  BY DEF ClientKnowsServer, ClientRefusesServer, ClientRequestsKey
<1>2. /\ Head(toClient[c]) = sHello[c] /\ sHello[c] # NoFrame
      /\ toServer[c] = <<>> /\ toClient'[c] = <<>>
      /\ sHello[c].digest = Digest(conf[c].serverKey)
  BY <1>1, CleanHello
<1>3. CASE ClientKnowsServer(c)
  <2>1. /\ conf[c].expected = conf[c].serverKey
        /\ cHello'[c] = sHello[c]
        /\ SendClientHello(c, conf[c].expected, sHello[c])
        /\ UNCHANGED cErr
    BY <1>0, <1>2, <1>3 DEF ClientKnowsServer, Compatible, TypeOK
  <2>. QED
    BY <1>1, <1>2, <2>1, SendsHelloClean
<1>4. ~ClientRefusesServer(c)
  BY <1>2 DEF ClientRefusesServer, DigestMatches, Compatible
<1>5. CASE ClientRequestsKey(c)
  <2>1. /\ cHello'[c] = sHello[c] /\ cPc'[c] = "pubkey"
        /\ toServer'[c] = Append(toServer[c], RequestServerPubkey)
        /\ UNCHANGED cErr
    BY <1>0, <1>2, <1>5 DEF ClientRequestsKey, SendToServer, TypeOK
  <2>2. Answer(c)' = Answer(c) /\ sHello' = sHello
    BY <1>1 DEF Answer, ClientPacketKey, serverVars
  <2>3. Asks(c, RequestServerPubkey)'
    BY <1>2, <2>1, OneFrame DEF Asks
  <2>4. Blameless(c)'
    BY <1>1, <2>1 DEF Clean, Blameless, serverVars
  <2>5. Expected(c)'
    <3>1. sPc'[c] # "idle"
      BY <1>1, <1>2, ServerAwake DEF serverVars
    <3>2. <<RequestServerPubkey>> \in Seq({RequestServerPubkey, Answer(c)})
      OBVIOUS
    <3>. QED
      BY <2>2, <2>3, <3>1, <3>2 DEF Expected, Asks
  <2>6. InTurn(c)'
    BY <2>1, <2>2, <2>3 DEF InTurn
  <2>. QED
    BY <2>4, <2>5, <2>6 DEF Clean
<1>. QED
  BY <1>3, <1>4, <1>5

LEMMA ClientReadsKeyClean ==
  ASSUME Inv, NEW c \in Conns, Compatible(c), Clean(c), ClientReadsKey(c)
  PROVE  Clean(c)'
<1>0. TypeOK /\ ServerProgress /\ ClientProgress /\ OwnHello
  BY DEF Inv, TypeInv
<1>1. /\ cPc[c] = "pubkey" /\ toClient[c] # <<>>
      /\ toClient'[c] = Tail(toClient[c])
      /\ UNCHANGED <<conf, cHello, cSent, serverVars, toServer>>
  BY <1>0 DEF ClientReadsKey, ClientReads, TypeOK
<1>2. Tells(c, ServerPubkey(conf[c].serverKey)) /\ cHello[c] = sHello[c]
  BY <1>1 DEF Clean, InTurn, Asks, Silent
<1>3. /\ Head(toClient[c]).key = conf[c].serverKey
      /\ toServer'[c] = <<>> /\ toClient'[c] = <<>>
  BY <1>1, <1>2, OneFrame DEF Tells, ServerPubkey
<1>4. DigestMatches(conf[c].serverKey, cHello[c])
  BY <1>0, <1>1, <1>2 DEF DigestMatches, OwnHello, ClientProgress
<1>5. cPc'[c] = "prompt" /\ cKey'[c] = conf[c].serverKey /\ UNCHANGED cErr
  BY <1>0, <1>3, <1>4 DEF ClientReadsKey, TypeOK
<1>6. Blameless(c)'
  BY <1>1, <1>5 DEF Clean, Blameless, serverVars
<1>7. Expected(c)'
  <2>1. sPc'[c] # "idle"
    BY <1>1 DEF Clean, Expected, serverVars
  <2>2. <<>> \in Seq({RequestServerPubkey, Answer(c)'})
    OBVIOUS
  <2>. QED
    BY <1>3, <2>1, <2>2 DEF Expected
<1>8. InTurn(c)'
  BY <1>1, <1>2, <1>3, <1>5 DEF InTurn, Silent, serverVars
<1>. QED
  BY <1>6, <1>7, <1>8 DEF Clean

LEMMA UserAcceptsClean ==
  ASSUME Inv, NEW c \in Conns, Clean(c), UserAccepts(c) PROVE Clean(c)'
<1>0. TypeOK /\ ClientProgress
  BY DEF Inv, TypeInv
<1>1. /\ cPc[c] = "prompt" /\ SendClientHello(c, cKey[c], cHello[c])
      /\ UNCHANGED <<conf, cErr, cHello, serverVars, toClient>>
  BY DEF UserAccepts
<1>2. /\ cKey[c] = conf[c].serverKey /\ cHello[c] = sHello[c]
      /\ toServer[c] = <<>> /\ toClient[c] = <<>>
  BY <1>1 DEF Clean, InTurn, Silent
<1>3. sHello[c] # NoFrame
  BY <1>0, <1>1, <1>2 DEF ClientProgress
<1>. QED
  BY <1>1, <1>2, <1>3, SendsHelloClean

LEMMA ClientCompletesClean ==
  ASSUME Inv, NEW c \in Conns, Compatible(c), Clean(c), ClientCompletes(c)
  PROVE  Clean(c)'
<1>0. TypeOK
  BY DEF Inv, TypeInv
<1>1. /\ cPc[c] = "complete" /\ toClient[c] # <<>>
      /\ UNCHANGED <<conf, cHello, cKey, cSent, serverVars, toServer>>
  BY DEF ClientCompletes, ClientReads
<1>2. Tells(c, Completion(c)) /\ InTurn(c)
  BY <1>1 DEF Clean, InTurn, Asks, Silent
<1>3. CompleteVerifies(c, Head(toClient[c]))
  BY <1>1, <1>2, CompletionVerifies, OneFrame DEF Tells
<1>4. cPc'[c] = "done" /\ UNCHANGED cErr
  BY <1>0, <1>3 DEF ClientCompletes, TypeOK
<1>5. Answer(c)' = Answer(c)
  BY <1>1 DEF Answer, ClientPacketKey, serverVars
<1>6. Blameless(c)'
  BY <1>1, <1>4 DEF Clean, Blameless, serverVars
<1>7. Expected(c)'
  BY <1>1, <1>5 DEF Clean, Expected, serverVars
<1>8. InTurn(c)'
  BY <1>4 DEF InTurn
<1>. QED
  BY <1>6, <1>7, <1>8 DEF Clean

LEMMA ClientRejectsNothing ==
  ASSUME Inv, NEW c \in Conns, Compatible(c), Clean(c)
  PROVE  ~ClientRejectsFrame(c)
<1>0. TypeOK /\ ServerProgress
  BY DEF Inv, TypeInv
<1>1. SUFFICES ASSUME cPc[c] \in ClientReading, toClient[c] # <<>>
               PROVE  Head(toClient[c]).type = ExpectedType(c)
  BY DEF ClientRejectsFrame, ClientReads
<1>2. CASE cPc[c] = "hello"
  <2>1. Head(toClient[c]) = sHello[c] /\ sPc[c] # "idle"
    BY <1>1, <1>2, OneFrame DEF Clean, InTurn, Silent, Tells, Expected
  <2>2. sHello[c] \in ServerHellos
    BY <1>0, <2>1 DEF TypeOK, ServerProgress
  <2>. QED
    BY <1>2, <2>1, <2>2 DEF ExpectedType, ServerHellos
<1>3. CASE cPc[c] = "pubkey"
  <2>1. Head(toClient[c]) = ServerPubkey(conf[c].serverKey)
    BY <1>1, <1>3, OneFrame DEF Clean, InTurn, Silent, Asks, Tells
  <2>. QED
    BY <1>3, <2>1 DEF ExpectedType, ServerPubkey
<1>4. CASE cPc[c] = "complete"
  <2>1. Head(toClient[c]) = Completion(c)
    BY <1>1, <1>4, OneFrame DEF Clean, InTurn, Silent, Asks, Tells
  <2>. QED
    BY <1>4, <2>1 DEF ExpectedType, Completion, ServerComplete
<1>. QED
  BY <1>1, <1>2, <1>3, <1>4 DEF ClientReading

LEMMA ClientLeavesClean ==
  ASSUME Inv, NEW c \in Conns, Clean(c),
         UserDeclines(c) \/ ClientTimeout(c) \/ ClientHangup(c)
  PROVE  Clean(c)'
<1>0. TypeOK
  BY DEF Inv, TypeInv
<1>1. PICK why \in {"declined", "timeout", "eof"} :
        /\ cErr'[c] = why
        /\ why = "eof" => sPc[c] = "failed"
  BY <1>0 DEF UserDeclines, ClientTimeout, ClientHangup, ClientFails, TypeOK
<1>2. /\ cPc[c] # "failed" /\ cPc'[c] = "failed"
      /\ UNCHANGED <<conf, cHello, cKey, cSent, serverVars, netVars>>
  BY <1>0 DEF UserDeclines, ClientTimeout, ClientHangup, ClientTimed, ClientReading,
     ClientFails, TypeOK
<1>3. Blameless(c)'
  BY <1>1, <1>2 DEF Clean, Blameless, serverVars
<1>. QED
  BY <1>2, <1>3, SilentClean DEF serverVars, netVars

-----------------------------------------------------------------------------
LEMMA OwnStepClean ==
  ASSUME Inv, NEW c \in Conns, Compatible(c), Clean(c),
         ServerTask(c) \/ ClientTask(c) \/ User(c) \/ Timers(c) \/ Hangups(c)
  PROVE  Clean(c)'
<1>1. CASE ServerTask(c)
  BY <1>1, ServerStartClean, ServerAnswersClean, ServerAcceptsClean,
     ServerRefusesNothing, ServerLeavesClean DEF ServerTask
<1>2. CASE ClientTask(c)
  BY <1>2, ClientReadsHelloClean, ClientReadsKeyClean, ClientCompletesClean,
     ClientRejectsNothing DEF ClientTask
<1>3. CASE User(c) \/ Timers(c) \/ Hangups(c)
  BY <1>3, UserAcceptsClean, ServerLeavesClean, ClientLeavesClean
     DEF User, Timers, Hangups
<1>. QED
  BY <1>1, <1>2, <1>3

LEMMA CleanStep == Inv /\ CleanRadio /\ [Next]_vars => CleanRadio'
<1>. SUFFICES ASSUME Inv, CleanRadio, [Next]_vars, faults' = 0,
                     NEW c \in Conns, Compatible(c)'
              PROVE  Clean(c)'
  BY DEF CleanRadio
<1>0. TypeOK /\ conf' = conf
  BY ConfFixed DEF Inv, TypeInv
<1>1. Compatible(c)
  BY <1>0 DEF Compatible
<1>2. CASE UNCHANGED vars
  <2>1. Clean(c)
    BY <1>1, <1>2 DEF CleanRadio, vars, netVars
  <2>2. Blameless(c)'
    BY <1>2, <2>1 DEF Clean, Blameless, vars, clientVars, serverVars
  <2>. QED
    BY <1>2, <2>1, <2>2, SilentClean DEF vars, clientVars, serverVars, netVars
<1>3. CASE ~UNCHANGED vars
  <2>1. PICK d \in Conns :
          /\ ServerTask(d) \/ ClientTask(d) \/ User(d) \/ Timers(d) \/ Hangups(d)
          /\ \A e \in Conns \ {d} :
               /\ cPc'[e] = cPc[e] /\ cErr'[e] = cErr[e] /\ cHello'[e] = cHello[e]
               /\ cKey'[e] = cKey[e] /\ cSent'[e] = cSent[e]
               /\ sPc'[e] = sPc[e] /\ sErr'[e] = sErr[e] /\ sHello'[e] = sHello[e]
               /\ toServer'[e] = toServer[e] /\ toClient'[e] = toClient[e]
    BY <1>0, <1>3, Elsewhere
  <2>2. faults' = faults
    BY <2>1 DEF ServerTask, ClientTask, User, Timers, Hangups, ServerStart,
       ServerAnswersKeyRequest, ServerAccepts, ServerRefuses, ServerRejectsFrame,
       ServerFlushes, ClientKnowsServer, ClientRefusesServer, ClientRequestsKey,
       ClientReadsKey, ClientCompletes, ClientRejectsFrame, UserAccepts, UserDeclines,
       ServerTimeout, ClientTimeout, ServerHangup, ClientHangup, netVars
  <2>3. Clean(c)
    BY <1>1, <2>2 DEF CleanRadio
  <2>4. CASE c = d
    BY <1>1, <2>1, <2>3, <2>4, OwnStepClean
  <2>5. CASE c # d
    <3>1. Blameless(c)'
      BY <2>1, <2>3, <2>5 DEF Clean, Blameless
    <3>. QED
      BY <1>0, <2>1, <2>3, <2>5, <3>1, SilentClean
  <2>. QED
    BY <2>4, <2>5
<1>. QED
  BY <1>2, <1>3

(* Ends that fit together fail only because a timer fired or the user      *)
(* declined, if nothing is lost or strayed on the radio - on any number of *)
(* connections, next to any that do not fit (client.rs:69-91,              *)
(* server.rs:98-122).                                                      *)
THEOREM FittingEndsSucceed == Spec => []CleanHandshakesSucceed
<1>1. CleanRadio => CleanHandshakesSucceed
  BY DEF CleanRadio, CleanHandshakesSucceed, Clean, Blameless
<1>. QED
  BY InvInit, InvStep, InitClean, CleanStep, <1>1, PTL DEF Spec

-----------------------------------------------------------------------------
(***************************************************************************)
(* The handshake implements Agreement: every step of Handshake is, under   *)
(* the mapping of HandshakeRefines, one offer, acceptance or confirmation, *)
(* or changes nothing Agreement sees.                                      *)
(***************************************************************************)

(* The CHOOSEs of the mapping have one candidate each.                     *)
LEMMA OneHello ==
  ASSUME Inv, NEW s \in Conns, NEW t \in Conns, sHello[s] # NoFrame,
         sHello[s] = sHello[t]
  PROVE  s = t
BY DEF Inv, DistinctChallenges

LEMMA OneAnswer ==
  ASSUME Inv, NEW c \in Conns, NEW d \in Conns, cSent[c] # NoFrame,
         cSent[c] = cSent[d]
  PROVE  c = d
<1>1. cSent[c].body.packetKey = ClientPacketKey(c)
  BY ClientHelloFields DEF Inv, OwnAnswer
<1>2. cSent[d].body.packetKey = ClientPacketKey(d)
  BY ClientHelloFields DEF Inv, OwnAnswer
<1>. QED
  BY <1>1, <1>2 DEF ClientPacketKey

(* What the mapping yields, without CHOOSE.                                *)
OfferedToIs ==
  \A c \in Conns :
    /\ cSent[c] = NoFrame => OfferedTo[c] = NoConn
    /\ cSent[c] # NoFrame =>
         /\ OfferedTo[c] \in Conns
         /\ \A s \in Conns : sHello[s] = cHello[c] <=> OfferedTo[c] = s

AcceptedFromIs ==
  \A s \in Conns :
    /\ sSeen[s] = NoFrame => AcceptedFrom[s] = NoConn
    /\ sSeen[s] # NoFrame =>
         /\ AcceptedFrom[s] \in Conns
         /\ \A c \in Conns : cSent[c] = sSeen[s] <=> AcceptedFrom[s] = c

LEMMA MappingIs == Inv => OfferedToIs /\ AcceptedFromIs
<1>. SUFFICES ASSUME Inv PROVE OfferedToIs /\ AcceptedFromIs
  OBVIOUS
<1>1. ASSUME NEW c \in Conns, cSent[c] # NoFrame
      PROVE  /\ OfferedTo[c] \in Conns
             /\ \A s \in Conns : sHello[s] = cHello[c] <=> OfferedTo[c] = s
  <2>1. cHello[c] # NoFrame
    BY <1>1 DEF Inv, OwnAnswer
  <2>2. PICK t \in Conns : sHello[t] = cHello[c]
    BY <2>1 DEF Inv, HelloRead
  <2>3. OfferedTo[c] = CHOOSE s \in Conns : sHello[s] = cHello[c]
    BY <1>1 DEF OfferedTo
  <2>4. OfferedTo[c] \in Conns /\ sHello[OfferedTo[c]] = cHello[c]
    BY <2>2, <2>3
  <2>. QED
    BY <2>1, <2>4, OneHello
<1>2. ASSUME NEW s \in Conns, sSeen[s] # NoFrame
      PROVE  /\ AcceptedFrom[s] \in Conns
             /\ \A c \in Conns : cSent[c] = sSeen[s] <=> AcceptedFrom[s] = c
  <2>1. PICK d \in Conns : cSent[d] = sSeen[s]
    BY <1>2 DEF Inv, ServerAgreement
  <2>2. AcceptedFrom[s] = CHOOSE c \in Conns : cSent[c] = sSeen[s]
    BY <1>2 DEF AcceptedFrom
  <2>3. AcceptedFrom[s] \in Conns /\ cSent[AcceptedFrom[s]] = sSeen[s]
    BY <2>1, <2>2
  <2>. QED
    BY <1>2, <2>3, OneAnswer
<1>3. ASSUME NEW c \in Conns, cSent[c] = NoFrame PROVE OfferedTo[c] = NoConn
  BY <1>3 DEF OfferedTo
<1>4. ASSUME NEW s \in Conns, sSeen[s] = NoFrame PROVE AcceptedFrom[s] = NoConn
  BY <1>4 DEF AcceptedFrom
<1>. QED
  BY <1>1, <1>2, <1>3, <1>4 DEF OfferedToIs, AcceptedFromIs

-----------------------------------------------------------------------------
(* What one step does to each variable of Agreement.                       *)
LEMMA MappingFunctions ==
  /\ OfferedTo = [c \in Conns |-> OfferedTo[c]]
  /\ OfferedTo' = [c \in Conns |-> OfferedTo'[c]]
  /\ AcceptedFrom = [c \in Conns |-> AcceptedFrom[c]]
  /\ AcceptedFrom' = [c \in Conns |-> AcceptedFrom'[c]]
BY DEF OfferedTo, AcceptedFrom

LEMMA OfferKept ==
  ASSUME Inv, OfferedToIs, OfferedToIs', [Next]_vars, NEW c \in Conns
  PROVE  /\ cSent[c] # NoFrame => OfferedTo'[c] = OfferedTo[c]
         /\ cSent'[c] = NoFrame => OfferedTo'[c] = OfferedTo[c]
<1>1. ASSUME cSent[c] # NoFrame PROVE OfferedTo'[c] = OfferedTo[c]
  <2>1. cHello[c] # NoFrame /\ TypeInv
    BY <1>1 DEF Inv, OwnAnswer
  <2>2. cSent'[c] = cSent[c] /\ cHello'[c] = cHello[c]
    BY <1>1, <2>1, Kept
  <2>3. PICK t \in Conns : t = OfferedTo[c] /\ sHello[t] = cHello[c]
    BY <1>1 DEF OfferedToIs
  <2>4. sHello'[t] = cHello'[c]
    BY <2>1, <2>2, <2>3, Kept
  <2>. QED
    BY <1>1, <2>2, <2>3, <2>4 DEF OfferedToIs
<1>2. ASSUME cSent'[c] = NoFrame PROVE OfferedTo'[c] = OfferedTo[c]
  <2>1. cSent[c] = NoFrame
    BY <1>2, Kept DEF Inv
  <2>. QED
    BY <1>2, <2>1 DEF OfferedToIs
<1>. QED
  BY <1>1, <1>2

LEMMA AcceptanceKept ==
  ASSUME Inv, AcceptedFromIs, AcceptedFromIs', [Next]_vars, NEW s \in Conns
  PROVE  /\ sSeen[s] # NoFrame => AcceptedFrom'[s] = AcceptedFrom[s]
         /\ sSeen'[s] = NoFrame => AcceptedFrom'[s] = AcceptedFrom[s]
<1>1. ASSUME sSeen[s] # NoFrame PROVE AcceptedFrom'[s] = AcceptedFrom[s]
  <2>1. sSeen'[s] = sSeen[s]
    BY <1>1, Kept DEF Inv
  <2>2. PICK d \in Conns : d = AcceptedFrom[s] /\ cSent[d] = sSeen[s]
    BY <1>1 DEF AcceptedFromIs
  <2>3. cSent'[d] = sSeen'[s]
    BY <1>1, <2>1, <2>2, Kept DEF Inv
  <2>. QED
    BY <1>1, <2>1, <2>2, <2>3 DEF AcceptedFromIs
<1>2. ASSUME sSeen'[s] = NoFrame PROVE AcceptedFrom'[s] = AcceptedFrom[s]
  <2>1. sSeen[s] = NoFrame
    BY <1>2, Kept DEF Inv
  <2>. QED
    BY <1>2, <2>1 DEF AcceptedFromIs
<1>. QED
  BY <1>1, <1>2

LEMMA OfferUnchanged ==
  ASSUME Inv, OfferedToIs, OfferedToIs', [Next]_vars, UNCHANGED cSent
  PROVE  OfferedTo' = OfferedTo
<1>1. \A c \in Conns : OfferedTo'[c] = OfferedTo[c]
  BY OfferKept
<1>. QED
  BY <1>1, MappingFunctions

LEMMA AcceptanceUnchanged ==
  ASSUME Inv, AcceptedFromIs, AcceptedFromIs', [Next]_vars, UNCHANGED sSeen
  PROVE  AcceptedFrom' = AcceptedFrom
<1>1. \A s \in Conns : AcceptedFrom'[s] = AcceptedFrom[s]
  BY AcceptanceKept
<1>. QED
  BY <1>1, MappingFunctions

LEMMA EligibleFixed ==
  ASSUME [Next]_vars
  PROVE  Eligible' = Eligible
BY ConfFixed DEF Eligible, SameMode

(* A client that is done stays done.                                       *)
LEMMA DoneStays ==
  ASSUME TypeOK, [Next]_vars, NEW c \in Conns, cPc[c] = "done"
  PROVE  cPc'[c] = "done"
<1>1. ASSUME NEW d \in Conns, ClientKnowsServer(d) \/ UserAccepts(d)
      PROVE  cPc'[c] = "done"
  BY <1>1 DEF ClientKnowsServer, UserAccepts, SendClientHello, TypeOK
<1>2. ASSUME NEW d \in Conns, ClientRefusesServer(d) \/ ClientRequestsKey(d)
      PROVE  cPc'[c] = "done"
  BY <1>2 DEF ClientRefusesServer, ClientRequestsKey, ClientFails, TypeOK
<1>3. ASSUME NEW d \in Conns, ClientReadsKey(d) \/ ClientRejectsFrame(d)
      PROVE  cPc'[c] = "done"
  BY <1>3 DEF ClientReadsKey, ClientRejectsFrame, ClientFails, ClientReading, TypeOK
<1>4. ASSUME NEW d \in Conns, UserDeclines(d) \/ ClientTimeout(d) \/ ClientHangup(d)
      PROVE  cPc'[c] = "done"
  BY <1>4 DEF UserDeclines, ClientTimeout, ClientHangup, ClientFails,
              ClientTimed, ClientReading, TypeOK
<1>5. ASSUME NEW d \in Conns, ClientCompletes(d)
      PROVE  cPc'[c] = "done"
  BY <1>5 DEF ClientCompletes, ClientFails, TypeOK
<1>6. ASSUME \/ \E d \in Conns : ServerTask(d) \/ ServerTimeout(d) \/ ServerHangup(d)
             \/ \E d \in Conns : Radio(d)
             \/ UNCHANGED vars
      PROVE  cPc'[c] = "done"
  BY <1>6 DEF vars, clientVars, ServerTask, Radio, ServerStart,
         ServerAnswersKeyRequest, ServerAccepts, ServerRefuses,
         ServerRejectsFrame, ServerFlushes, ServerTimeout, ServerHangup,
         LoseToServer, LoseToClient, StrayToServer, StrayToClient
<1>. QED
  BY <1>1, <1>2, <1>3, <1>4, <1>5, <1>6
     DEF Next, ClientTask, User, Timers, Hangups

LEMMA ConfirmedUnchanged ==
  ASSUME TypeOK, [Next]_vars, ~ \E c \in Conns : ClientCompletes(c)
  PROVE  Confirmed' = Confirmed
BY DoneChanges, DoneStays DEF Confirmed

-----------------------------------------------------------------------------
absVars == <<Eligible, OfferedTo, AcceptedFrom, Confirmed>>

LEMMA InitRefines == Init => A!Init
<1>. SUFFICES ASSUME Init PROVE A!Init
  OBVIOUS
<1>1. Eligible \in SUBSET (Conns \X Conns)
  BY DEF Eligible
<1>2. OfferedTo = [c \in Conns |-> NoConn]
  BY DEF Init, OfferedTo
<1>3. AcceptedFrom = [c \in Conns |-> NoConn]
  BY DEF Init, AcceptedFrom
<1>4. Confirmed = {}
  BY DEF Init, Confirmed
<1>. QED
  BY <1>1, <1>2, <1>3, <1>4 DEF A!Init

LEMMA OfferRefines ==
  ASSUME Inv, OfferedToIs, OfferedToIs', AcceptedFromIs, AcceptedFromIs',
         [Next]_vars, NEW c \in Conns, ClientKnowsServer(c) \/ UserAccepts(c)
  PROVE  A!Next
<1>0. TypeOK /\ ClientProgress
  BY DEF Inv, TypeInv
<1>1. cSent[c] = NoFrame
  BY <1>0 DEF ClientKnowsServer, UserAccepts, ClientProgress
<1>2. PICK m : /\ cSent' = [cSent EXCEPT ![c] = m]
               /\ m.type = "ClientHello"
               /\ UNCHANGED sSeen
  BY DEF ClientKnowsServer, UserAccepts, SendClientHello, serverVars, ClientHello
<1>3. cSent'[c] # NoFrame /\ \A d \in Conns : d # c => cSent'[d] = cSent[d]
  BY <1>0, <1>2 DEF TypeOK, NoFrame
<1>4. \A d \in Conns : d # c => OfferedTo'[d] = OfferedTo[d]
  BY <1>3, OfferKept
<1>5. PICK s \in Conns : OfferedTo'[c] = s
  BY <1>3 DEF OfferedToIs
<1>6. OfferedTo' = [OfferedTo EXCEPT ![c] = s]
  BY <1>4, <1>5, MappingFunctions
<1>7. OfferedTo[c] = NoConn
  BY <1>1 DEF OfferedToIs
<1>8. AcceptedFrom' = AcceptedFrom
  BY <1>2, AcceptanceUnchanged
<1>9. Confirmed' = Confirmed
  <2>1. \A d \in Conns : ~ClientCompletes(d)
    BY <1>2, <1>3, <1>1 DEF ClientCompletes
  <2>. QED
    BY <1>0, <2>1, ConfirmedUnchanged
<1>10. A!Offer(c, s)
  BY <1>6, <1>7, <1>8, <1>9, EligibleFixed DEF A!Offer
<1>. QED
  BY <1>10 DEF A!Next

LEMMA AcceptRefines ==
  ASSUME Inv, Inv', OfferedToIs, OfferedToIs', AcceptedFromIs, AcceptedFromIs',
         [Next]_vars, NEW s \in Conns, ServerAccepts(s)
  PROVE  A!Next
<1>0. TypeOK /\ ServerProgress /\ TypeOK'
  BY DEF Inv, TypeInv
<1>1. sSeen[s] = NoFrame /\ UNCHANGED <<conf, cSent, cHello, cKey, cPc, sHello>>
  BY <1>0 DEF ServerAccepts, ServerProgress, clientVars
<1>2. sSeen'[s] # NoFrame /\ \A t \in Conns : t # s => sSeen'[t] = sSeen[t]
  <2>1. /\ ServerReads(s, {"ClientHello"})
        /\ sSeen' = [sSeen EXCEPT ![s] = Head(toServer[s])]
    BY DEF ServerAccepts
  <2>2. Head(toServer[s]).type = "ClientHello"
    BY <1>0, <2>1, ReadByServer
  <2>3. NoFrame.type # "ClientHello"
    BY DEF NoFrame
  <2>. QED
    BY <1>0, <2>1, <2>2, <2>3 DEF TypeOK
<1>3. \A t \in Conns : t # s => AcceptedFrom'[t] = AcceptedFrom[t]
  BY <1>2, AcceptanceKept
<1>4. PICK c \in Conns : /\ cSent'[c] = sSeen'[s]
                        /\ cHello'[c] = sHello'[s]
                        /\ conf'[c].clientKey \in AuthorizedKeys
                        /\ SameMode(c, s)'
  BY <1>2 DEF Inv, ServerAgreement
<1>5. AcceptedFrom'[s] = c /\ OfferedTo'[c] = s
  BY <1>2, <1>4 DEF AcceptedFromIs, OfferedToIs
<1>6. AcceptedFrom' = [AcceptedFrom EXCEPT ![s] = c]
  BY <1>3, <1>5, MappingFunctions
<1>7. AcceptedFrom[s] = NoConn
  BY <1>1 DEF AcceptedFromIs
<1>8. OfferedTo' = OfferedTo
  BY <1>1, OfferUnchanged
<1>9. Confirmed' = Confirmed
  BY <1>1 DEF Confirmed
<1>10. <<s, c>> \in Eligible
  <2>1. /\ cSent[c] # NoFrame /\ cHello[c] = sHello[s] /\ SameMode(c, s)
        /\ conf[c].clientKey \in AuthorizedKeys
    BY <1>1, <1>2, <1>4 DEF SameMode
  <2>2. /\ cHello[c] # NoFrame /\ DigestMatches(cKey[c], cHello[c])
        /\ conf[c].expected \in {NoKey, cKey[c]}
    BY <2>1 DEF Inv, OwnAnswer
  <2>3. cHello[c].digest = Digest(conf[s].serverKey)
    BY <2>1, <2>2 DEF Inv, OwnHello
  <2>4. cKey[c] = conf[s].serverKey
    <3>1. \A k : Digest(k).sha256 = k
      BY DEF Digest
    <3>. QED
      BY <2>2, <2>3, <3>1 DEF DigestMatches
  <2>. QED
    BY <2>1, <2>2, <2>4 DEF Eligible
<1>11. A!Accept(s, c)
  BY <1>5, <1>6, <1>7, <1>8, <1>9, <1>10, EligibleFixed DEF A!Accept
<1>. QED
  BY <1>11 DEF A!Next

LEMMA ConfirmRefines ==
  ASSUME Inv, Inv', OfferedToIs, OfferedToIs', AcceptedFromIs, AcceptedFromIs',
         [Next]_vars, NEW c \in Conns, ClientCompletes(c)
  PROVE  A!Next \/ UNCHANGED absVars
<1>0. TypeOK /\ ClientProgress' /\ Met'
  BY DEF Inv, TypeInv
<1>1. cPc[c] = "complete" /\ UNCHANGED <<cSent, sSeen>>
  BY DEF ClientCompletes, serverVars
<1>2. OfferedTo' = OfferedTo /\ AcceptedFrom' = AcceptedFrom /\ Eligible' = Eligible
  BY <1>1, OfferUnchanged, AcceptanceUnchanged, EligibleFixed
<1>3. CASE cPc'[c] = "done"
  <2>1. PICK s \in Conns : sHello'[s] = cHello'[c] /\ sSeen'[s] = cSent'[c]
    BY <1>0, <1>3 DEF Met
  <2>2. cSent'[c] # NoFrame
    BY <1>0, <1>3 DEF ClientProgress
  <2>3. OfferedTo[c] = s /\ AcceptedFrom[s] = c
    BY <1>2, <2>1, <2>2 DEF OfferedToIs, AcceptedFromIs
  <2>4. c \notin Confirmed /\ Confirmed' = Confirmed \cup {c}
    <3>1. \A d \in Conns : d # c => cPc'[d] = cPc[d]
      BY <1>0 DEF ClientCompletes, ClientFails, TypeOK
    <3>. QED
      BY <1>1, <1>3, <3>1 DEF Confirmed
  <2>5. A!Confirm(c, s)
    BY <1>2, <2>3, <2>4 DEF A!Confirm
  <2>. QED
    BY <2>5 DEF A!Next
<1>4. CASE cPc'[c] # "done"
  <2>1. \A d \in Conns : d # c => cPc'[d] = cPc[d]
    BY <1>0 DEF ClientCompletes, ClientFails, TypeOK
  <2>2. Confirmed' = Confirmed
    BY <1>1, <1>4, <2>1 DEF Confirmed
  <2>. QED
    BY <1>2, <2>2 DEF absVars
<1>. QED
  BY <1>3, <1>4

LEMMA StepRefines ==
  Inv /\ Inv' /\ OfferedToIs /\ OfferedToIs' /\ AcceptedFromIs /\ AcceptedFromIs'
    /\ [Next]_vars => [A!Next]_absVars
<1>. SUFFICES ASSUME Inv, Inv', OfferedToIs, OfferedToIs', AcceptedFromIs,
                     AcceptedFromIs', [Next]_vars
              PROVE  A!Next \/ UNCHANGED absVars
  OBVIOUS
<1>1. CASE \E c \in Conns : ClientKnowsServer(c) \/ UserAccepts(c)
  BY <1>1, OfferRefines
<1>2. CASE \E s \in Conns : ServerAccepts(s)
  BY <1>2, AcceptRefines
<1>3. CASE \E c \in Conns : ClientCompletes(c)
  BY <1>3, ConfirmRefines
<1>4. CASE ~ \E c \in Conns : \/ ClientKnowsServer(c)
                              \/ UserAccepts(c)
                              \/ ServerAccepts(c)
                              \/ ClientCompletes(c)
  <2>1. UNCHANGED cSent /\ UNCHANGED sSeen
    BY <1>4, SentChanges, SeenChanges
  <2>2. OfferedTo' = OfferedTo /\ AcceptedFrom' = AcceptedFrom /\ Eligible' = Eligible
    BY <2>1, OfferUnchanged, AcceptanceUnchanged, EligibleFixed
  <2>3. Confirmed' = Confirmed
    BY <1>4, ConfirmedUnchanged DEF Inv, TypeInv
  <2>. QED
    BY <2>2, <2>3 DEF absVars
<1>. QED
  BY <1>1, <1>2, <1>3, <1>4

(* The handshake forms sessions exactly as Agreement allows (FormsAgreement). *)
THEOREM Implements == Spec => FormsAgreement
<1>1. Inv => OfferedToIs /\ AcceptedFromIs
  BY MappingIs
<1>2. Spec => A!Init /\ [][A!Next]_absVars
  BY <1>1, InitRefines, StepRefines, Invariance, PTL DEF Spec
<1>. QED
  BY <1>2 DEF FormsAgreement, A!Spec, absVars
=============================================================================
