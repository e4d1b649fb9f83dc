-------------------------- MODULE HandshakeRefines --------------------------
(***************************************************************************)
(* The handshake of module Handshake implements Agreement: the client's    *)
(* ClientHello is its offer to the server whose ServerHello it read, the   *)
(* server's accepted ClientHello its acceptance of that client, and the    *)
(* verified ServerComplete the confirmation.  All other steps stutter.     *)
(***************************************************************************)
EXTENDS Handshake

CONSTANT NoConn

ASSUME NoConnAssumption == NoConn \notin Conns

Eligible ==
  {p \in Conns \X Conns : LET s == p[1]
                              c == p[2]
                          IN  /\ conf[c].clientKey \in AuthorizedKeys
                              /\ SameMode(c, s)
                              /\ conf[c].expected \in {NoKey, conf[s].serverKey}}

OfferedTo ==
  [c \in Conns |-> IF cSent[c] = NoFrame THEN NoConn
                   ELSE CHOOSE s \in Conns : sHello[s] = cHello[c]]

AcceptedFrom ==
  [s \in Conns |-> IF sSeen[s] = NoFrame THEN NoConn
                   ELSE CHOOSE c \in Conns : cSent[c] = sSeen[s]]

Confirmed == {c \in Conns : cPc[c] = "done"}

A == INSTANCE Agreement WITH eligible <- Eligible, offer <- OfferedTo,
                             accepted <- AcceptedFrom, confirmed <- Confirmed

(* Sessions form pairwise and only between ends that fit together: every   *)
(* behaviour of the handshake is one that Agreement allows.                *)
FormsAgreement == A!Spec
=============================================================================
