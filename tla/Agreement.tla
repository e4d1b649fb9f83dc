----------------------------- MODULE Agreement -----------------------------
(***************************************************************************)
(* What the axsh handshake promises (README.md, "Security"), without       *)
(* packets, signatures or timers: a client offers itself to one server     *)
(* stream, a server stream accepts at most one offer, made to itself by a  *)
(* client it may serve, and a client confirms only an offer that was       *)
(* accepted.  The pairs so formed are therefore matched one to one, and    *)
(* nothing that happens on other connections can divide or join them.      *)
(***************************************************************************)
CONSTANTS Conns, NoConn

VARIABLES
  eligible,   \* eligible pairs <<server, client>>: fixed
  offer,      \* offer[c]: the server stream client c answered
  accepted,   \* accepted[s]: the client whose answer server s took
  confirmed   \* the clients that know they were accepted

Init == /\ eligible \in SUBSET (Conns \X Conns)
        /\ offer = [c \in Conns |-> NoConn]
        /\ accepted = [s \in Conns |-> NoConn]
        /\ confirmed = {}

Offer(c, s) == /\ offer[c] = NoConn
               /\ offer' = [offer EXCEPT ![c] = s]
               /\ UNCHANGED <<eligible, accepted, confirmed>>

Accept(s, c) == /\ accepted[s] = NoConn
                /\ offer[c] = s
                /\ <<s, c>> \in eligible
                /\ accepted' = [accepted EXCEPT ![s] = c]
                /\ UNCHANGED <<eligible, offer, confirmed>>

Confirm(c, s) == /\ c \notin confirmed
                 /\ offer[c] = s
                 /\ accepted[s] = c
                 /\ confirmed' = confirmed \cup {c}
                 /\ UNCHANGED <<eligible, offer, accepted>>

Next == \E c, s \in Conns : Offer(c, s) \/ Accept(s, c) \/ Confirm(c, s)

Spec == Init /\ [][Next]_<<eligible, offer, accepted, confirmed>>
=============================================================================
