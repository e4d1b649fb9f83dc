----------------------------- MODULE AcceptLoop -----------------------------
(***************************************************************************)
(* The two accept loops of axshd (main in src/src/bin/axshd.rs).  Over TCP *)
(* every connection gets a task of its own; over AGW the loop handles one  *)
(* connection before it accepts the next.  What handle_connection does is  *)
(* reduced to the handshake, which a timer bounds (Handshake), and the     *)
(* session, which nothing bounds (ShellSession).                           *)
(***************************************************************************)
EXTENDS Naturals, Sequences, FiniteSets

CONSTANTS
  Callers,     \* the connections that may come in
  MaxOpen,     \* connections a process can have open
  MaxFaults    \* bound: how often accept fails for some other reason

ASSUME LimitAssumption == MaxOpen \in Nat \ {0} /\ MaxFaults \in Nat

VARIABLES
  mode,     \* "tcp" or "agw", fixed
  talks,    \* the callers that will do their part of the handshake, fixed
  phase,    \* phase[c]: how far the connection of c is
  gone,     \* the callers that have hung up
  backlog,  \* connections made and not yet accepted
  daemon,   \* what the loop awaits: accept, or a connection's end
  faults    \* how often accept failed for some other reason

vars == <<mode, talks, phase, gone, backlog, daemon, faults>>

Open == {c \in Callers : phase[c] \in {"handshake", "session"}}

Init ==
  /\ mode \in {"tcp", "agw"}
  /\ talks \in SUBSET Callers
  /\ phase = [c \in Callers |-> "away"]
  /\ gone = {}
  /\ backlog = <<>>
  /\ daemon = "accept"
  /\ faults = 0

-----------------------------------------------------------------------------
(* The callers.                                                            *)

Call(c) ==
  /\ phase[c] = "away"
  /\ daemon # "down"
  /\ phase' = [phase EXCEPT ![c] = "queued"]
  /\ backlog' = Append(backlog, c)
  /\ UNCHANGED <<mode, talks, gone, daemon, faults>>

HangUp(c) ==
  /\ phase[c] \in {"queued", "handshake", "session"}
  /\ c \notin gone
  /\ gone' = gone \cup {c}
  /\ UNCHANGED <<mode, talks, phase, backlog, daemon, faults>>

-----------------------------------------------------------------------------
(* axshd.                                                                  *)

(* AGW connections share one stream to the packet engine.                  *)
NoDescriptor == mode = "tcp" /\ Cardinality(Open) >= MaxOpen

CannotAccept == backlog # <<>> /\ NoDescriptor

(* The loop after it has handed a connection to handle_connection.         *)
Handling == IF mode = "tcp" THEN "accept" ELSE "handle"

Accept ==
  /\ daemon = "accept"
  /\ backlog # <<>>
  /\ ~NoDescriptor
  /\ phase' = [phase EXCEPT ![Head(backlog)] = "handshake"]
  /\ backlog' = Tail(backlog)
  /\ daemon' = Handling
  /\ UNCHANGED <<mode, talks, gone, faults>>

(* The process ends, and every connection with it.                         *)
Exit == /\ daemon' = "down"
        /\ phase' = [c \in Callers |-> IF phase[c] = "away" THEN "away" ELSE "over"]
        /\ backlog' = <<>>

(* accept()? leaves main: also when the process has no descriptor left.    *)
AcceptFails ==
  /\ daemon = "accept"
  /\ \/ CannotAccept /\ UNCHANGED faults
     \/ /\ faults < MaxFaults
        /\ faults' = faults + 1
  /\ Exit
  /\ UNCHANGED <<mode, talks, gone>>

(* handle_connection returns: its stream is dropped.                       *)
Returns(c) == /\ phase' = [phase EXCEPT ![c] = "over"]
              /\ daemon' = "accept"
              /\ UNCHANGED backlog

(* As if main returned the error ...                                       *)
Propagates(c) == Exit

(* ... but an error is logged, and that is all.                            *)
Fails(c) == Returns(c)

HandshakeSucceeds(c) ==
  /\ phase[c] = "handshake"
  /\ c \in talks \ gone
  /\ phase' = [phase EXCEPT ![c] = "session"]
  /\ UNCHANGED <<mode, talks, gone, backlog, daemon, faults>>

(* The stream ends, or the caller is refused.                              *)
HandshakeFails(c) ==
  /\ phase[c] = "handshake"
  /\ c \in talks \cup gone
  /\ Fails(c)
  /\ UNCHANGED <<mode, talks, gone, faults>>

(* As if the handshake had no timeout.                                     *)
NeverFires(c) == FALSE

TimerFires(c) == phase[c] = "handshake"

HandshakeTimeout(c) ==
  /\ TimerFires(c)
  /\ Fails(c)
  /\ UNCHANGED <<mode, talks, gone, faults>>

(* The client is done, or its stream fails: the command loop returns.      *)
SessionReturns(c) ==
  /\ phase[c] = "session"
  /\ Returns(c) \/ Fails(c)
  /\ UNCHANGED <<mode, talks, gone, faults>>

-----------------------------------------------------------------------------
Next ==
  \/ \E c \in Callers : \/ Call(c)
                        \/ HangUp(c)
                        \/ HandshakeSucceeds(c)
                        \/ HandshakeFails(c)
                        \/ HandshakeTimeout(c)
                        \/ SessionReturns(c)
  \/ Accept
  \/ AcceptFails

(* tokio polls the loop and every task, and timers elapse.  A session ends *)
(* once its client is gone (ShellSession, SessionEnds); nothing else makes *)
(* a session end, a caller call or hang up, or accept fail while there is  *)
(* a descriptor left.                                                      *)
Fairness ==
  /\ WF_vars(Accept)
  /\ \A c \in Callers : /\ WF_vars(HandshakeSucceeds(c) \/ HandshakeFails(c))
                        /\ WF_vars(HandshakeTimeout(c))
                        /\ WF_vars(c \in gone /\ SessionReturns(c))

Spec == Init /\ [][Next]_vars /\ Fairness

-----------------------------------------------------------------------------
(* Properties.                                                             *)

(* Connections end one at a time, each for its own reason, until accept    *)
(* fails: then all do (axshd.rs:229, 240).                                 *)
EndTogether ==
  \E c, d \in Callers : /\ c # d
                        /\ {c, d} \subseteq Open
                        /\ phase'[c] = "over" /\ phase'[d] = "over"

OthersGoOn == [][EndTogether => CannotAccept \/ faults' > faults]_vars

(* Whoever calls is let in, however many others fail, stay silent or hang  *)
(* up - as long as accept does not fail, and over AGW nobody else's        *)
(* session goes on for ever (axshd.rs:184-252).                            *)
NoSession == \A c \in Callers : phase[c] # "session"

CallersGetIn ==
  \A c \in Callers :
    /\ [](faults = 0 /\ ~CannotAccept)
    /\ mode = "tcp" \/ []<>NoSession
    => (phase[c] = "queued" ~> phase[c] \in {"handshake", "session"})
=============================================================================
