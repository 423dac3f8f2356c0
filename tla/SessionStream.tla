---------------------------- MODULE SessionStream ----------------------------
(***************************************************************************)
(* The Redis stream of a session, the cursor that its connections share,   *)
(* and how far each connection has come with the entries                   *)
(* (websocket.py, ws.rs). The module ClientStream has the steps.           *)
(***************************************************************************)
EXTENDS Integers, FiniteSets

CONSTANTS
  Conns,        \* connections of one session, each opened once
  Gateways,     \* those the gateway serves
  Batch,        \* entries per XREAD
  Room,         \* frames the gateway's channel holds
  MaxMessages,  \* bound: entries of the stream
  MaxFaults     \* bound: transient Redis errors

ASSUME StreamAssumption ==
  /\ IsFiniteSet(Conns) /\ Gateways \subseteq Conns
  /\ Batch \in Nat \ {0} /\ Room \in Nat \ {0} /\ MaxMessages \in Nat /\ MaxFaults \in Nat

VARIABLES
  stream,   \* entries of {uid}:{session}:stream, numbered from 1
  cursor,   \* {uid}:{session}:last, 0 when there is none
  stage,    \* where each connection's send loop is
  live,     \* connections whose socket works
  last,     \* the loop's own cursor
  batch,    \* entries of its batch it has not handled yet
  sent,     \* the last entry written to its socket; sent + 1 .. last are in the channel
  written,  \* history: entries some socket was given
  lost,     \* history: entries dropped with a channel
  faults

Entries == 0..MaxMessages

\* What a gateway connection holds between its loop and its socket.
Channel(c) == sent[c] + 1..last[c]
InAChannel == UNION {Channel(c) : c \in Gateways}

\* A reconnect starts behind the saved cursor, so every entry up to it has been given to
\* a socket, is in a gateway's channel, or was dropped with one - whichever connections of
\* the session saved it, in whatever order, and wherever their sockets broke.
CursorIsWritten == 1..cursor \subseteq written \cup InAChannel \cup lost
=============================================================================
