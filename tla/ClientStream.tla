---------------------------- MODULE ClientStream ----------------------------
(***************************************************************************)
(* The way from a session's Redis stream to the browser: the WebSocket     *)
(* endpoint of the gateway (ws.rs) and the one of the Python backend       *)
(* (websocket.py) that it replaces. Every connection of a session resumes  *)
(* from the one persisted cursor and moves it. The Python endpoint writes  *)
(* a batch to its socket and then saves the cursor; the gateway puts an    *)
(* entry in a channel, saves the cursor, and a second task writes what the *)
(* channel holds.                                                          *)
(***************************************************************************)
EXTENDS SessionStream

sockets == <<live, sent, written, lost>>
loop == <<stage, last, batch>>
vars == <<stream, cursor, loop, sockets, faults>>

Running == {"reading", "sending", "saving"}
Stages == {"new", "opening", "closed"} \cup Running

TypeOK ==
  /\ stream \in Entries /\ cursor \in Entries
  /\ stage \in [Conns -> Stages] /\ live \subseteq Conns
  /\ last \in [Conns -> Entries] /\ batch \in [Conns -> 0..Batch] /\ sent \in [Conns -> Entries]
  /\ written \subseteq 1..MaxMessages /\ lost \subseteq 1..MaxMessages
  /\ faults \in 0..MaxFaults

Init ==
  /\ stream = 0 /\ cursor = 0
  /\ stage = [c \in Conns |-> "new"] /\ live = Conns
  /\ last = [c \in Conns |-> 0] /\ batch = [c \in Conns |-> 0] /\ sent = [c \in Conns |-> 0]
  /\ written = {} /\ lost = {} /\ faults = 0

Goto(c, s) == stage' = [stage EXCEPT ![c] = s]
Fault == faults < MaxFaults /\ faults' = faults + 1

-----------------------------------------------------------------------------
(* The session and the client *)

\* A handler adds a message to the session's stream.
AddMessage ==
  /\ stream < MaxMessages /\ stream' = stream + 1
  /\ UNCHANGED <<cursor, loop, sockets, faults>>

\* The cursor is kept for a day after it was last saved.
CursorExpires ==
  /\ cursor' = 0
  /\ UNCHANGED <<stream, loop, sockets, faults>>

\* The client connects: again, or from another tab.
Open(c) ==
  /\ stage[c] = "new" /\ Goto(c, "opening")
  /\ UNCHANGED <<stream, cursor, last, batch, sockets, faults>>

\* A socket breaks. The client's last one does not.
Break(c) ==
  /\ stage[c] # "new" /\ c \in live /\ live # {c}
  /\ live' = live \ {c}
  /\ UNCHANGED <<stream, cursor, loop, sent, written, lost, faults>>

-----------------------------------------------------------------------------
(* The send loop *)

\* The loop starts from the saved cursor; from the head of the stream if GET fails.
LoadCursor(c) ==
  /\ stage[c] = "opening" /\ Goto(c, "reading")
  /\ \/ last' = [last EXCEPT ![c] = cursor] /\ sent' = [sent EXCEPT ![c] = cursor]
        /\ faults' = faults
     \/ last' = [last EXCEPT ![c] = 0] /\ sent' = [sent EXCEPT ![c] = 0] /\ Fault
  /\ UNCHANGED <<stream, cursor, batch, live, written, lost>>

\* Entries a connection reads next, at most Batch.
NextBatch(c) == LET new == stream - last[c] IN IF new < Batch THEN new ELSE Batch

\* The cursor is saved with the batch, before it is written (faulty).
ReadAndSave(c) ==
  /\ stage[c] = "reading"
  /\ c \in Gateways => last[c] < stream
  /\ batch' = [batch EXCEPT ![c] = NextBatch(c)] /\ cursor' = last[c] + NextBatch(c)
  /\ Goto(c, IF last[c] < stream THEN "sending" ELSE "saving")
  /\ UNCHANGED <<stream, last, sockets, faults>>

\* XREAD. With no entry the Python loop goes on to save its cursor, the
\* gateway reads again.
Read(c) ==
  /\ stage[c] = "reading"
  /\ c \in Gateways => last[c] < stream
  /\ batch' = [batch EXCEPT ![c] = NextBatch(c)]
  /\ Goto(c, IF last[c] < stream THEN "sending" ELSE "saving")
  /\ UNCHANGED <<stream, cursor, last, sockets, faults>>

\* Python: the next entry of the batch goes to the socket.
Send(c) ==
  /\ stage[c] = "sending" /\ c \notin Gateways /\ c \in live
  /\ last' = [last EXCEPT ![c] = @ + 1] /\ sent' = [sent EXCEPT ![c] = last[c] + 1]
  /\ written' = written \cup {last[c] + 1} /\ batch' = [batch EXCEPT ![c] = @ - 1]
  /\ Goto(c, IF batch[c] = 1 THEN "saving" ELSE "sending")
  /\ UNCHANGED <<stream, cursor, live, lost, faults>>

\* The gateway: the next entry of the batch goes into the channel, once there is room.
Put(c) ==
  /\ stage[c] = "sending" /\ c \in Gateways /\ last[c] - sent[c] < Room
  /\ last' = [last EXCEPT ![c] = @ + 1] /\ batch' = [batch EXCEPT ![c] = @ - 1]
  /\ Goto(c, "saving")
  /\ UNCHANGED <<stream, cursor, sockets, faults>>

\* The error of a save ends the loop, the socket stays open (faulty).
SaveOrStop(c) ==
  /\ stage[c] = "saving"
  /\ \/ /\ cursor' = last[c] /\ faults' = faults
        /\ Goto(c, IF batch[c] > 0 THEN "sending" ELSE "reading")
     \/ cursor' = cursor /\ Fault /\ Goto(c, "closed")
  /\ UNCHANGED <<stream, last, batch, sockets>>

\* After a batch (Python) or an entry (gateway). The error of a save is no reason to stop.
Save(c) ==
  /\ stage[c] = "saving"
  /\ \/ cursor' = last[c] /\ faults' = faults
     \/ cursor' = cursor /\ Fault
  /\ Goto(c, IF batch[c] > 0 THEN "sending" ELSE "reading")
  /\ UNCHANGED <<stream, last, batch, sockets>>

\* The gateway's writer.
Write(c) ==
  /\ c \in Gateways /\ c \in live /\ sent[c] < last[c]
  /\ sent' = [sent EXCEPT ![c] = @ + 1] /\ written' = written \cup {sent[c] + 1}
  /\ UNCHANGED <<stream, cursor, loop, live, lost, faults>>

\* The endpoint notices that its socket broke and stops its tasks wherever they are, with
\* their variables and what is in the channel.
Close(c) ==
  /\ stage[c] \in Running \cup {"opening"} /\ c \notin live
  /\ Goto(c, "closed") /\ lost' = lost \cup Channel(c)
  /\ last' = [last EXCEPT ![c] = 0] /\ batch' = [batch EXCEPT ![c] = 0]
  /\ sent' = [sent EXCEPT ![c] = 0]
  /\ UNCHANGED <<stream, cursor, live, written, faults>>

-----------------------------------------------------------------------------
Loop(c) == LoadCursor(c) \/ Read(c) \/ Send(c) \/ Put(c) \/ Save(c)

Next == \/ AddMessage \/ CursorExpires
        \/ \E c \in Conns : Open(c) \/ Break(c) \/ Loop(c) \/ Write(c) \/ Close(c)

\* The client reconnects, every task of a connection runs, and a broken socket is noticed.
Fairness == \A c \in Conns : WF_vars(Open(c)) /\ WF_vars(Loop(c)) /\ WF_vars(Write(c))
                             /\ WF_vars(Close(c))

Spec == Init /\ [][Next]_vars /\ Fairness

-----------------------------------------------------------------------------
(* Properties *)

\* Every message of the session reaches a socket at last, unless a gateway dropped it,
\* across broken sockets, reconnects, second tabs, Redis errors and an expired cursor.
MessagesAreWritten ==
  \A m \in 1..MaxMessages : stream >= m ~> m \in written \cup lost
=============================================================================
