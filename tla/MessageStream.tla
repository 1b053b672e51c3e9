---- MODULE MessageStream ----
(***************************************************************************)
(* One connection seen from its byte stream: the read loop of               *)
(* handle_connection with its pending buffer, MessageCommand::from_packet,   *)
(* MessageCommand::process and the loop over actions of handle_peer_actions. *)
(* TCP delivers the bytes in order and cuts them anywhere.                  *)
(*                                                                          *)
(* A byte is the cell [frame, at]: byte number `at` of frame number `frame`  *)
(* of the connection.  What a frame says (command, length, checksum) is the  *)
(* entry sent[frame], which can be read only once its bytes are there.  The  *)
(* effects of an action on the store, the role and the target height are the *)
(* subject of the other modules; here an action is performed or fails.      *)
(***************************************************************************)
EXTENDS Integers, Sequences, SequencesExt

CONSTANTS
    Messages,    \* the messages a peer may send: [command, data, payload, flaw]
    HeaderLen,   \* bytes of a frame's header: 24
    ReadSize,    \* bytes of the read buffer: 1024
    MaxFrames    \* bound: frames sent on one connection

\* What may be wrong with a frame: another network's magic, a checksum that
\* does not match, a payload that decipher cannot read.
Flaws == {"none", "magic", "checksum", "payload"}

ASSUME StreamAssumption ==
    /\ {HeaderLen, ReadSize, MaxFrames} \subseteq Nat \ {0}
    /\ \A m \in Messages : m.payload \in Nat /\ m.flaw \in Flaws

VARIABLES
    sent,       \* the messages the peer has sent on this connection
    wire,       \* bytes on their way
    pending,    \* the Vec of bytes read and not yet parsed
    pc,         \* where the task is
    actions,    \* what process returned and is not yet performed
    processed,  \* history: the frames taken out of pending, in order
    performed   \* history: the actions performed, in order

vars == <<sent, wire, pending, pc, actions, processed, performed>>

Cells(i, len) == [k \in 1 .. len |-> [frame |-> i, at |-> k]]
FrameLen(m)   == HeaderLen + m.payload

Init ==
    /\ sent = <<>> /\ wire = <<>>
    /\ pending = <<>> /\ pc = "read" /\ actions = <<>>
    /\ processed = <<>> /\ performed = <<>>

\* The peer (external) puts a frame on the wire.
Send(m) ==
    /\ pc # "closed"
    /\ Len(sent) < MaxFrames
    /\ sent' = Append(sent, m)
    /\ wire' = wire \o Cells(Len(sent) + 1, FrameLen(m))
    /\ UNCHANGED <<pending, pc, actions, processed, performed>>

---------------------------------------------------------------------------
\* from_packet.  It yields a message only from a whole, sound frame at the
\* front of the bytes p, and nothing in every other case.

\* Mutant: the payload is not waited for.
YieldsOnHeader(p) ==
    /\ Len(p) >= HeaderLen
    /\ p[1].at = 1
    /\ sent[p[1].frame].flaw = "none"

Yields(p) ==
    /\ Len(p) >= HeaderLen
    /\ p[1].at = 1                       \* else these are not the magic bytes
    /\ LET i == p[1].frame IN
           /\ Len(p) >= FrameLen(sent[i])
           /\ SubSeq(p, 1, FrameLen(sent[i])) = Cells(i, FrameLen(sent[i]))
           /\ sent[i].flaw = "none"

Reply(command, data) == [do |-> "Reply", command |-> command, data |-> data]

\* process: the actions a message calls for, in their order.
process(m) ==
    CASE m.command = "ping"    -> <<Reply("pong", m.data)>>
      [] m.command = "version" -> <<Reply("verack", 0),
                                    [do |-> "UpdateTargetHeight", height |-> m.data]>>
      [] m.command = "verack"  -> <<[do |-> "TryBecomeSyncNode"]>>
      [] m.command = "inv"     -> IF m.data = 0 THEN <<>>
                                  ELSE <<Reply("getdata", m.data)>>
      [] m.command = "headers" -> IF m.data = 0 THEN <<>>
                                  ELSE <<[do |-> "SaveHeaders", count |-> m.data]>>
      [] OTHER                 -> <<>>   \* tx is shown; pong and the rest ignored

---------------------------------------------------------------------------
\* The read loop.

\* Mutant: the chunk replaces what was left over.
ReadOverLeftover ==
    /\ pc = "read"
    /\ \E n \in 1 .. ReadSize :
           /\ n <= Len(wire)
           /\ pending' = SubSeq(wire, 1, n)
           /\ wire' = SubSeq(wire, n + 1, Len(wire))
    /\ pc' = "parse"
    /\ UNCHANGED <<sent, actions, processed, performed>>

\* A read returns some of the bytes that have arrived, as many as it likes.
Read ==
    /\ pc = "read"
    /\ \E n \in 1 .. ReadSize :
           /\ n <= Len(wire)
           /\ pending' = pending \o SubSeq(wire, 1, n)
           /\ wire' = SubSeq(wire, n + 1, Len(wire))
    /\ pc' = "parse"
    /\ UNCHANGED <<sent, actions, processed, performed>>

\* The next message leaves the buffer and is processed.
Parse ==
    /\ pc = "parse"
    /\ Yields(pending)
    /\ LET i == pending[1].frame IN
           /\ pending' = SubSeq(pending, FrameLen(sent[i]) + 1, Len(pending))
           /\ processed' = Append(processed, i)
           /\ actions' = process(sent[i])
    /\ pc' = IF actions' = <<>> THEN "parse" ELSE "act"
    /\ UNCHANGED <<sent, wire, performed>>

\* from_packet returns None: back to read, with the buffer as it is.
ParseNone ==
    /\ pc = "parse"
    /\ ~Yields(pending)
    /\ pc' = "read"
    /\ UNCHANGED <<sent, wire, pending, actions, processed, performed>>

\* Mutant: one message per read (an `if let` for the `while let`).
PerformAndRead ==
    /\ pc = "act"
    /\ performed' = Append(performed, Head(actions))
    /\ actions' = Tail(actions)
    /\ pc' = IF actions' = <<>> THEN "read" ELSE "act"
    /\ UNCHANGED <<sent, wire, pending, processed>>

\* Mutant: the loop over the actions ends after the first.
PerformFirst ==
    /\ pc = "act"
    /\ performed' = Append(performed, Head(actions))
    /\ actions' = <<>>
    /\ pc' = "parse"
    /\ UNCHANGED <<sent, wire, pending, processed>>

\* handle_peer_actions performs the next action.
Perform ==
    /\ pc = "act"
    /\ performed' = Append(performed, Head(actions))
    /\ actions' = Tail(actions)
    /\ pc' = IF actions' = <<>> THEN "parse" ELSE "act"
    /\ UNCHANGED <<sent, wire, pending, processed>>

\* The peer closes or the read fails; or a write or a save fails and `?` ends
\* handle_connection in the middle of the actions.  (To offer a target height
\* never fails.)
Close ==
    /\ \/ pc = "read"
       \/ pc = "act" /\ Head(actions).do # "UpdateTargetHeight"
    /\ pc' = "closed"
    /\ UNCHANGED <<sent, wire, pending, actions, processed, performed>>

\* Mutant: the buffer outlives the connection.
ReopenKeepsPending ==
    /\ pc = "closed"
    /\ pc' = "read"
    /\ sent' = <<>> /\ wire' = <<>>
    /\ actions' = <<>>
    /\ processed' = <<>> /\ performed' = <<>>
    /\ pending' = pending

\* The slot calls handle_connection again: a new stream, new locals.
Reopen ==
    /\ pc = "closed"
    /\ pc' = "read"
    /\ sent' = <<>> /\ wire' = <<>>
    /\ pending' = <<>> /\ actions' = <<>>
    /\ processed' = <<>> /\ performed' = <<>>

Next ==
    \/ \E m \in Messages : Send(m)
    \/ Read
    \/ Parse
    \/ ParseNone
    \/ Perform
    \/ Close
    \/ Reopen

Spec == Init /\ [][Next]_vars

\* Bytes on the wire arrive, and a task that can run is run.  Nothing makes a
\* peer send or a connection end.
FairSpec == Spec /\ WF_vars(Read) /\ WF_vars(Parse \/ ParseNone \/ Perform)

---------------------------------------------------------------------------
TypeOK ==
    /\ sent \in Seq(Messages) /\ Len(sent) <= MaxFrames
    /\ \A c \in Range(pending \o wire) :
           c.frame \in 1 .. Len(sent) /\ c.at \in 1 .. FrameLen(sent[c.frame])
    /\ pc \in {"read", "parse", "act", "closed"}
    /\ pc = "act" => actions # <<>>
    /\ processed \in Seq(1 .. Len(sent))

\* Wherever TCP cuts the stream, the messages processed are those sent, each
\* once and in the order sent; and the bytes not yet parsed are the rest of
\* the stream to the last byte, so that the buffer always starts a frame.
StreamIsIntact ==
    /\ processed = [i \in 1 .. Len(processed) |-> i]
    /\ pending \o wire =
           FlattenSeq([k \in 1 .. Len(sent) - Len(processed) |->
               LET i == Len(processed) + k IN Cells(i, FrameLen(sent[i]))])

\* The task never waits for the peer while a message it could process is in
\* the buffer: a peer that waits for the answer would wait for ever.
NothingLeftUnparsed == pc = "read" => ~Yields(pending)

\* All actions of one message are performed, in order, before the next message
\* is looked at and before more bytes are read; what was performed is a prefix
\* of what the messages call for even when an action fails.
ActionsInOrder ==
    LET called == FlattenSeq([k \in 1 .. Len(processed) |-> process(sent[processed[k]])])
    IN  /\ IsPrefix(performed, called)
        /\ pc \in {"read", "parse"} => performed = called

\* Every message whose frame is sound is processed in the end, unless the
\* connection ends, whatever else was sent on the connection.
SoundMessagesAreProcessed ==
    \A i \in 1 .. MaxFrames :
        (Len(sent) >= i /\ sent[i].flaw = "none")
            ~> (i \in Range(processed) \/ pc = "closed")
====
