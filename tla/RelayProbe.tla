----------------------------- MODULE RelayProbe -----------------------------
(***************************************************************************)
(* The transport probe between relay and node agent: a single-use server   *)
(* sends one request over a stream that the agent opened, and the agent    *)
(* echoes its chunks or acknowledges its cancellation.  A stream is two    *)
(* queues of frames with flow control: a send waits while `window` frames  *)
(* are unread.  The relay sends the whole request before it reads.         *)
(*                                                                         *)
(* Connection, request and trace identifiers are fixed by the code and     *)
(* copied into every frame; they, the limits and the byte sizes are left   *)
(* out.                                                                    *)
(***************************************************************************)
EXTENDS Naturals, Sequences, FiniteSets

CONSTANTS
  Agents,       \* connections of node agents
  Home,         \* the installation of each agent
  Target,       \* the installation the probe is for
  Requests,     \* what a probe may send: sequences of chunks, or a cancellation code
  Windows       \* flow-control windows, in frames

VARIABLES
  request,    \* the probe's request: [chunks, code]
  window,
  connected,  \* ProbeServer.connected
  handler,    \* per agent: the relay's Connect
  node,       \* per agent: the agent's ServeProbe
  up, down,   \* per agent: unread frames to the relay and to the agent
  link,       \* per agent: "none", "open", "served" (handler returned), "left" (agent
              \* returned) or "broken"
  outcome,    \* the outcome channel, with the outcomes already taken from it
  await       \* the caller of Await

vars == <<request, window, connected, handler, node, up, down, link, outcome, await>>

NoCode == "unspecified"
Frame(kind, inst, seq, data) == [kind |-> kind, inst |-> inst, seq |-> seq, data |-> data]
None == Frame("none", Target, 0, NoCode)

Init ==
  /\ request \in Requests /\ window \in Windows
  /\ connected = FALSE
  /\ handler = [a \in Agents |->
       [pc |-> "none", sent |-> 0, started |-> FALSE, next |-> 1, body |-> <<>>, code |-> NoCode]]
  /\ node = [a \in Agents |-> [pc |-> "new", started |-> FALSE, next |-> 1, reply |-> None]]
  /\ up = [a \in Agents |-> <<>>] /\ down = [a \in Agents |-> <<>>]
  /\ link = [a \in Agents |-> "none"]
  /\ outcome = <<>> /\ await = "waiting"

Cancels == request.code # NoCode

Opening == <<Frame("hello", Target, 0, NoCode), Frame("start", Target, 0, NoCode)>>
Body == [k \in 1..Len(request.chunks) |-> Frame("chunk", Target, k, request.chunks[k])]
Ending == IF Cancels THEN Frame("cancelled", Target, 0, request.code)
          ELSE Frame("end", Target, 0, NoCode)

\* Faulty variant of Script: a request with a body is not ended.
ScriptUnended == IF Body = <<>> THEN Append(Opening, Ending) ELSE Opening \o Body

\* The frames Connect sends, in order: the acknowledgement, the start of the request,
\* and its chunks and end or its cancellation.
Script == Append(Opening \o Body, Ending)

----------------------------------------------------------------------------
(* The stream.                                                              *)

CanSend(queue) == Len(queue) < window
Gone(a) == link[a] = "broken"

\* Either end fails, or the connection does: what was not read is lost.
Break(a) ==
  /\ link' = [link EXCEPT ![a] = "broken"]
  /\ up' = [up EXCEPT ![a] = <<>>] /\ down' = [down EXCEPT ![a] = <<>>]

Disconnect(a) ==
  /\ link[a] \in {"open", "left"}
  /\ Break(a)
  /\ UNCHANGED <<request, window, connected, handler, node, outcome, await>>

----------------------------------------------------------------------------
(* The agent: ServeProbe.                                                   *)

\* The agent sends its hello as the first frame of the stream it opened.
SendHello(a) ==
  /\ node[a].pc = "new"
  /\ link' = [link EXCEPT ![a] = "open"]
  /\ up' = [up EXCEPT ![a] = <<Frame("hello", Home[a], 0, NoCode)>>]
  /\ node' = [node EXCEPT ![a].pc = "hello"]
  /\ UNCHANGED <<request, window, connected, handler, down, outcome, await>>

\* validateRelayHello
ValidRelayHello(a, f) == f.kind = "hello" /\ f.inst = Home[a]

ReceiveRelayHello(a) ==
  /\ node[a].pc = "hello" /\ down[a] # <<>> /\ ValidRelayHello(a, Head(down[a]))
  /\ node' = [node EXCEPT ![a].pc = "serving"]
  /\ down' = [down EXCEPT ![a] = Tail(@)]
  /\ UNCHANGED <<request, window, connected, handler, up, link, outcome, await>>

\* The frame is taken; the agent now sends `f` back, and then goes on or returns nil.
Reply(a, f, started, next) ==
  /\ node' = [node EXCEPT ![a] = [pc |-> "reply", started |-> started, next |-> next, reply |-> f]]
  /\ down' = [down EXCEPT ![a] = Tail(@)]
  /\ UNCHANGED <<up, link>>

\* The clauses of ServeProbe's switch that accept the frame; `late` is that the
\* request's deadline has passed.
Serves(a, f, late) ==
  /\ f.inst = Home[a]
  /\ CASE f.kind = "start" -> ~node[a].started /\ ~late
       [] f.kind = "chunk" -> node[a].started /\ f.seq = node[a].next
       [] f.kind \in {"end", "cancelled"} -> node[a].started
       [] OTHER -> FALSE

\* ServeProbe's loop: one frame is read.
ServeProbe(a) ==
  LET f == Head(down[a]) IN
  /\ node[a].pc = "serving" /\ down[a] # <<>>
  /\ Serves(a, f, FALSE)
  /\ Reply(a, f, TRUE, IF f.kind = "chunk" THEN f.seq + 1 ELSE node[a].next)
  /\ UNCHANGED <<request, window, connected, handler, outcome, await>>

\* ServeProbe returns an error: the stream broke, the handler returned and all was
\* read, or a frame is not accepted.
NodeFails(a) ==
  /\ \/ node[a].pc \in {"hello", "serving", "reply"} /\ Gone(a)
     \/ node[a].pc = "reply" /\ link[a] = "served"
     \/ node[a].pc \in {"hello", "serving"} /\ link[a] = "served" /\ down[a] = <<>>
     \/ node[a].pc = "hello" /\ down[a] # <<>> /\ ~ValidRelayHello(a, Head(down[a]))
     \/ node[a].pc = "serving" /\ down[a] # <<>>
        /\ \E late \in BOOLEAN : ~Serves(a, Head(down[a]), late)
  /\ node' = [node EXCEPT ![a].pc = "failed"]
  /\ Break(a)
  /\ UNCHANGED <<request, window, connected, handler, outcome, await>>

\* The response frame is a copy of the request's.
Replied(a) == Append(up[a], node[a].reply)

\* ServeProbe's sends: they wait for the window; after an end or a cancellation the
\* agent returns nil, and closes its side.
SendReply(a) ==
  LET last == node[a].reply.kind \in {"end", "cancelled"} IN
  /\ node[a].pc = "reply" /\ link[a] = "open" /\ CanSend(up[a])
  /\ up' = [up EXCEPT ![a] = Replied(a)]
  /\ node' = [node EXCEPT ![a].pc = IF last THEN "ok" ELSE "serving", ![a].reply = None]
  /\ link' = [link EXCEPT ![a] = IF last THEN "left" ELSE @]
  /\ UNCHANGED <<request, window, connected, handler, down, outcome, await>>

----------------------------------------------------------------------------
(* The relay: Connect.                                                      *)

\* The deferred send of the outcome, when the handler returns.
Return(a, ok) ==
  /\ outcome' = Append(outcome, [ok |-> ok, agent |-> a, body |-> handler'[a].body,
                                 code |-> handler'[a].code])
  /\ link' = [link EXCEPT ![a] = IF @ \in {"open", "left"} THEN "served" ELSE @]

\* Faulty variant of Admit: two connections at the same time both find it unused.
AdmitRacing(a) == \A b \in Agents : handler[b].pc # "over"

\* connected.CompareAndSwap(false, true)
Admit(a) == ~connected

\* Connect is entered; every connection but the first is refused.
Connect(a) ==
  /\ link[a] = "open" /\ handler[a].pc = "none"
  /\ \/ /\ Admit(a)
        /\ connected' = TRUE
        /\ handler' = [handler EXCEPT ![a].pc = "hello"]
        /\ UNCHANGED link
     \/ /\ ~Admit(a)
        /\ handler' = [handler EXCEPT ![a].pc = "refused"]
        /\ link' = [link EXCEPT ![a] = "served"]
        /\ UNCHANGED connected
  /\ UNCHANGED <<request, window, node, up, down, outcome, await>>

\* validateNodeHello
ValidNodeHello(f) == f.kind = "hello" /\ f.inst = Target

ReceiveNodeHello(a) ==
  /\ handler[a].pc = "hello" /\ up[a] # <<>> /\ ValidNodeHello(Head(up[a]))
  /\ up' = [up EXCEPT ![a] = Tail(@)]
  /\ handler' = [handler EXCEPT ![a].pc = "send"]
  /\ UNCHANGED <<request, window, connected, node, down, link, outcome, await>>

\* The sends of Connect, one frame each; a send on a broken stream fails.
Send(a) ==
  /\ handler[a].pc = "send"
  /\ \/ /\ ~Gone(a) /\ CanSend(down[a])
        /\ down' = [down EXCEPT ![a] = Append(@, Script[handler[a].sent + 1])]
        /\ handler' = [handler EXCEPT ![a].sent = @ + 1,
             ![a].pc = IF handler[a].sent + 1 = Len(Script) THEN "read" ELSE @]
        /\ UNCHANGED <<link, outcome>>
     \/ /\ Gone(a)
        /\ handler' = [handler EXCEPT ![a].pc = "over"]
        /\ Return(a, FALSE)
        /\ UNCHANGED down
  /\ UNCHANGED <<request, window, connected, node, up, await>>

\* The clauses of Connect's switch that accept the frame (validateNodeEnvelope first).
Accepts(a, f) ==
  /\ f.inst = Target
  /\ CASE f.kind = "start" -> ~handler[a].started
       [] f.kind = "chunk" -> handler[a].started /\ ~Cancels /\ f.seq = handler[a].next
       [] f.kind = "end" -> handler[a].started /\ ~Cancels
       [] f.kind = "cancelled" -> Cancels /\ f.data = request.code
       [] OTHER -> FALSE

\* Faulty variant of Apply: a chunk goes where its number says, not after the last one.
ApplyInPlace(h, f) ==
  CASE f.kind = "start" -> [h EXCEPT !.started = TRUE]
    [] f.kind = "chunk" -> [h EXCEPT !.next = @ + 1, !.body = <<f.data>>]
    [] f.kind = "end" -> [h EXCEPT !.pc = "over"]
    [] OTHER -> [h EXCEPT !.pc = "over", !.code = f.data]

\* What an accepted frame does to the result.
Apply(h, f) ==
  CASE f.kind = "start" -> [h EXCEPT !.started = TRUE]
    [] f.kind = "chunk" -> [h EXCEPT !.next = @ + 1, !.body = Append(@, f.data)]
    [] f.kind = "end" -> [h EXCEPT !.pc = "over"]
    [] OTHER -> [h EXCEPT !.pc = "over", !.code = f.data]

\* Connect's loop, one frame.
Receive(a) ==
  LET f == Head(up[a]) IN
  /\ handler[a].pc = "read" /\ up[a] # <<>> /\ Accepts(a, f)
  /\ up' = [up EXCEPT ![a] = Tail(@)]
  /\ handler' = [handler EXCEPT ![a] = Apply(@, f)]
  /\ IF f.kind \in {"end", "cancelled"} THEN Return(a, TRUE) ELSE UNCHANGED <<link, outcome>>
  /\ UNCHANGED <<request, window, connected, node, down, await>>

\* Faulty variant of Lost: the end of the stream is taken for the end of a response
\* that looks complete.
LostQuietly(a) == ~(handler[a].pc = "read" /\ ~Cancels /\ handler[a].body = request.chunks)

\* A handler that can neither receive nor accept a frame returns an error.
Lost(a) == TRUE

\* Recv fails, or the frame read is not accepted.
ReceiveFails(a) ==
  /\ \/ handler[a].pc \in {"hello", "read"} /\ up[a] = <<>> /\ link[a] \in {"left", "broken"}
     \/ handler[a].pc = "hello" /\ up[a] # <<>> /\ ~ValidNodeHello(Head(up[a]))
     \/ handler[a].pc = "read" /\ up[a] # <<>> /\ ~Accepts(a, Head(up[a]))
  /\ handler' = [handler EXCEPT ![a].pc = "over"]
  /\ Return(a, ~Lost(a))
  /\ UNCHANGED <<request, window, connected, node, up, down, await>>

\* Await: the outcome, or its context ends first.
Await ==
  /\ await = "waiting"
  /\ \/ outcome # <<>> /\ await' = "answered"
     \/ await' = "gave up"
  /\ UNCHANGED <<request, window, connected, handler, node, up, down, link, outcome>>

Step(a) ==
  \/ SendHello(a) \/ ReceiveRelayHello(a) \/ NodeFails(a)
  \/ ServeProbe(a) \/ SendReply(a)
  \/ Connect(a) \/ ReceiveNodeHello(a) \/ Send(a) \/ Receive(a) \/ ReceiveFails(a)

Next == Await \/ \E a \in Agents : Step(a) \/ Disconnect(a)

Spec == Init /\ [][Next]_vars

----------------------------------------------------------------------------
\* Queues stay within the window, and one outcome at most is ever produced: the channel
\* of capacity one never blocks the handler's deferred send, also when Await gave up.
TypeOK ==
  /\ \A a \in Agents :
       /\ Len(up[a]) <= window /\ Len(down[a]) <= window
       /\ node[a].pc \in {"new", "hello", "serving", "reply", "ok", "failed"}
       /\ handler[a].pc \in {"none", "hello", "send", "read", "over", "refused"}
       /\ link[a] \in {"none", "open", "served", "left", "broken"}
  /\ Len(outcome) <= 1

\* A probe that succeeds has seen exactly its own chunks, once each and in order, or
\* exactly the acknowledgement of its own cancellation code and no body.
EchoIsExact ==
  \A k \in 1..Len(outcome) : outcome[k].ok =>
    /\ outcome[k].body = request.chunks
    /\ outcome[k].code = request.code

\* A probe that succeeds was served to the end by an agent of its installation, and by
\* no other; an agent may believe it served a probe whose last frame was lost, never the
\* other way round.
Agreement ==
  \A k \in 1..Len(outcome) : outcome[k].ok =>
    /\ Home[outcome[k].agent] = Target
    /\ {a \in Agents : node[a].pc = "ok"} = {outcome[k].agent}

\* The relay sends all frames before it reads one, and the agent answers each before it
\* reads the next.  Nobody waits for ever as long as the frames fit into both windows
\* and the agent's hand; beyond that both sides wait in Send.
NoStandoff ==
  Len(Script) - 1 <= 2 * window + 1 =>
    \A a \in Agents :
      node[a].pc \in {"hello", "serving", "reply"} \/ handler[a].pc \in {"hello", "send", "read"}
        => ENABLED Step(a)
=============================================================================
