------------------------------ MODULE UiChannel ------------------------------
(***************************************************************************)
(* The UI channel end to end: the server half of UiOutbox, the loopback    *)
(* connection, and the native client (crates/dm-client/src/main.rs,        *)
(* transport.rs, ui_commands.rs and readiness.rs).                         *)
(*                                                                         *)
(* The client polls ui_events from its event loop, applies the batch event *)
(* by event, commits browser updates and resources through the bounded     *)
(* owner queue and acknowledges the last event applied.  It blocks while a *)
(* request is in flight.  The server thread serves one connection at a     *)
(* time and keeps a request it has read although the connection breaks.    *)
(* Reconnecting attaches a new session.  A client launched with a recorded *)
(* startup replay shows that first and defers the live events until the    *)
(* live lobby screen is available.                                         *)
(***************************************************************************)
EXTENDS UiOutbox, Functions

CONSTANTS
    Capacity,      \* MAX_UI_OWNER_COMMANDS
    MaxReplay,     \* bound on the events of a recorded startup replay
    MaxDeferred    \* bound on the deferred live events of the model

(* "plain" events change presentation state only, "browser" ones produce a *)
(* BrowserUpdate, "resource" ones are BrowseResource, and UiPresentation   *)
(* rejects "bad" ones (a control the skin does not have).                  *)
ASSUME ChannelAssumption ==
    /\ Kind \subseteq {"plain", "browser", "resource", "bad"}
    /\ Capacity \in Nat
    /\ MaxReplay \in Nat
    /\ MaxDeferred \in Nat

VARIABLES
    transport,   \* ClientTransport: "pending", "live", or "broken"
    token,       \* the session the client attached to last, 0 for none
    request,     \* the request the server thread has read, if any
    reply,       \* the answer to ui_events on its way to the client, if any
    pc,          \* where the client's event loop is
    inbox,       \* the events apply_inbound_ui has still to apply
    ackSeq,      \* acknowledged_sequence, 0 for None
    lastSeq,     \* UiPresentation.last_sequence
    ownerQ,      \* UiOwnerCommandQueue
    generation,  \* ClientReadinessCoordinator.generation
    startup,     \* startup_snapshot_active
    deferred,    \* deferred_live_ui
    presented,   \* history: the events UiPresentation::apply applied
    committed    \* history: the events drained from the owner queue

clientVars == <<transport, token, request, reply, pc, inbox, ackSeq, lastSeq,
                ownerQ, generation, startup, deferred, presented, committed>>
vars       == <<outboxVars, clientVars>>

NoRequest == [op |-> "none"]
NoReply   == [op |-> "none"]

(* What travels to the client: the item and, for the history, its session. *)
Tagged(s, batch) ==
    [i \in 1 .. Len(batch) |->
        [session |-> s, seq |-> batch[i].seq, ev |-> batch[i].ev]]

Init ==
    /\ OutboxInit
    /\ transport = "pending"
    /\ token = 0
    /\ request = NoRequest
    /\ reply = NoReply
    /\ pc = "idle"
    /\ inbox = << >>
    /\ ackSeq = 0
    /\ startup \in BOOLEAN
    /\ lastSeq \in IF startup THEN 0 .. MaxReplay ELSE {0}
    /\ ownerQ = << >>
    /\ generation = 1
    /\ deferred = << >>
    /\ presented = << >>
    /\ committed = {}

-----------------------------------------------------------------------------
(* Mutant: the server handles a connection while the request of the        *)
(* previous one still waits for its tick boundary.                         *)
ServerFreeAlways == TRUE

(* serve: the thread accepts a connection when the previous one is closed  *)
(* and its last request is answered.                                       *)
ServerFree == request = NoRequest

(* UiOwnerCommandQueue::advance_generation keeps the commands of the new   *)
(* generation.  Generations never decrease along the queue: the others are *)
(* in front.                                                               *)
OfGeneration(queue, g) ==
    LET stale == {i \in 1 .. Len(queue) : queue[i].generation # g}
    IN  SubSeq(queue, Cardinality(stale) + 1, Len(queue))

(* ClientTransport::try_connect succeeds and about_to_wait rearms: a new    *)
(* readiness generation, stale owner commands dropped, and the sequence     *)
(* restarted only while the startup replay is shown.                        *)
Connect(s) ==
    /\ transport = "pending"
    /\ pc = "idle"
    /\ ServerFree
    /\ Attach(s)
    /\ transport' = "live"
    /\ token' = s
    /\ generation' = generation + 1
    /\ ownerQ' = OfGeneration(ownerQ, generation + 1)
    /\ lastSeq' = IF startup THEN 0 ELSE lastSeq
    /\ UNCHANGED <<request, reply, pc, inbox, ackSeq, startup, deferred,
                   presented, committed>>

(* The server attaches but the connection breaks before the client reads   *)
(* the answer: the client stays pending and tries again.                   *)
ConnectLost(s) ==
    /\ transport = "pending"
    /\ pc = "idle"
    /\ ServerFree
    /\ Attach(s)
    /\ UNCHANGED clientVars

(* The ".reconnect" menu command (ClientTransport::reconnect). *)
Reconnect ==
    /\ transport \in {"live", "broken"}
    /\ pc = "idle"
    /\ attached < MaxSessions
    /\ transport' = "pending"
    /\ UNCHANGED <<outboxVars, token, request, reply, pc, inbox, ackSeq, lastSeq,
                   ownerQ, generation, startup, deferred, presented, committed>>

(* The connection breaks.  A request is lost with it or was already read;  *)
(* the client's exchange fails and apply_inbound_ui returns.               *)
Break ==
    /\ transport = "live"
    /\ transport' = "broken"
    /\ request' \in {request, NoRequest}
    /\ reply' = NoReply
    /\ pc' = IF pc \in {"poll", "ack"} THEN "idle" ELSE pc
    /\ UNCHANGED <<outboxVars, token, inbox, ackSeq, lastSeq, ownerQ, generation,
                   startup, deferred, presented, committed>>

(* DM code runs between two tick boundaries and shows something. *)
ServerEmit(s, k) == Emit(s, k) /\ UNCHANGED clientVars

-----------------------------------------------------------------------------
(* apply_inbound_ui sends ui_events ... *)
Poll ==
    /\ pc = "idle"
    /\ transport = "live"
    /\ request = NoRequest
    /\ startup => Len(deferred) < MaxDeferred
    /\ request' = [op |-> "ui_events", session |-> token]
    /\ pc' = "poll"
    /\ UNCHANGED <<outboxVars, transport, token, reply, inbox, ackSeq, lastSeq,
                   ownerQ, generation, startup, deferred, presented, committed>>

(* ... which the server applies at its next tick boundary, whether or not  *)
(* anybody still waits for the answer ...                                  *)
ServeUiEvents ==
    /\ request.op = "ui_events"
    /\ UiEvents(request.session)
    /\ reply' = IF pc = "poll" /\ transport = "live"
                THEN [op |-> "batch",
                      items |-> Tagged(request.session,
                                       retained'[request.session])]
                ELSE NoReply
    /\ request' = NoRequest
    /\ UNCHANGED <<transport, token, pc, inbox, ackSeq, lastSeq, ownerQ,
                   generation, startup, deferred, presented, committed>>

(* ... and the client defers the answer while it shows the startup replay, *)
(* or starts to apply what it deferred followed by the answer.             *)
ReceiveBatch ==
    /\ pc = "poll"
    /\ reply.op = "batch"
    /\ reply' = NoReply
    /\ ackSeq' = 0
    /\ IF startup
       THEN /\ deferred' = deferred \o reply.items
            /\ pc' = "idle"
            /\ UNCHANGED inbox
       ELSE /\ inbox' = deferred \o reply.items
            /\ deferred' = << >>
            /\ pc' = "apply"
    /\ UNCHANGED <<outboxVars, transport, token, request, lastSeq, ownerQ,
                   generation, startup, presented, committed>>

KindOf(item) == emitted[item.session][item.ev]
Owned(item)  == [generation |-> generation, item |-> item]

(* UiOwnerCommandQueue::push rejects a command when the queue is full. *)
HasRoom == Len(ownerQ) < Capacity

(* Mutant: the check of the sequence number is off by one. *)
SeenStrictly(item) == item.seq < lastSeq

(* UiPresentation::apply skips what it applied before. *)
Seen(item) == item.seq <= lastSeq

(* One turn of the loop of apply_inbound_ui with UiPresentation::apply: an *)
(* event that was seen is skipped, a rejected one ends the batch without   *)
(* an acknowledgement.  A browser update is pushed before it counts as     *)
(* acknowledged, a resource after it (and again when it was seen); a full  *)
(* owner queue ends the batch although last_sequence has advanced.         *)
ApplyEvent ==
    /\ pc = "apply"
    /\ inbox # << >>
    /\ LET item     == Head(inbox)
           kind     == KindOf(item)
           seen     == Seen(item)
           rejected == kind = "bad" /\ ~seen
           pushes   == (kind = "browser" /\ ~seen) \/ kind = "resource"
           full     == pushes /\ ~HasRoom
       IN  /\ lastSeq' = IF seen \/ rejected THEN lastSeq ELSE item.seq
           /\ presented' = IF seen \/ rejected
                           THEN presented ELSE Append(presented, item)
           /\ ackSeq' = IF rejected \/ (full /\ kind = "browser")
                        THEN ackSeq ELSE item.seq
           /\ ownerQ' = IF pushes /\ HasRoom
                        THEN Append(ownerQ, Owned(item)) ELSE ownerQ
           /\ inbox' = IF rejected \/ full THEN << >> ELSE Tail(inbox)
    /\ UNCHANGED <<outboxVars, transport, token, request, reply, pc, generation,
                   startup, deferred, committed>>

(* What pop_current hands out: the commands of the current generation. *)
Drained == {c.item : c \in {ownerQ[i] : i \in
               {j \in 1 .. Len(ownerQ) : ownerQ[j].generation = generation}}}

(* The end of apply_inbound_ui: drain the owner queue, then acknowledge    *)
(* the last event applied, if there is one and the connection still works. *)
FinishBatch ==
    /\ pc = "apply"
    /\ inbox = << >>
    /\ committed' = committed \cup Drained
    /\ ownerQ' = << >>
    /\ IF ackSeq # 0 /\ transport = "live"
       THEN /\ request' = [op |-> "ui_ack", session |-> token, seq |-> ackSeq]
            /\ pc' = "ack"
       ELSE /\ pc' = "idle"
            /\ UNCHANGED request
    /\ UNCHANGED <<outboxVars, transport, token, reply, inbox, ackSeq, lastSeq,
                   generation, startup, deferred, presented>>

(* The server applies the acknowledgement; the client goes on. *)
ServeUiAck ==
    /\ request.op = "ui_ack"
    /\ UiAck(request.session, request.seq)
    /\ request' = NoRequest
    /\ pc' = IF pc = "ack" THEN "idle" ELSE pc
    /\ UNCHANGED <<transport, token, reply, inbox, ackSeq, lastSeq, ownerQ,
                   generation, startup, deferred, presented, committed>>

(* refresh_snapshot accepts a live snapshot that shows the lobby screen. *)
LobbyAvailable ==
    /\ startup
    /\ transport = "live"
    /\ pc = "idle"
    /\ startup' = FALSE
    /\ UNCHANGED <<outboxVars, transport, token, request, reply, pc, inbox,
                   ackSeq, lastSeq, ownerQ, generation, deferred, presented,
                   committed>>

Next ==
    \/ \E s \in Session : Connect(s) \/ ConnectLost(s)
    \/ \E s \in Session, k \in Kind : ServerEmit(s, k)
    \/ Reconnect
    \/ Break
    \/ Poll
    \/ ServeUiEvents
    \/ ReceiveBatch
    \/ ApplyEvent
    \/ FinishBatch
    \/ ServeUiAck
    \/ LobbyAvailable

Spec == Init /\ [][Next]_vars

(* The persistent loop reaches a tick boundary again and again, the event  *)
(* loop of the client wakes every 50 or 100 ms, and nothing in either      *)
(* waits for anything else.                                                *)
FairSpec ==
    /\ Spec
    /\ WF_vars(Poll)
    /\ WF_vars(ServeUiEvents)
    /\ WF_vars(ReceiveBatch)
    /\ WF_vars(ApplyEvent)
    /\ WF_vars(FinishBatch)
    /\ WF_vars(ServeUiAck)

-----------------------------------------------------------------------------
Inbound == [session : Session, seq : Number, ev : Event]

(* Type correctness of the connection and of the client; the owner queue   *)
(* never exceeds its capacity.                                             *)
ChannelTypeOK ==
    /\ transport \in {"pending", "live", "broken"}
    /\ token \in 0 .. MaxSessions
    /\ request \in {NoRequest}
                   \cup [op : {"ui_events"}, session : Session]
                   \cup [op : {"ui_ack"}, session : Session, seq : Number]
    /\ reply \in {NoReply} \cup [op : {"batch"}, items : Seq(Inbound)]
    /\ pc \in {"idle", "poll", "apply", "ack"}
    /\ inbox \in Seq(Inbound)
    /\ ackSeq \in Nat
    /\ lastSeq \in Nat
    /\ ownerQ \in Seq([generation : Nat, item : Inbound])
    /\ Len(ownerQ) <= Capacity
    /\ generation \in 1 .. MaxSessions + 1
    /\ startup \in BOOLEAN
    /\ deferred \in Seq(Inbound)
    /\ presented \in Seq(Inbound)
    /\ committed \subseteq Inbound

(* Whatever is polled again, deferred, cut off or reconnected, the events  *)
(* of a session are applied in the order DM code emitted them and none is  *)
(* applied twice: no prompt is queued twice and no line is output twice.   *)
AppliedOnceInOrder ==
    \A i, j \in 1 .. Len(presented) :
        i < j /\ presented[i].session = presented[j].session =>
            presented[i].ev < presented[j].ev

(* Because the server finishes the request of a broken connection before   *)
(* it accepts the next one, the poll of an abandoned session never takes   *)
(* the queue of the session the client is on.                              *)
CurrentQueueIntact ==
    token # 0 =>
        (uiSeq[token] - 1) + Len(outbox[token]) = Len(emitted[token])

(* The client has done with an event what it asks for. *)
Handled(s, e) ==
    LET is(item) == item.session = s /\ item.ev = e
    IN  /\ \E item \in Range(presented) : is(item)
        /\ emitted[s][e] \in {"browser", "resource"} =>
               \E item \in committed : is(item)

(* An event leaves the server only when the client has handled it: what is *)
(* emitted to the current session is queued, retained, or handled.         *)
NoEventLost ==
    token # 0 =>
        \A e \in 1 .. Len(emitted[token]) :
            \/ e \in Range(outbox[token])
            \/ e \in {item.ev : item \in Range(retained[token])}
            \/ Handled(token, e)

(* Not an invariant: a poll during the startup replay appends the retained *)
(* batch again (README, section 5).                                        *)
DeferredHasNoDuplicate ==
    \A i, j \in 1 .. Len(deferred) : deferred[i] = deferred[j] => i = j

(* While the connection holds and the startup replay is over, every event  *)
(* emitted to the client is eventually handled by it.                      *)
EveryEventHandled ==
    \A e \in Event :
        (transport = "live" /\ ~startup /\ e <= Len(emitted[token]))
            ~> (transport # "live" \/ Handled(token, e))

=============================================================================
