------------------------------ MODULE UiOutbox ------------------------------
(***************************************************************************)
(* The server half of the UI channel: the outbound queues the VM fills     *)
(* (crates/dm-vm/src/local_client.rs) and the sequenced, acknowledged      *)
(* batches LoopbackIpc makes of them (crates/dm-lifecycle/src/ipc.rs).     *)
(*                                                                         *)
(* The VM appends events to the queue of a connected client while DM code  *)
(* runs.  A ui_events request moves the queue of its client into the       *)
(* retained batch of the session, but only when that batch is empty        *)
(* (stop-and-wait), and answers with the whole batch; a ui_ack request     *)
(* discards the acknowledged prefix.  Requests are applied one at a time   *)
(* at a tick boundary, in any order and any number of times: a client that *)
(* got no answer asks again.                                               *)
(*                                                                         *)
(* An event is the position it was emitted at in its session.              *)
(***************************************************************************)
EXTENDS Integers, Sequences, FiniteSets

CONSTANTS
    MaxSessions,   \* bound on the sessions ever attached
    MaxEvents,     \* bound on the events emitted to one session
    Kind           \* what the client does with an event (see UiChannel)

ASSUME OutboxAssumption ==
    /\ MaxSessions \in Nat
    /\ MaxEvents \in Nat

Session == 1 .. MaxSessions
Event   == 1 .. MaxEvents
Number  == Nat \ {0}   \* 0 is what a client has seen before the first event
Item    == [seq : Number, ev : Event]   \* a retained event and its number

VARIABLES
    attached,   \* LoopbackIpc.next_session - 1: sessions are never removed
    emitted,    \* the kinds of the events emitted to each session so far
    outbox,     \* ClientState.local_client_outbound_events
    uiSeq,      \* LoopbackIpc.ui_sequences: the next number of each session
    retained    \* LoopbackIpc.retained_ui

outboxVars == <<attached, emitted, outbox, uiSeq, retained>>

OutboxInit ==
    /\ attached = 0
    /\ emitted = [s \in Session |-> << >>]
    /\ outbox = [s \in Session |-> << >>]
    /\ uiSeq = [s \in Session |-> 1]
    /\ retained = [s \in Session |-> << >>]

(* Command::Attach: the new session numbers its events from 1. *)
Attach(s) ==
    /\ s = attached + 1
    /\ attached' = s
    /\ uiSeq' = [uiSeq EXCEPT ![s] = 1]
    /\ retained' = [retained EXCEPT ![s] = << >>]
    /\ UNCHANGED <<emitted, outbox>>

(* emit_ui_event: DM code shows, browses, prompts or plays something. *)
Emit(s, k) ==
    /\ s <= attached
    /\ Len(emitted[s]) < MaxEvents
    /\ emitted' = [emitted EXCEPT ![s] = Append(@, k)]
    /\ outbox' = [outbox EXCEPT ![s] = Append(@, Len(emitted[s]) + 1)]
    /\ UNCHANGED <<attached, uiSeq, retained>>

(* The events numbered from n on, in queue order. *)
Numbered(queue, n) ==
    [i \in 1 .. Len(queue) |-> [seq |-> n + i - 1, ev |-> queue[i]]]

(* Mutant: the queue is taken although a batch is still unacknowledged. *)
UiEventsEager(s) ==
    /\ s <= attached
    /\ retained' = [retained EXCEPT ![s] = @ \o Numbered(outbox[s], uiSeq[s])]
    /\ uiSeq' = [uiSeq EXCEPT ![s] = @ + Len(outbox[s])]
    /\ outbox' = [t \in Session |-> << >>]
    /\ UNCHANGED <<attached, emitted>>

(* Mutant: every batch is numbered from 1. *)
UiEventsRenumber(s) ==
    /\ s <= attached
    /\ IF retained[s] = << >>
       THEN /\ retained' = [retained EXCEPT ![s] = Numbered(outbox[s], 1)]
            /\ uiSeq' = [uiSeq EXCEPT ![s] = @ + Len(outbox[s])]
            /\ outbox' = [t \in Session |-> << >>]
       ELSE UNCHANGED <<retained, uiSeq, outbox>>
    /\ UNCHANGED <<attached, emitted>>

(* Command::UiEvents.  take_local_client_outbound_events takes the queues  *)
(* of all clients (take_outbound_events is a mem::take of the whole map)   *)
(* and keeps only the one of the asking session.  The answer is the whole  *)
(* batch, retained'[s].                                                    *)
UiEvents(s) ==
    /\ s <= attached
    /\ IF retained[s] = << >>
       THEN /\ retained' = [retained EXCEPT ![s] = Numbered(outbox[s], uiSeq[s])]
            /\ uiSeq' = [uiSeq EXCEPT ![s] = @ + Len(outbox[s])]
            /\ outbox' = [t \in Session |-> << >>]
       ELSE UNCHANGED <<retained, uiSeq, outbox>>
    /\ UNCHANGED <<attached, emitted>>

(* Vec::retain with "sequence > q": the items above q, in their order.     *)
Above(batch, q) ==
    LET kept == {i \in 1 .. Len(batch) : batch[i].seq > q}
        place(k) == CHOOSE i \in kept : Cardinality({j \in kept : j <= i}) = k
    IN  [k \in 1 .. Cardinality(kept) |-> batch[place(k)]]

(* Mutant: the acknowledged event itself is kept. *)
UiAckExclusive(s, q) ==
    /\ s <= attached
    /\ retained' = [retained EXCEPT ![s] =
                      SelectSeq(@, LAMBDA item : item.seq >= q)]
    /\ UNCHANGED <<attached, emitted, outbox, uiSeq>>

(* Command::UiAck with the number the client sent. *)
UiAck(s, q) ==
    /\ s <= attached
    /\ retained' = [retained EXCEPT ![s] = Above(@, q)]
    /\ UNCHANGED <<attached, emitted, outbox, uiSeq>>

OutboxNext ==
    \E s \in Session :
        \/ Attach(s)
        \/ \E k \in Kind : Emit(s, k)
        \/ UiEvents(s)
        \/ \E q \in 0 .. MaxEvents : UiAck(s, q)

OutboxSpec == OutboxInit /\ [][OutboxNext]_outboxVars

-----------------------------------------------------------------------------
(* Type correctness of the server half of the channel. *)
OutboxTypeOK ==
    /\ attached \in 0 .. MaxSessions
    /\ emitted \in [Session -> Seq(Kind)]
    /\ outbox \in [Session -> Seq(Event)]
    /\ uiSeq \in [Session -> Number]
    /\ retained \in [Session -> Seq(Item)]
    /\ \A s \in Session : Len(emitted[s]) <= MaxEvents

(* A batch, the queue behind it, the next number and the events so far:    *)
(* the numbers of the batch are consecutive and end right below the next   *)
(* one; its events, followed by the queued ones, are in emission order.    *)
InOrder(batch, queue, next, count) ==
    /\ \A i \in 1 .. Len(batch) : batch[i].seq = next - Len(batch) + i - 1
    /\ \A i, j \in 1 .. Len(batch) : i < j => batch[i].ev < batch[j].ev
    /\ \A i, j \in 1 .. Len(queue) : i < j => queue[i] < queue[j]
    /\ \A i \in 1 .. Len(batch), j \in 1 .. Len(queue) : batch[i].ev < queue[j]
    /\ \A i \in 1 .. Len(batch) : batch[i].ev <= count
    /\ \A j \in 1 .. Len(queue) : queue[j] <= count

(* "Drains authoritative UI operations in exact DM execution order": the   *)
(* sequence numbers of a session follow the order in which DM code emitted *)
(* the events, and no number and no event is given out twice, whatever was *)
(* polled again, acknowledged late or left behind by another session.      *)
SequencedInOrder ==
    \A s \in Session :
        InOrder(retained[s], outbox[s], uiSeq[s], Len(emitted[s]))

(* "Re-polls therefore replay an identical batch": as long as a batch is   *)
(* not acknowledged as a whole, a step only removes items from its front.  *)
ReplayStable ==
    [][\A s \in Session :
         retained[s] # << >> =>
             \E n \in 0 .. Len(retained[s]) :
                 retained'[s] = SubSeq(retained[s], n + 1, Len(retained[s]))
      ]_outboxVars
=============================================================================
