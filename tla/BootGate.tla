------------------------------ MODULE BootGate ------------------------------
(***************************************************************************)
(* Boot phases, the startup gate and the sessions of LoopbackIpc           *)
(* (crates/dm-lifecycle/src/ipc.rs), driven by the boot sequence of        *)
(* crates/dm-lifecycle/src/main.rs and by run_persistent_server_loop and   *)
(* activate_lobby_generation (src/server/server_loop.rs).                  *)
(*                                                                         *)
(* Three actors: the owner thread boots the world, activates the lobby and *)
(* then runs the persistent loop, applying queued requests only at its     *)
(* tick boundaries; the serve thread reads one request at a time and       *)
(* refuses an attach itself while the gate is closed; the client attaches, *)
(* reports its readiness and sends input.  The owner thread alone advances *)
(* the gate, the serve thread only reads it.                               *)
(***************************************************************************)
EXTENDS Integers, FiniteSets

CONSTANTS
    MaxSessions,   \* bound on the sessions of the model
    MaxSlices      \* DREAM64_ACTIVATION_MAX_SLICES

ASSUME BootAssumption == MaxSessions \in Nat /\ MaxSlices \in Nat \ {0}

Session == 1 .. MaxSessions

(* BootPhase. *)
ArtifactValidation     == 0
StructuralLoad         == 1
WorldPlan              == 2
WorldAllocation        == 3
Lifecycle              == 4
RuntimeStartedReadOnly == 5
Interactive            == 6

(* SessionReadiness and the commands that advance it; the commands that    *)
(* carry player input.                                                     *)
Readiness == {"skin", "resources", "input"}
Input     == {"screen_pointer", "map_pointer", "client_command", "move"}

VARIABLES
    phase,        \* StartupGate.state, the phase of the only generation
    owner,        \* where the owner thread is
    slices,       \* activation slices used so far
    pregame,      \* the VM's ticker satisfies the lobby readiness probe
    request,      \* the request in the channel: the serve thread waits for it
    attached,     \* sessions attached so far
    ready,        \* SessionReadiness of every session
    interactive,  \* ClientState.interactive_local_clients
    accepted      \* history: the phases in which input was accepted

gateVars    == <<phase, owner, slices, pregame>>
sessionVars == <<attached, ready, interactive, accepted>>
vars        == <<gateVars, request, sessionVars>>

NoRequest == [cmd |-> "none", session |-> 0]

Init ==
    /\ phase = ArtifactValidation
    /\ owner = "boot"
    /\ slices = 0
    /\ pregame = FALSE
    /\ request = NoRequest
    /\ attached = 0
    /\ ready = [s \in Session |-> {}]
    /\ interactive = {}
    /\ accepted = {}

(* StartupGate::advance: a regression is refused, the same phase is fine.  *)
(* The owner goes on at next; a refusal ends the process (the callers      *)
(* expect or report it).                                                   *)
Commit(target, next) ==
    IF target < phase
    THEN owner' = "refused" /\ UNCHANGED phase
    ELSE owner' = next /\ phase' = target

-----------------------------------------------------------------------------
(* The owner thread.  A source boot commits the first phases in order, the *)
(* later ones again whenever a subsystem starts.                           *)
BootCommit(p) ==
    /\ owner = "boot"
    /\ p \in StructuralLoad .. Lifecycle
    /\ p \in {phase, phase + 1}
    /\ Commit(p, "boot")
    /\ UNCHANGED <<slices, pregame, request, sessionVars>>

(* Initialization code may already bring the ticker to pregame. *)
BootRunsLifecycle ==
    /\ owner = "boot"
    /\ phase \in {ArtifactValidation, Lifecycle}
    /\ pregame' = TRUE
    /\ UNCHANGED <<phase, owner, slices, request, sessionVars>>

(* run_persistent_server_loop is entered from a source boot at Lifecycle   *)
(* and from a standalone boot that committed no phase.                     *)
BootDone ==
    /\ owner = "boot"
    /\ phase \in {ArtifactValidation, Lifecycle}
    /\ owner' = "activate"
    /\ UNCHANGED <<phase, slices, pregame, request, sessionVars>>

(* Boot, the activation scheduler or the persistent scheduler fails. *)
OwnerFails ==
    /\ owner \in {"boot", "advance", "run"}
    /\ owner' = "exited"
    /\ UNCHANGED <<phase, slices, pregame, request, sessionVars>>

(* activate_lobby_generation: nothing to do ...                            *)
ActivateReady ==
    /\ owner = "activate"
    /\ pregame
    /\ owner' = "ready"
    /\ UNCHANGED <<phase, slices, pregame, request, sessionVars>>

(* ... or open the read-only lobby (commit Lifecycle, show_startup_lobby). *)
ActivateLifecycle ==
    /\ owner = "activate"
    /\ ~pregame
    /\ Commit(Lifecycle, "lobby")
    /\ UNCHANGED <<slices, pregame, request, sessionVars>>

ActivateLobby ==
    /\ owner = "lobby"
    /\ Commit(RuntimeStartedReadOnly, "grace")
    /\ UNCHANGED <<slices, pregame, request, sessionVars>>

(* A tick boundary ends when try_recv finds the channel empty.  The attach *)
(* grace period is a number of boundaries; each activation slice is a      *)
(* boundary, a check, one scheduler tick, a boundary and a check.          *)
GraceEnds ==
    /\ owner = "grace"
    /\ request = NoRequest
    /\ owner' = "before"
    /\ UNCHANGED <<phase, slices, pregame, request, sessionVars>>

SliceBefore ==
    /\ owner = "before"
    /\ request = NoRequest
    /\ owner' = IF pregame THEN "ready" ELSE "advance"
    /\ UNCHANGED <<phase, slices, pregame, request, sessionVars>>

SliceAdvance ==
    /\ owner = "advance"
    /\ owner' = "after"
    /\ pregame' \in {pregame, TRUE}
    /\ UNCHANGED <<phase, slices, request, sessionVars>>

SliceAfter ==
    /\ owner = "after"
    /\ request = NoRequest
    /\ slices' = slices + 1
    /\ owner' = IF pregame THEN "ready"
                ELSE IF slices + 1 < MaxSlices THEN "before" ELSE "exited"
    /\ UNCHANGED <<phase, pregame, request, sessionVars>>

(* Mutant: the activated lobby is committed under the phase before. *)
CommitReadOnlyStale ==
    /\ owner = "ready"
    /\ Commit(Lifecycle, "accept")
    /\ UNCHANGED <<slices, pregame, request, sessionVars>>

(* run_persistent_server_loop after the activation: the two commits ... *)
CommitReadOnly ==
    /\ owner = "ready"
    /\ Commit(RuntimeStartedReadOnly, "accept")
    /\ UNCHANGED <<slices, pregame, request, sessionVars>>

AcceptClients ==
    /\ owner = "accept"
    /\ Commit(Interactive, "enable")
    /\ UNCHANGED <<slices, pregame, request, sessionVars>>

FullyReady == {s \in Session : ready[s] = Readiness}

(* Mutant: the sessions of the lobby are not visited. *)
EnableNobody ==
    /\ owner = "enable"
    /\ owner' = "boundary"
    /\ UNCHANGED <<phase, slices, pregame, request, sessionVars>>

(* ... enable_session_interaction for the clients of the lobby ... *)
EnableSessions ==
    /\ owner = "enable"
    /\ interactive' = interactive \cup FullyReady
    /\ owner' = "boundary"
    /\ UNCHANGED <<phase, slices, pregame, request, attached, ready, accepted>>

(* ... and the loop: a boundary, one scheduler tick, a boundary. *)
BoundaryEnds ==
    /\ owner = "boundary"
    /\ request = NoRequest
    /\ owner' = "run"
    /\ UNCHANGED <<phase, slices, pregame, request, sessionVars>>

RunTick ==
    /\ owner = "run"
    /\ owner' = "boundary"
    /\ UNCHANGED <<phase, slices, pregame, request, sessionVars>>

(* Mutant: the persistent loop does not apply requests. *)
AtLobbyBoundary == owner \in {"grace", "before", "after"}

(* Where the owner thread is inside apply_lifecycle_tick_boundary. *)
AtBoundary == owner \in {"grace", "before", "after", "boundary"}

-----------------------------------------------------------------------------
(* Mutant: the gate opens when the lifecycle starts. *)
GateOpenEarly == phase >= Lifecycle

(* StartupGate::at_least(RuntimeStartedReadOnly), read by the serve thread. *)
GateOpen == phase >= RuntimeStartedReadOnly

(* The client attaches: try_connect, again after every reconnect.  With    *)
(* the gate closed the serve thread answers server-starting at once and    *)
(* nothing changes.                                                        *)
SendAttach ==
    /\ request = NoRequest
    /\ attached < MaxSessions
    /\ GateOpen
    /\ request' = [cmd |-> "attach", session |-> 0]
    /\ UNCHANGED <<gateVars, sessionVars>>

(* The client reports readiness or sends input on its session. *)
Send(cmd) ==
    /\ request = NoRequest
    /\ attached > 0
    /\ request' = [cmd |-> cmd, session |-> attached]
    /\ UNCHANGED <<gateVars, sessionVars>>

(* Command::Attach at a tick boundary of the lifecycle: the new client is  *)
(* not interactive.                                                        *)
HandleAttach ==
    /\ AtBoundary
    /\ request.cmd = "attach"
    /\ attached' = attached + 1
    /\ ready' = [ready EXCEPT ![attached + 1] = {}]
    /\ interactive' = interactive \ {attached + 1}
    /\ request' = NoRequest
    /\ UNCHANGED <<gateVars, accepted>>

(* connect_local_guest fails: the client gets an error and no session. *)
HandleAttachFails ==
    /\ AtBoundary
    /\ request.cmd = "attach"
    /\ request' = NoRequest
    /\ UNCHANGED <<gateVars, sessionVars>>

(* SessionReadiness::advance: skin, then resources, then input. *)
Required(r) == CASE r = "skin"      -> {}
                 [] r = "resources" -> {"skin"}
                 [] r = "input"     -> {"skin", "resources"}

(* Mutant: readiness makes the client interactive without the gate. *)
HandleReadinessUngated ==
    /\ AtBoundary
    /\ request.cmd \in Readiness
    /\ LET s == request.session IN
       IF Required(request.cmd) \subseteq ready[s]
       THEN /\ ready' = [ready EXCEPT ![s] = @ \cup {request.cmd}]
            /\ interactive' = IF ready'[s] = Readiness
                              THEN interactive \cup {s} ELSE interactive
       ELSE UNCHANGED <<ready, interactive>>
    /\ request' = NoRequest
    /\ UNCHANGED <<gateVars, attached, accepted>>

(* advance_readiness: the last report makes the client interactive, unless *)
(* the gate is not there yet; then EnableSessions does it.                 *)
HandleReadiness ==
    /\ AtBoundary
    /\ request.cmd \in Readiness
    /\ LET s == request.session IN
       IF Required(request.cmd) \subseteq ready[s]
       THEN /\ ready' = [ready EXCEPT ![s] = @ \cup {request.cmd}]
            /\ interactive' = IF ready'[s] = Readiness /\ phase >= Interactive
                              THEN interactive \cup {s} ELSE interactive
       ELSE UNCHANGED <<ready, interactive>>
    /\ request' = NoRequest
    /\ UNCHANGED <<gateVars, attached, accepted>>

(* apply_lifecycle_tick_boundary queues the pointer, command or movement   *)
(* for the client of the session; it looks at neither the gate nor the     *)
(* interactive set.                                                        *)
HandleInput ==
    /\ AtBoundary
    /\ request.cmd \in Input
    /\ accepted' = accepted \cup {phase}
    /\ request' = NoRequest
    /\ UNCHANGED <<gateVars, attached, ready, interactive>>

OwnerNext ==
    \/ \E p \in StructuralLoad .. Lifecycle : BootCommit(p)
    \/ BootRunsLifecycle \/ BootDone \/ OwnerFails
    \/ ActivateReady \/ ActivateLifecycle \/ ActivateLobby
    \/ GraceEnds \/ SliceBefore \/ SliceAdvance \/ SliceAfter
    \/ CommitReadOnly \/ AcceptClients \/ EnableSessions
    \/ BoundaryEnds \/ RunTick
    \/ HandleAttach \/ HandleAttachFails \/ HandleReadiness \/ HandleInput

ClientNext == SendAttach \/ \E cmd \in Readiness \cup Input : Send(cmd)

Next == OwnerNext \/ ClientNext

Spec == Init /\ [][Next]_vars

(* What the owner thread does once it runs, without the choices it does    *)
(* not make itself.                                                        *)
OwnerStep ==
    \/ BootDone
    \/ ActivateReady \/ ActivateLifecycle \/ ActivateLobby
    \/ GraceEnds \/ SliceBefore \/ SliceAdvance \/ SliceAfter
    \/ CommitReadOnly \/ AcceptClients \/ EnableSessions
    \/ BoundaryEnds \/ RunTick

(* The owner thread keeps running and handles what it finds in the channel. *)
(* Fairness is strong for its own steps: it looks at the channel right      *)
(* after it answered, while the client that could fill it again is still    *)
(* waiting for that answer to cross the connection.                         *)
FairSpec ==
    /\ Spec
    /\ SF_vars(OwnerStep)
    /\ WF_vars(HandleAttach \/ HandleAttachFails)
    /\ WF_vars(HandleReadiness)
    /\ WF_vars(HandleInput)

-----------------------------------------------------------------------------
Owner == {"boot", "activate", "lobby", "grace", "before", "advance", "after",
          "ready", "accept", "enable", "boundary", "run", "exited", "refused"}

(* Type correctness of the gate and of the sessions. *)
TypeOK ==
    /\ phase \in ArtifactValidation .. Interactive
    /\ owner \in Owner
    /\ slices \in 0 .. MaxSlices
    /\ pregame \in BOOLEAN
    /\ request \in {NoRequest}
                   \cup [cmd : {"attach"}, session : {0}]
                   \cup [cmd : Readiness \cup Input, session : Session]
    /\ attached \in 0 .. MaxSessions
    /\ ready \in [Session -> SUBSET Readiness]
    /\ interactive \subseteq Session
    /\ accepted \subseteq ArtifactValidation .. Interactive

(* "Early attach attempts receive the current phase instead of blocking    *)
(* the native client event loop on a scheduler boundary that does not yet  *)
(* exist": while the owner boots or decides about the lobby, no request    *)
(* waits in the channel and no session exists.                             *)
NobodyWaitsForBoot ==
    owner \in {"boot", "activate", "lobby"} =>
        request = NoRequest /\ attached = 0

(* The boot sequence never asks the gate for a phase it has passed, on     *)
(* whatever path it reached the persistent loop: the expect calls of the   *)
(* commits do not fire.                                                    *)
NeverRefused == owner # "refused"

(* A client is interactive only after all three readiness reports and      *)
(* after the gate opened for interaction.                                  *)
InteractiveIsEarned ==
    interactive # {} => phase = Interactive /\ interactive \subseteq FullyReady

(* No lost wakeup between the readiness reports and the opening of the     *)
(* gate: in the persistent loop every fully ready client is interactive,   *)
(* whether its last report came before, during or after the activation.    *)
ReadyIsInteractive ==
    owner \in {"boundary", "run"} => FullyReady \subseteq interactive

(* What the position of the owner thread says about the gate and about the  *)
(* slices used: the part of the inductive invariant that no property above  *)
(* states.                                                                  *)
OwnerKnowsPhase ==
    /\ owner \in {"boot", "activate"} => phase <= Lifecycle
    /\ owner = "lobby" => phase = Lifecycle
    /\ owner \in {"grace", "before", "advance", "after", "accept"} =>
           phase = RuntimeStartedReadOnly
    /\ owner = "ready" => phase <= RuntimeStartedReadOnly
    /\ owner \in {"enable", "boundary", "run"} => phase = Interactive
    /\ owner \in {"boot", "activate", "lobby", "grace"} => slices = 0
    /\ owner \in {"before", "advance", "after"} => slices < MaxSlices

(* Nobody is in the channel or attached before the lobby is open. *)
ClientsAfterLobby ==
    request # NoRequest \/ attached > 0 => phase >= RuntimeStartedReadOnly

(* Every request the serve thread has put in the channel is answered,      *)
(* unless the server ends.                                                 *)
EveryRequestAnswered ==
    request # NoRequest ~> (request = NoRequest \/ owner = "exited")

(* A client that attached to the read-only lobby and is ready becomes      *)
(* interactive, unless the server ends.                                    *)
LobbyClientsEnabled ==
    \A s \in Session :
        s \in FullyReady ~> (s \in interactive \/ owner = "exited")

(* Not an invariant: apply_lifecycle_tick_boundary looks at neither the    *)
(* gate nor the interactive set, so input is accepted in the read-only     *)
(* lobby too (README, section 5).                                          *)
InputIsGated == accepted \subseteq {Interactive}

=============================================================================
