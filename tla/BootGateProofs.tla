--------------------------- MODULE BootGateProofs ---------------------------
(* Proofs about the boot phases and the startup gate, for any number of     *)
(* sessions and activation slices.                                          *)
EXTENDS BootGate, TLAPS

USE BootAssumption DEF ArtifactValidation, StructuralLoad, WorldPlan,
    WorldAllocation, Lifecycle, RuntimeStartedReadOnly, Interactive

(* An attach is in the channel only while another session fits the model.   *)
AttachHasRoom == request.cmd = "attach" => attached < MaxSessions

(* The inductive invariant.                                                 *)
BootInv ==
    /\ TypeOK
    /\ OwnerKnowsPhase
    /\ ClientsAfterLobby
    /\ AttachHasRoom
    /\ NeverRefused
    /\ InteractiveIsEarned
    /\ ReadyIsInteractive

LEMMA BootInitInv == Init => BootInv
<1> SUFFICES ASSUME Init PROVE BootInv
  OBVIOUS
<1>1. TypeOK
  <2>1. pregame \in BOOLEAN
    BY Zenon DEF Init
  <2>2. phase \in 0 .. 6 /\ slices \in 0 .. MaxSlices /\ attached \in 0 .. MaxSessions
    BY DEF Init
  <2>3. owner \in Owner
    BY DEF Init, Owner
  <2>4. ready \in [Session -> SUBSET Readiness]
    BY DEF Init
  <2>5. interactive \subseteq Session /\ accepted \subseteq 0 .. 6
    BY DEF Init
  <2>6. request = NoRequest
    BY DEF Init
  <2> QED
    BY <2>1, <2>2, <2>3, <2>4, <2>5, <2>6 DEF TypeOK
<1>2. OwnerKnowsPhase /\ NeverRefused
  BY DEF Init, OwnerKnowsPhase, NeverRefused
<1>3. ClientsAfterLobby
  BY DEF Init, ClientsAfterLobby
<1>4. AttachHasRoom
  BY DEF Init, AttachHasRoom, NoRequest
<1>5. InteractiveIsEarned
  BY DEF Init, InteractiveIsEarned
<1>6. ReadyIsInteractive
  BY DEF Init, ReadyIsInteractive
<1> QED
  BY <1>1, <1>2, <1>3, <1>4, <1>5, <1>6 DEF BootInv

(* A step of the owner thread that touches neither the channel nor the      *)
(* sessions keeps the invariant when the gate does not regress and the      *)
(* owner's new position fits the gate.                                      *)
LEMMA OwnerMove ==
    ASSUME BootInv, UNCHANGED <<request, sessionVars>>,
           phase' \in 0 .. 6, phase' >= phase,
           slices' \in 0 .. MaxSlices, pregame' \in BOOLEAN,
           owner' \in Owner, owner' # "refused",
           OwnerKnowsPhase',
           owner' \in {"boundary", "run"} => owner \in {"boundary", "run"}
    PROVE  BootInv'
<1>1. TypeOK'
  BY DEF BootInv, TypeOK, sessionVars
<1>2. ClientsAfterLobby'
  BY DEF BootInv, TypeOK, ClientsAfterLobby, sessionVars
<1>3. NeverRefused'
  BY DEF NeverRefused
<1>4. InteractiveIsEarned'
  BY DEF BootInv, TypeOK, InteractiveIsEarned, FullyReady, sessionVars
<1>5. ReadyIsInteractive'
  BY DEF BootInv, ReadyIsInteractive, FullyReady, sessionVars
<1>6. AttachHasRoom'
  BY DEF BootInv, AttachHasRoom, sessionVars
<1> QED
  BY <1>1, <1>2, <1>3, <1>4, <1>5, <1>6 DEF BootInv

(* The boot sequence, the activation and the persistent loop.               *)
LEMMA OwnerStepsInv ==
    ASSUME BootInv,
           \/ \E p \in StructuralLoad .. Lifecycle : BootCommit(p)
           \/ BootRunsLifecycle \/ BootDone \/ OwnerFails
           \/ ActivateReady \/ ActivateLifecycle \/ ActivateLobby
           \/ GraceEnds \/ SliceBefore \/ SliceAdvance \/ SliceAfter
           \/ CommitReadOnly \/ AcceptClients
           \/ BoundaryEnds \/ RunTick
    PROVE  BootInv'
<1> USE DEF OwnerKnowsPhase, Owner
<1>t. /\ phase \in 0 .. 6 /\ slices \in 0 .. MaxSlices /\ pregame \in BOOLEAN
      /\ OwnerKnowsPhase
  BY DEF BootInv, TypeOK
<1>1. CASE \E p \in StructuralLoad .. Lifecycle : BootCommit(p)
  BY <1>t, <1>1, OwnerMove DEF BootCommit, Commit
<1>2. CASE BootRunsLifecycle
  BY <1>t, <1>2, OwnerMove DEF BootRunsLifecycle
<1>3. CASE BootDone
  BY <1>t, <1>3, OwnerMove DEF BootDone
<1>4. CASE OwnerFails
  BY <1>t, <1>4, OwnerMove DEF OwnerFails
<1>5. CASE ActivateReady
  BY <1>t, <1>5, OwnerMove DEF ActivateReady
<1>6. CASE ActivateLifecycle
  BY <1>t, <1>6, OwnerMove DEF ActivateLifecycle, Commit
<1>7. CASE ActivateLobby
  BY <1>t, <1>7, OwnerMove DEF ActivateLobby, Commit
<1>8. CASE GraceEnds
  BY <1>t, <1>8, OwnerMove DEF GraceEnds
<1>9. CASE SliceBefore
  BY <1>t, <1>9, OwnerMove DEF SliceBefore
<1>10. CASE SliceAdvance
  <2>1. pregame' \in BOOLEAN
    <3>1. pregame \in BOOLEAN /\ pregame' \in {pregame, TRUE}
      BY <1>t, <1>10 DEF SliceAdvance
    <3> QED
      BY <3>1, Zenon
  <2> QED
    BY <1>t, <1>10, <2>1, OwnerMove DEF SliceAdvance
<1>11. CASE SliceAfter
  BY <1>t, <1>11, OwnerMove DEF SliceAfter
<1>12. CASE CommitReadOnly
  BY <1>t, <1>12, OwnerMove DEF CommitReadOnly, Commit
<1>13. CASE AcceptClients
  BY <1>t, <1>13, OwnerMove DEF AcceptClients, Commit
<1>14. CASE BoundaryEnds
  BY <1>t, <1>14, OwnerMove DEF BoundaryEnds
<1>15. CASE RunTick
  BY <1>t, <1>15, OwnerMove DEF RunTick
<1> QED
  BY <1>1, <1>2, <1>3, <1>4, <1>5, <1>6, <1>7, <1>8, <1>9, <1>10, <1>11, <1>12, <1>13, <1>14, <1>15

(* The lobby's clients are visited after the gate is interactive, so the    *)
(* persistent loop starts with every fully ready client enabled.            *)
LEMMA EnableSessionsInv == BootInv /\ EnableSessions => BootInv'
<1> SUFFICES ASSUME BootInv, EnableSessions PROVE BootInv'
  OBVIOUS
<1>t. TypeOK /\ OwnerKnowsPhase
  BY DEF BootInv
<1>f. FullyReady' = FullyReady /\ FullyReady \subseteq Session
  BY DEF EnableSessions, FullyReady
<1>1. TypeOK'
  BY <1>t, <1>f DEF EnableSessions, TypeOK, Owner
<1>2. OwnerKnowsPhase' /\ NeverRefused'
  BY <1>t DEF EnableSessions, OwnerKnowsPhase, NeverRefused
<1>3. ClientsAfterLobby' /\ AttachHasRoom'
  BY DEF BootInv, EnableSessions, ClientsAfterLobby, AttachHasRoom
<1>4. InteractiveIsEarned'
  BY <1>t, <1>f DEF BootInv, EnableSessions, InteractiveIsEarned,
     OwnerKnowsPhase
<1>5. ReadyIsInteractive'
  BY <1>f DEF EnableSessions, ReadyIsInteractive
<1> QED
  BY <1>1, <1>2, <1>3, <1>4, <1>5 DEF BootInv

(* A new session has reported nothing and is not interactive.               *)
LEMMA HandleAttachInv == BootInv /\ HandleAttach => BootInv'
<1> SUFFICES ASSUME BootInv, HandleAttach PROVE BootInv'
  OBVIOUS
<1>t. TypeOK /\ OwnerKnowsPhase /\ NeverRefused
  BY DEF BootInv
<1>s. attached + 1 \in Session /\ attached \in Nat
  BY DEF BootInv, HandleAttach, AttachHasRoom, TypeOK, Session
<1>g. phase >= RuntimeStartedReadOnly
  BY DEF BootInv, HandleAttach, ClientsAfterLobby, NoRequest
<1>r. /\ ready'[attached + 1] = {}
      /\ \A s \in Session \ {attached + 1} : ready'[s] = ready[s]
  BY <1>t, <1>s DEF HandleAttach, TypeOK
<1>f. FullyReady' = FullyReady \ {attached + 1}
  BY <1>s, <1>r DEF FullyReady, Readiness
<1>1. TypeOK'
  BY <1>t, <1>s DEF HandleAttach, TypeOK, Session, gateVars
<1>2. OwnerKnowsPhase' /\ NeverRefused'
  BY <1>t DEF HandleAttach, OwnerKnowsPhase, NeverRefused, gateVars
<1>3. ClientsAfterLobby' /\ AttachHasRoom'
  BY <1>g DEF HandleAttach, ClientsAfterLobby, AttachHasRoom, NoRequest, gateVars
<1>4. InteractiveIsEarned'
  BY <1>f DEF BootInv, HandleAttach, InteractiveIsEarned, gateVars
<1>5. ReadyIsInteractive'
  BY <1>f DEF BootInv, HandleAttach, ReadyIsInteractive, gateVars
<1> QED
  BY <1>1, <1>2, <1>3, <1>4, <1>5 DEF BootInv

(* A step that leaves the gate and the sessions alone and puts a well-typed *)
(* request in the channel, or empties it.                                   *)
LEMMA ChannelMove ==
    ASSUME BootInv, UNCHANGED <<gateVars, attached, ready, interactive>>,
           accepted' \subseteq 0 .. 6,
           \/ request' = NoRequest
           \/ /\ request' \in [cmd : {"attach"}, session : {0}]
              /\ attached < MaxSessions
              /\ phase >= RuntimeStartedReadOnly
           \/ /\ request' \in [cmd : Readiness \cup Input, session : Session]
              /\ attached > 0
           \/ request' = request
    PROVE  BootInv'
<1>t. TypeOK /\ OwnerKnowsPhase /\ NeverRefused
  BY DEF BootInv
<1>1. TypeOK'
  BY <1>t DEF TypeOK, gateVars
<1>2. OwnerKnowsPhase' /\ NeverRefused'
  BY <1>t DEF OwnerKnowsPhase, NeverRefused, gateVars
<1>3. ClientsAfterLobby'
  BY DEF BootInv, ClientsAfterLobby, gateVars
<1>4. AttachHasRoom'
  BY DEF BootInv, AttachHasRoom, NoRequest, Readiness, Input
<1>5. InteractiveIsEarned' /\ ReadyIsInteractive'
  BY DEF BootInv, InteractiveIsEarned, ReadyIsInteractive, FullyReady, gateVars
<1> QED
  BY <1>1, <1>2, <1>3, <1>4, <1>5 DEF BootInv

(* A readiness report makes its session interactive exactly when it is the  *)
(* last one and the gate is interactive.                                    *)
LEMMA HandleReadinessInv == BootInv /\ HandleReadiness => BootInv'
<1> SUFFICES ASSUME BootInv, HandleReadiness PROVE BootInv'
  OBVIOUS
<1> DEFINE s == request.session
<1>t. TypeOK /\ OwnerKnowsPhase /\ NeverRefused
  BY DEF BootInv
<1>s. s \in Session
  BY <1>t DEF HandleReadiness, TypeOK, Readiness, NoRequest
<1>g. phase >= RuntimeStartedReadOnly
  BY DEF BootInv, HandleReadiness, ClientsAfterLobby, NoRequest, Readiness
<1>1. CASE ~ Required(request.cmd) \subseteq ready[s]
  <2>1. UNCHANGED <<gateVars, attached, ready, interactive, accepted>>
        /\ request' = NoRequest
    BY <1>1 DEF HandleReadiness
  <2>2. accepted' \subseteq 0 .. 6
    BY <1>t, <2>1 DEF TypeOK
  <2> QED
    BY <2>1, <2>2, ChannelMove
<1>2. CASE Required(request.cmd) \subseteq ready[s]
  <2>a. /\ ready' = [ready EXCEPT ![s] = @ \cup {request.cmd}]
        /\ interactive' = IF ready'[s] = Readiness /\ phase >= Interactive
                          THEN interactive \cup {s} ELSE interactive
        /\ request.cmd \in Readiness
        /\ request' = NoRequest
        /\ UNCHANGED <<gateVars, attached, accepted>>
    BY <1>2 DEF HandleReadiness
  <2>b. /\ ready' \in [Session -> SUBSET Readiness]
        /\ \A q \in Session \ {s} : ready'[q] = ready[q]
        /\ ready[s] \subseteq ready'[s]
    BY <1>t, <1>s, <2>a DEF TypeOK
  <2>c. FullyReady \subseteq FullyReady' /\ FullyReady' \subseteq FullyReady \cup {s}
    <3>1. ready[s] = Readiness => ready'[s] = Readiness
      <4>1. ready'[s] \subseteq Readiness
        BY <1>s, <2>b
      <4> QED
        BY <2>b, <4>1
    <3> QED
      BY <1>s, <2>b, <3>1 DEF FullyReady
  <2>d. s \in FullyReady' <=> ready'[s] = Readiness
    BY <1>s DEF FullyReady
  <2> HIDE DEF s
  <2>1. TypeOK'
    BY <1>t, <1>s, <2>a, <2>b DEF TypeOK, gateVars
  <2>2. OwnerKnowsPhase' /\ NeverRefused'
    BY <1>t, <2>a DEF OwnerKnowsPhase, NeverRefused, gateVars
  <2>3. ClientsAfterLobby' /\ AttachHasRoom'
    BY <1>g, <2>a DEF ClientsAfterLobby, AttachHasRoom, NoRequest, gateVars
  <2>4. InteractiveIsEarned'
    <3>1. CASE ready'[s] = Readiness /\ phase >= Interactive
      BY <1>t, <2>a, <2>c, <2>d, <3>1
         DEF BootInv, InteractiveIsEarned, TypeOK, gateVars
    <3>2. CASE ~ (ready'[s] = Readiness /\ phase >= Interactive)
      BY <2>a, <2>c, <3>2 DEF BootInv, InteractiveIsEarned, gateVars
    <3> QED
      BY <3>1, <3>2
  <2>5. ReadyIsInteractive'
    <3> SUFFICES ASSUME owner \in {"boundary", "run"}
                 PROVE  FullyReady' \subseteq interactive'
      BY <2>a DEF ReadyIsInteractive, gateVars
    <3>1. phase >= Interactive /\ FullyReady \subseteq interactive
      BY <1>t DEF BootInv, OwnerKnowsPhase, ReadyIsInteractive
    <3> QED
      BY <2>a, <2>c, <2>d, <3>1
  <2> QED
    BY <2>1, <2>2, <2>3, <2>4, <2>5 DEF BootInv
<1> QED
  BY <1>1, <1>2

(* Every step of the owner thread and of the client.                        *)
LEMMA BootNextInv == BootInv /\ [Next]_vars => BootInv'
<1> SUFFICES ASSUME BootInv, [Next]_vars PROVE BootInv'
  OBVIOUS
<1>t. /\ accepted \subseteq 0 .. 6 /\ phase \in 0 .. 6
      /\ attached \in 0 .. MaxSessions
  BY DEF BootInv, TypeOK
<1>1. CASE EnableSessions
  BY <1>1, EnableSessionsInv
<1>2. CASE HandleAttach
  BY <1>2, HandleAttachInv
<1>3. CASE HandleReadiness
  BY <1>3, HandleReadinessInv
<1>4. CASE HandleAttachFails
  BY <1>t, <1>4, ChannelMove DEF HandleAttachFails, sessionVars
<1>5. CASE HandleInput
  BY <1>t, <1>5, ChannelMove DEF HandleInput
<1>6. CASE SendAttach
  BY <1>t, <1>6, ChannelMove DEF SendAttach, GateOpen, sessionVars
<1>7. CASE \E cmd \in Readiness \cup Input : Send(cmd)
  <2>1. attached > 0 /\ attached \in Session
    BY <1>t, <1>7 DEF Send, Session
  <2> QED
    BY <1>t, <1>7, <2>1, ChannelMove DEF Send, sessionVars
<1>8. CASE UNCHANGED vars
  BY <1>t, <1>8, ChannelMove DEF vars, sessionVars
<1> QED
  BY <1>1, <1>2, <1>3, <1>4, <1>5, <1>6, <1>7, <1>8, OwnerStepsInv
     DEF Next, OwnerNext, ClientNext

(* The inductive invariant holds in every reachable state.                  *)
THEOREM BootInvariant == Spec => []BootInv
<1>1. Init => BootInv
  BY BootInitInv
<1>2. BootInv /\ [Next]_vars => BootInv'
  BY BootNextInv
<1> QED
  BY <1>1, <1>2, PTL DEF Spec

(* The gate, the channel and the sessions are well typed.                   *)
THEOREM BootTypeCorrect == Spec => []TypeOK
<1>1. BootInv => TypeOK
  BY DEF BootInv
<1> QED
  BY <1>1, BootInvariant, PTL

(* No client ever waits on a boundary of a server that is still booting:    *)
(* the serve thread answers an early attach itself.                         *)
THEOREM BootNobodyWaits == Spec => []NobodyWaitsForBoot
<1>1. BootInv => NobodyWaitsForBoot
  BY DEF BootInv, TypeOK, OwnerKnowsPhase, ClientsAfterLobby, NobodyWaitsForBoot
<1> QED
  BY <1>1, BootInvariant, PTL

(* No commit of the boot sequence, the activation or the persistent loop is *)
(* refused by StartupGate::advance.                                         *)
THEOREM BootNeverRefused == Spec => []NeverRefused
<1>1. BootInv => NeverRefused
  BY DEF BootInv
<1> QED
  BY <1>1, BootInvariant, PTL

(* An interactive client has reported everything, behind an open gate.      *)
THEOREM BootInteractiveEarned == Spec => []InteractiveIsEarned
<1>1. BootInv => InteractiveIsEarned
  BY DEF BootInv
<1> QED
  BY <1>1, BootInvariant, PTL

(* No lost wakeup between advance_readiness and enable_session_interaction. *)
THEOREM BootReadyInteractive == Spec => []ReadyIsInteractive
<1>1. BootInv => ReadyIsInteractive
  BY DEF BootInv
<1> QED
  BY <1>1, BootInvariant, PTL

=============================================================================
