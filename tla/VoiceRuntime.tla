---------------------------- MODULE VoiceRuntime ----------------------------
(***************************************************************************)
(* The state of VoiceRuntime (voice_session.rs:221-367), shared by the     *)
(* methods that change it (module VoiceSession) and the tasks that call    *)
(* them (module VoiceCall), and what is promised of it whoever calls.      *)
(***************************************************************************)
EXTENDS Naturals

VARIABLES
  epoch, phase, participants, processing_mode, control,   \* RuntimeState
  media,             \* media_epoch: the epoch whose gate is open, or 0
  generation,        \* start_generation: moves with every start and every stop
  pending,           \* pending_start_generation, or 0
  draining,          \* begin_draining ran, or the service stopped
  mode,              \* selected_mode
  attested,          \* members attested for this epoch
  current, retired,  \* DiscordSessions
  agreed, saved, available   \* the consent ledger as coverage sees it

inner == <<epoch, phase, participants, processing_mode, control>>
starts == <<generation, pending>>
sessions == <<attested, current, retired>>
consent == <<agreed, saved, available>>
session_vars == <<inner, media, starts, draining, mode, sessions, consent>>

Audio == {"listening", "thinking", "speaking"}
Live == Audio \cup {"connecting"}
Idle == {"disconnected", "presence_only", "failed"}   \* accepts_backend_change
Phases == Live \cup Idle \cup {"awaiting_consent"}

-----------------------------------------------------------------------------
(* Properties *)

\* While the media gate is open, it is the gate of the current epoch, that epoch is
\* in audio, the service accepts work, and everybody whose voice the epoch may hear
\* still agrees: no withdrawal, stop or replacement leaves the gate open.
ConsentGate ==
  media # 0 =>
    /\ media = epoch /\ phase \in Audio /\ ~draining
    /\ attested = participants /\ participants \subseteq agreed

\* The mode members were told of is the mode in force while they are heard
\* (activation.rs:116-122).
DisclosedMode == media # 0 => processing_mode = mode /\ mode = "local"

\* The actor that can be cancelled is the actor of the current epoch: no stop
\* leaves an actor installed that a later stop would not reach.
ControlIsCurrent == control # 0 => control = epoch /\ phase \in Live

\* Once an epoch has left Connecting its gate only closes: a revoked call is never
\* heard again, whatever start is pending or reserved afterwards.
RevokedStaysRevoked ==
  [][(phase \in Audio /\ epoch' = epoch) => media' \in {media, 0}]_session_vars

\* A stop outlives every start reserved before it: a pending start is the newest
\* change of the generation, so a start that a stop overtook is never pending again.
PendingIsNewest == pending # 0 => pending = generation /\ ~draining
=============================================================================
