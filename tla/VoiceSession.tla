---------------------------- MODULE VoiceSession ----------------------------
(***************************************************************************)
(* VoiceRuntime (voice_session.rs, voice_session/activation.rs,            *)
(* voice_session/ownership.rs): the state of one guild's voice call that   *)
(* every command, gateway handler, audio callback and actor shares.  Each  *)
(* method changes it in one critical section of activation_gate, so each   *)
(* method is one action.  Next lets any caller call any method at any time *)
(* with any argument, up to the conventions stated beside it; module       *)
(* VoiceCall has the callers of the code, and is shown to keep them.       *)
(*                                                                         *)
(* epoch stands for inner.epoch and current_epoch, and for attested_epoch  *)
(* and the epoch of the bound session: all four move in one section.       *)
(***************************************************************************)
EXTENDS Naturals, Sequences, FiniteSets, VoiceRuntime

CONSTANTS
  Users,          \* members who can be in the voice channel
  Sessions,       \* Discord's ids of the bot's own voice sessions
  NoSession,      \* no session is bound
  RetiredKept,    \* RETIRED_DISCORD_SESSIONS
  MaxEpoch,       \* bound on epochs
  MaxGeneration   \* bound on start generations

ASSUME SessionAssumption ==
  /\ NoSession \notin Sessions
  /\ RetiredKept \in Nat \ {0}
  /\ MaxEpoch \in Nat /\ MaxGeneration \in Nat

Modes == {"local", "disabled"}
Members == SUBSET Users

Init ==
  /\ epoch = 0 /\ phase = "disconnected" /\ participants = {}
  /\ processing_mode \in Modes /\ mode = processing_mode /\ control = 0
  /\ media = 0 /\ generation = 0 /\ pending = 0 /\ draining = FALSE
  /\ attested = {} /\ current = NoSession /\ retired = <<>>
  /\ agreed \in Members /\ saved = TRUE /\ available = TRUE

-----------------------------------------------------------------------------
(* Reads *)

StartIsCurrent(g) == ~draining /\ g # 0 /\ generation = g /\ pending = g
IsCurrent(e) == epoch = e
MediaEnabled(e) == ~draining /\ e # 0 /\ epoch = e /\ media = e

\* ConsentStore::coverage reports nobody missing.
Coverage(who, m) == m = "disabled" \/ (available /\ saved /\ who \subseteq agreed)

-----------------------------------------------------------------------------
(* What several methods do *)

\* The generation moves, no start is pending: every earlier start is cancelled.
CancelStarts ==
  generation < MaxGeneration /\ generation' = generation + 1 /\ pending' = 0

CloseMedia == media' = 0 /\ CancelStarts

\* The last RetiredKept distinct sessions.
Remembered(s) ==
  IF s = NoSession \/ \E i \in DOMAIN retired : retired[i] = s THEN retired
  ELSE IF Len(retired) < RetiredKept THEN Append(retired, s)
  ELSE Append(Tail(retired), s)

RetireCurrent == current' = NoSession /\ retired' = Remembered(current)

NextEpoch(p, who) ==
  /\ epoch < MaxEpoch /\ epoch' = epoch + 1
  /\ phase' = p
  /\ attested' = who

-----------------------------------------------------------------------------
(* Starting: activation.rs *)

\* reserve_start_if_unchanged, reserve_start_with_backend
Reserve(token) ==
  /\ ~draining /\ generation = token
  /\ generation < MaxGeneration
  /\ generation' = generation + 1 /\ pending' = generation + 1
  /\ UNCHANGED <<inner, media, draining, mode, sessions, consent>>

FinishStart(g) ==
  /\ pending = g /\ pending' = 0
  /\ UNCHANGED <<inner, media, generation, draining, mode, sessions, consent>>

Begin(who) ==
  /\ NextEpoch("connecting", who) /\ RetireCurrent
  /\ participants' = who /\ processing_mode' = mode
  /\ media' = 0
  /\ UNCHANGED <<control, starts, draining, mode, consent>>

BindDiscordSession(e, s) ==
  /\ IsCurrent(e) /\ phase = "connecting"
  /\ retired' = IF current = s THEN retired ELSE Remembered(current)
  /\ current' = s
  /\ UNCHANGED <<inner, media, starts, draining, mode, attested, consent>>

CanActivateAnyPhase(e, g) ==
  IsCurrent(e) /\ StartIsCurrent(g) /\ Coverage(participants, processing_mode)

CanActivate(e, g) ==
  /\ IsCurrent(e) /\ phase = "connecting" /\ StartIsCurrent(g)
  /\ Coverage(participants, processing_mode)

Activate(e, g) ==
  /\ CanActivate(e, g)
  /\ phase' = "listening" /\ pending' = 0 /\ media' = e
  /\ UNCHANGED <<epoch, participants, processing_mode, control, generation, draining,
                 mode, sessions, consent>>

InstallControl(e) ==
  /\ ~draining /\ IsCurrent(e)
  /\ control' = e
  /\ UNCHANGED <<epoch, phase, participants, processing_mode, media, starts, draining,
                 mode, sessions, consent>>

-----------------------------------------------------------------------------
(* Closing *)

\* cancel_pending_start
CancelPendingStart ==
  CloseMedia /\ UNCHANGED <<inner, draining, mode, sessions, consent>>

\* revoke_for_external_event is the same step; the epoch it returns is the caller's.
RevokeForExternalEvent == CancelPendingStart

RevokeMedia(e) ==
  /\ media = e /\ media' = 0
  /\ UNCHANGED <<inner, starts, draining, mode, sessions, consent>>

RevokeForUnattestedParticipant(u) ==
  /\ u \notin attested
  /\ CloseMedia /\ UNCHANGED <<inner, draining, mode, sessions, consent>>

\* An event of a session retired earlier changes nothing.
RevokeForDiscordSession(s) ==
  /\ s = current \/ \A i \in DOMAIN retired : retired[i] # s
  /\ CloseMedia /\ UNCHANGED <<inner, draining, mode, sessions, consent>>

RememberRetired(s) ==
  /\ retired' = Remembered(s)
  /\ UNCHANGED <<inner, media, starts, draining, mode, attested, current, consent>>

BeginDraining ==
  /\ draining' = TRUE /\ CloseMedia
  /\ UNCHANGED <<inner, mode, sessions, consent>>

\* begin_pause_epoch_for_consent
BeginPause(e, who) ==
  /\ IsCurrent(e)
  /\ NextEpoch("awaiting_consent", who) /\ RetireCurrent /\ CloseMedia
  /\ participants' = who /\ control' = 0
  /\ UNCHANGED <<processing_mode, draining, mode, consent>>

\* actor_failed (p = failed), actor_awaiting_consent
ActorStop(e, p) ==
  /\ IsCurrent(e)
  /\ NextEpoch(p, {}) /\ RetireCurrent /\ CloseMedia
  /\ control' = 0
  /\ UNCHANGED <<participants, processing_mode, draining, mode, consent>>

\* stop_to_inner; a replacement keeps the start that asked for it, presence binds
\* the session it joined with, a pause knows who must agree again.
StopTo(p, who) ==
  /\ NextEpoch(p, who) /\ media' = 0 /\ control' = 0
  /\ UNCHANGED <<processing_mode, draining, mode, consent>>

Disconnect ==
  StopTo("disconnected", {}) /\ RetireCurrent /\ CancelStarts /\ UNCHANGED participants
FailSafe ==
  StopTo("failed", {}) /\ RetireCurrent /\ CancelStarts /\ UNCHANGED participants
PauseForConsent(who) ==
  StopTo("awaiting_consent", who) /\ RetireCurrent /\ CancelStarts /\ participants' = who
DisconnectForReplace ==
  StopTo("disconnected", {}) /\ RetireCurrent /\ UNCHANGED <<starts, participants>>
SetPresence(s) ==
  /\ StopTo("presence_only", {}) /\ CancelStarts /\ UNCHANGED participants
  /\ current' = s
  /\ retired' = IF current = s THEN retired ELSE Remembered(current)
SetPresenceForStart(g, s) == StartIsCurrent(g) /\ SetPresence(s)
FailStart(g) == StartIsCurrent(g) /\ FailSafe

-----------------------------------------------------------------------------
(* Status, mode and consent *)

SetStatus(e, p) ==
  /\ IsCurrent(e) /\ phase' = p
  /\ UNCHANGED <<epoch, participants, processing_mode, control, media, starts, draining,
                 mode, sessions, consent>>

\* switch_effective_mode; seen is the phase its caller read before.
SwitchWhileStarting(m, seen) ==
  /\ media = 0 /\ seen \in Idle
  /\ mode' = m
  /\ UNCHANGED <<inner, media, starts, draining, sessions, consent>>

SwitchEffectiveMode(m, seen) ==
  /\ pending = 0 /\ media = 0 /\ seen \in Idle
  /\ mode' = m
  /\ UNCHANGED <<inner, media, starts, draining, sessions, consent>>

Recorded(u, choice) ==
  IF ~available THEN UNCHANGED consent
  ELSE /\ agreed' = IF choice = "agree" THEN agreed \cup {u} ELSE agreed \ {u}
       /\ saved' = FALSE /\ UNCHANGED available

\* Whether a choice that is the member's latest stops the call.
StopsWhenPresent(u, choice, stop_call) == choice = "withdraw" /\ stop_call
Stops(u, choice, stop_call) == choice = "withdraw" /\ (stop_call \/ u \in attested)

\* change_consent, for a choice that is the member's latest.
ChangeConsent(u, choice, stop_call) ==
  /\ Recorded(u, choice)
  /\ IF Stops(u, choice, stop_call) THEN CloseMedia ELSE UNCHANGED <<media, starts>>
  /\ UNCHANGED <<inner, draining, mode, sessions>>

\* The store's writer has made the ledger durable, or has failed and denies.
ConsentSaved ==
  /\ ~saved /\ available /\ saved' = TRUE
  /\ UNCHANGED <<inner, media, starts, draining, mode, sessions, agreed, available>>
ConsentPoisoned ==
  /\ ~saved /\ available /\ available' = FALSE
  /\ UNCHANGED <<inner, media, starts, draining, mode, sessions, agreed, saved>>

-----------------------------------------------------------------------------
(* Any caller, under the conventions the callers keep (module VoiceCall):   *)
(* a call begins when the old control is taken and gets its own while       *)
(* connecting, no caller activates a call prepared as no-audio presence,    *)
(* the actor reports a status only in audio, and the mode is not switched   *)
(* under a live call.                                                       *)

Generations == 0..MaxGeneration
Epochs == 0..MaxEpoch

Starting ==
  \/ \E g \in Generations : Reserve(g) \/ FinishStart(g)
  \/ control = 0 /\ \E who \in Members : Begin(who)
  \/ \E e \in Epochs, s \in Sessions : BindDiscordSession(e, s)
  \/ processing_mode = "local" /\ \E e \in Epochs, g \in Generations : Activate(e, g)
  \/ phase = "connecting" /\ \E e \in Epochs : InstallControl(e)

Closing ==
  \/ CancelPendingStart \/ BeginDraining
  \/ \E u \in Users : RevokeForUnattestedParticipant(u)
  \/ \E s \in Sessions : RevokeForDiscordSession(s) \/ RememberRetired(s)
  \/ \E e \in Epochs : \/ RevokeMedia(e)
                       \/ \E who \in Members : BeginPause(e, who)
                       \/ \E p \in {"failed", "awaiting_consent"} : ActorStop(e, p)

Stopping ==
  \/ Disconnect \/ FailSafe \/ DisconnectForReplace
  \/ \E who \in Members : PauseForConsent(who)
  \/ \E s \in Sessions : SetPresence(s)
  \/ \E g \in Generations : FailStart(g) \/ \E s \in Sessions : SetPresenceForStart(g, s)

Choosing ==
  \/ phase \in Audio /\ \E e \in Epochs, p \in Audio : SetStatus(e, p)
  \/ phase \notin Live /\ \E m \in Modes, seen \in Phases : SwitchEffectiveMode(m, seen)
  \/ \E u \in Users, c \in {"agree", "withdraw"}, stop \in BOOLEAN : ChangeConsent(u, c, stop)
  \/ ConsentSaved \/ ConsentPoisoned

Next == Starting \/ Closing \/ Stopping \/ Choosing

Spec == Init /\ [][Next]_session_vars

-----------------------------------------------------------------------------
(* Properties *)

\* Types of the runtime's state.
TypeOK ==
  /\ epoch \in Epochs /\ phase \in Phases /\ participants \in Members
  /\ processing_mode \in Modes /\ mode \in Modes /\ control \in Epochs
  /\ media \in Epochs /\ generation \in Generations /\ pending \in Generations
  /\ draining \in BOOLEAN /\ attested \in Members
  /\ current \in Sessions \cup {NoSession} /\ retired \in Seq(Sessions)
  /\ agreed \in Members /\ saved \in BOOLEAN /\ available \in BOOLEAN
=============================================================================
