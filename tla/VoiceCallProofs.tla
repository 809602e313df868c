--------------------------- MODULE VoiceCallProofs ---------------------------
(***************************************************************************)
(* What TLAPS proves of VoiceSession and VoiceCall for any members,        *)
(* attempts and bounds: the consent gate of the runtime, whoever calls its *)
(* methods; that the tasks keep the conventions of VoiceSession, so that   *)
(* this holds of every call; and the properties that relate the tasks, the *)
(* Discord call and the open gate.  Inv is inductive; there is a lemma per *)
(* group of actions that do the same to the runtime.                       *)
(***************************************************************************)
EXTENDS VoiceCall, TLAPS

\* Where a start stands: before and after its epoch began, and what it has done.
Cleared == {"clearing", "cleared", "beginning"}
Checked == {"bound", "spawning", "installed", "enabled", "activating"}
Joined == Checked \cup {"joined", "presence"}
Begun == Joined \cup {"joining"}
Held == Begun \cup Cleared \cup {"locked"}
Reserved == {"preparing", "locked", "clearing", "cleared"}
Before == {"idle", "upgrade", "requested"} \cup Reserved \cup {"beginning"}
Steps == Before \cup Begun \cup {"returning", "done"}

Starts ==
  [Attempts -> [at : Steps, gen : S!Generations, epoch : S!Epochs, roster : SUBSET Users,
                mode : S!Modes]]
Calls == [name : Attempts \cup {NoAttempt}, epoch : S!Epochs, deaf : BOOLEAN]
Pausers ==
  [kind : {"withdraw", "join", "bot", "permission", "receive"}, epoch : S!Epochs,
   user : Users \cup {NoAttempt}, at : {"begin", "finish", "teardown"},
   call : Attempts \cup {NoAttempt}]

Types ==
  /\ present \subseteq Users /\ joining \subseteq Users /\ call \in Calls
  /\ start \in Starts /\ pausers \subseteq Pausers
  /\ actors \in [S!Epochs -> {"none", "running", "heard", "failing", "withdrawing", "leaving", "gone"}]
  /\ leave \in [at : {"idle", "leaving", "left", "removing", "done"}, call : Attempts \cup {NoAttempt}]
  /\ switch \in S!Phases \cup {"idle"}
  /\ overtaken \subseteq Attempts /\ events \in [so_far : Nat, bound : Bounds]

\* Who holds the transition lock; under it the phase does not become live but by
\* its holder.
LockIsHeld ==
  /\ \A a \in Attempts : start[a].at \in Held => lock = a
  /\ leave.at = "removing" => lock = "leave"
  /\ switch # "idle" => lock = "switch" /\ (switch \in S!Idle => phase \notin S!Live)

Serves(a) == start[a].epoch # 0 /\ epoch = start[a].epoch
Current(a) == S!StartIsCurrent(start[a].gen)

\* What a start knows of the runtime between its awaits.
StartIsSound(a) ==
  /\ start[a].gen <= generation /\ start[a].epoch <= epoch
  /\ start[a].at \in Before => start[a].epoch = 0
  /\ start[a].at \in Begun => start[a].epoch # 0
  /\ start[a].at \in Cleared => phase \notin S!Live
  /\ start[a].at \in Cleared \cup Begun => media = 0
  /\ start[a].at \in Reserved /\ pending = start[a].gen /\ pending # 0 => mode = start[a].mode
  /\ start[a].at = "beginning" => mode = start[a].mode
  /\ start[a].at \in Checked => start[a].mode = "local"
  /\ Serves(a) => processing_mode = start[a].mode /\ attested = start[a].roster
  /\ Serves(a) /\ start[a].at \in Begun => phase = "connecting"
  /\ Serves(a) /\ start[a].at \in Checked => current = a
  /\ Serves(a) /\ start[a].at \in Joined /\ Current(a) => call.name = a
  /\ Serves(a) /\ start[a].at = "activating" /\ Current(a) => present \subseteq attested \cup joining
  /\ a \in overtaken => start[a].at # "idle" /\ start[a].gen < generation

CallIsSound ==
  /\ call.name \in Attempts => call.epoch = start[call.name].epoch /\ call.epoch # 0
  /\ call.name = NoAttempt => call.epoch = 0
  /\ call.epoch = epoch /\ epoch # 0 => phase \in S!Live

PauserIsSound(p) ==
  /\ p.epoch <= epoch /\ (p.at # "begin" => p.epoch < epoch)
  /\ p.at = "finish" /\ p.call \in Attempts =>
       start[p.call].epoch # 0 /\ start[p.call].epoch <= p.epoch

\* A stop that took the call overtook its start; a pause took an epoch that is over.
StopsAreSound ==
  /\ leave.at = "leaving" /\ leave.call \in Attempts =>
       start[leave.call].epoch # 0 /\ start[leave.call].gen < generation
  /\ \A p \in pausers : PauserIsSound(p)

ActorsAreSound ==
  \A e \in S!Epochs :
    /\ actors[e] # "none" => e <= epoch
    /\ actors[e] = "leaving" => e < epoch
    /\ actors[e] = "heard" /\ epoch = e => phase \in S!Audio

GateIsSound == NobodyUnannounced /\ CallIsBound

\* What makes the gate of the runtime inductive: a live epoch is attested by its
\* participants and carries the mode in force, from Connecting on.
Session ==
  /\ S!TypeOK /\ S!ConsentGate /\ S!DisclosedMode
  /\ S!ControlIsCurrent /\ S!PendingIsNewest
  /\ phase \in S!Live => attested = participants /\ processing_mode = mode

Inv ==
  /\ Session /\ Types /\ LockIsHeld /\ (\A a \in Attempts : StartIsSound(a))
  /\ CallIsSound /\ StopsAreSound /\ ActorsAreSound /\ GateIsSound

-----------------------------------------------------------------------------
(* The runtime's methods, as the callers use them.                          *)

USE DEF session_vars, inner, starts, sessions, consent,
        S!session_vars, S!inner, S!starts, S!sessions, S!consent

\* The constants of a call are constants of a session.
LEMMA SessionConstants ==
  /\ NoAttempt \notin Attempts /\ RetiredKept \in Nat \ {0}
  /\ MaxEpoch \in Nat /\ MaxGeneration \in Nat
BY CallAssumption

\* What Remembered returns is again a list of sessions (voice_session.rs:263-271).
LEMMA RememberedType ==
  ASSUME NEW s \in Attempts \cup {NoAttempt}, retired \in Seq(Attempts)
  PROVE  S!Remembered(s) \in Seq(Attempts)
<1>1. CASE s = NoAttempt \/ \E i \in DOMAIN retired : retired[i] = s
  BY <1>1 DEF S!Remembered
<1>2. CASE ~(s = NoAttempt \/ \E i \in DOMAIN retired : retired[i] = s)
  <2>1. s \in Attempts
    BY <1>2
  <2>2. Append(retired, s) \in Seq(Attempts)
    BY <2>1
  <2>3. CASE Len(retired) < RetiredKept
    BY <1>2, <2>2, <2>3 DEF S!Remembered
  <2>4. CASE ~(Len(retired) < RetiredKept)
    <3>1. retired # <<>>
      BY <2>4, SessionConstants
    <3>2. Tail(retired) \in Seq(Attempts)
      BY <3>1
    <3>3. Append(Tail(retired), s) \in Seq(Attempts)
      BY <2>1, <3>2
    <3> QED
      BY <1>2, <2>4, <3>3 DEF S!Remembered
  <2> QED
    BY <2>3, <2>4
<1> QED
  BY <1>1, <1>2

\* The list kept after retiring the bound session is again a list of sessions.
LEMMA RetireCurrentType ==
  ASSUME S!TypeOK, S!RetireCurrent
  PROVE  current' \in Attempts \cup {NoAttempt} /\ retired' \in Seq(Attempts)
BY RememberedType DEF S!TypeOK, S!RetireCurrent

\* The counters stay in their bounds when they move.
LEMMA CounterTypes ==
  ASSUME S!TypeOK
  PROVE  /\ S!CancelStarts => generation' \in S!Generations /\ pending' \in S!Generations
         /\ \A p, who : S!NextEpoch(p, who) => epoch' \in S!Epochs
BY SessionConstants DEF S!TypeOK, S!CancelStarts, S!NextEpoch, S!Generations, S!Epochs

USE DEF S!Epochs, S!Generations

\* Starting a call opens the gate only in Activate, which checks everything.
LEMMA StartingPreserves ==
  ASSUME Session, S!Starting
  PROVE  Session'
<1> USE DEF Session, S!TypeOK, S!ConsentGate, S!DisclosedMode, S!ControlIsCurrent,
        S!PendingIsNewest, S!Live, S!Audio, S!Idle, S!Phases, S!Members, S!Modes
<1>1. ASSUME NEW g \in S!Generations, S!Reserve(g)
      PROVE  Session'
  BY <1>1, SessionConstants DEF S!Reserve
<1>2. ASSUME NEW g \in S!Generations, S!FinishStart(g)
      PROVE  Session'
  BY <1>2, SessionConstants DEF S!FinishStart
<1>3. ASSUME control = 0, NEW who \in S!Members, S!Begin(who)
      PROVE  Session'
  <2>1. retired' \in Seq(Attempts) /\ current' \in Attempts \cup {NoAttempt}
    BY <1>3, RetireCurrentType DEF S!Begin
  <2>2. epoch' \in S!Epochs
    BY <1>3, CounterTypes DEF S!Begin
  <2> QED
    BY <1>3, <2>1, <2>2, SessionConstants DEF S!Begin, S!NextEpoch
<1>4. ASSUME NEW e \in S!Epochs, NEW s \in Attempts, S!BindDiscordSession(e, s)
      PROVE  Session'
  <2>1. retired' \in Seq(Attempts)
    BY <1>4, RememberedType DEF S!BindDiscordSession
  <2> QED
    BY <1>4, <2>1, SessionConstants DEF S!BindDiscordSession
<1>5. ASSUME processing_mode = "local", NEW e \in S!Epochs, NEW g \in S!Generations,
             S!Activate(e, g)
      PROVE  Session'
  <2>1. participants \subseteq agreed /\ ~draining /\ phase = "connecting" /\ epoch = e
    BY <1>5 DEF S!Activate, S!CanActivate, S!Coverage, S!StartIsCurrent, S!IsCurrent
  <2> QED
    BY <1>5, <2>1, SessionConstants DEF S!Activate
<1>6. ASSUME phase = "connecting", NEW e \in S!Epochs, S!InstallControl(e)
      PROVE  Session'
  BY <1>6, SessionConstants DEF S!InstallControl, S!IsCurrent
<1> QED
  BY <1>1, <1>2, <1>3, <1>4, <1>5, <1>6 DEF S!Starting

\* Every method that closes leaves the gate shut.
LEMMA ClosingPreserves ==
  ASSUME Session, S!Closing
  PROVE  Session'
<1> USE DEF Session, S!TypeOK, S!ConsentGate, S!DisclosedMode, S!ControlIsCurrent,
        S!PendingIsNewest, S!Live, S!Audio, S!Idle, S!Phases, S!Members, S!Modes
<1>1. CASE S!CancelPendingStart
  BY <1>1, CounterTypes, SessionConstants
     DEF S!CancelPendingStart, S!CloseMedia, S!CancelStarts
<1>2. CASE S!BeginDraining
  BY <1>2, CounterTypes, SessionConstants DEF S!BeginDraining, S!CloseMedia, S!CancelStarts
<1>3. ASSUME NEW u \in Users, S!RevokeForUnattestedParticipant(u)
      PROVE  Session'
  BY <1>3, CounterTypes, SessionConstants
     DEF S!RevokeForUnattestedParticipant, S!CloseMedia, S!CancelStarts
<1>4. ASSUME NEW s \in Attempts, S!RevokeForDiscordSession(s)
      PROVE  Session'
  BY <1>4, CounterTypes, SessionConstants
     DEF S!RevokeForDiscordSession, S!CloseMedia, S!CancelStarts
<1>5. ASSUME NEW s \in Attempts, S!RememberRetired(s)
      PROVE  Session'
  <2>1. retired' \in Seq(Attempts)
    BY <1>5, RememberedType DEF S!RememberRetired
  <2> QED
    BY <1>5, <2>1, SessionConstants DEF S!RememberRetired
<1>6. ASSUME NEW e \in S!Epochs, S!RevokeMedia(e)
      PROVE  Session'
  BY <1>6, SessionConstants DEF S!RevokeMedia
<1>7. ASSUME NEW e \in S!Epochs, NEW who \in S!Members, S!BeginPause(e, who)
      PROVE  Session'
  <2>1. retired' \in Seq(Attempts) /\ current' \in Attempts \cup {NoAttempt}
    BY <1>7, RetireCurrentType DEF S!BeginPause
  <2> QED
    BY <1>7, <2>1, CounterTypes, SessionConstants
       DEF S!BeginPause, S!CloseMedia, S!CancelStarts, S!NextEpoch
<1>8. ASSUME NEW e \in S!Epochs, NEW p \in {"failed", "awaiting_consent"}, S!ActorStop(e, p)
      PROVE  Session'
  <2>1. retired' \in Seq(Attempts) /\ current' \in Attempts \cup {NoAttempt}
    BY <1>8, RetireCurrentType DEF S!ActorStop
  <2> QED
    BY <1>8, <2>1, CounterTypes, SessionConstants
       DEF S!ActorStop, S!CloseMedia, S!CancelStarts, S!NextEpoch
<1> QED
  BY <1>1, <1>2, <1>3, <1>4, <1>5, <1>6, <1>7, <1>8 DEF S!Closing

\* A stop moves to an epoch that is not live and has no actor.
LEMMA StopToPreserves ==
  ASSUME Session,
         NEW p \in S!Phases \ S!Live, NEW who \in S!Members, S!StopTo(p, who),
         participants' \in S!Members, retired' \in Seq(Attempts),
         current' \in Attempts \cup {NoAttempt},
         S!CancelStarts \/ UNCHANGED S!starts
  PROVE  Session'
BY CounterTypes, SessionConstants
   DEF Session, S!TypeOK, S!ConsentGate, S!DisclosedMode, S!ControlIsCurrent,
       S!PendingIsNewest, S!Live, S!Audio, S!Idle, S!Phases, S!Members, S!Modes,
       S!StopTo, S!NextEpoch, S!CancelStarts

\* Every full stop (stop_to_inner, voice_session.rs:828-888) preserves the invariant.
LEMMA StoppingPreserves ==
  ASSUME Session, S!Stopping
  PROVE  Session'
<1>0. S!TypeOK /\ participants \in S!Members /\ {} \in S!Members
  BY DEF Session, S!TypeOK, S!Members
<1>p. /\ "disconnected" \in S!Phases \ S!Live /\ "failed" \in S!Phases \ S!Live
      /\ "awaiting_consent" \in S!Phases \ S!Live /\ "presence_only" \in S!Phases \ S!Live
  BY DEF S!Phases, S!Live, S!Audio, S!Idle
<1>1. CASE S!Disconnect
  BY <1>0, <1>p, <1>1, StopToPreserves, RetireCurrentType DEF S!Disconnect
<1>2. CASE S!FailSafe
  BY <1>0, <1>p, <1>2, StopToPreserves, RetireCurrentType DEF S!FailSafe
<1>3. CASE S!DisconnectForReplace
  BY <1>0, <1>p, <1>3, StopToPreserves, RetireCurrentType DEF S!DisconnectForReplace
<1>4. ASSUME NEW who \in S!Members, S!PauseForConsent(who)
      PROVE  Session'
  BY <1>0, <1>p, <1>4, StopToPreserves, RetireCurrentType DEF S!PauseForConsent
<1>5. ASSUME NEW s \in Attempts, S!SetPresence(s)
      PROVE  Session'
  <2>1. retired' \in Seq(Attempts)
    BY <1>0, <1>5, RememberedType DEF S!SetPresence, S!TypeOK
  <2>2. current' \in Attempts \cup {NoAttempt} /\ participants' \in S!Members
    BY <1>0, <1>5 DEF S!SetPresence
  <2> QED
    BY <1>0, <1>p, <1>5, <2>1, <2>2, StopToPreserves DEF S!SetPresence
<1> QED
  BY <1>1, <1>2, <1>3, <1>4, <1>5 DEF S!Stopping, S!FailStart, S!SetPresenceForStart

\* A withdrawal by somebody the epoch attests closes the gate in the same step.
LEMMA ChoosingPreserves ==
  ASSUME Session, S!Choosing
  PROVE  Session'
<1> USE DEF Session, S!TypeOK, S!ConsentGate, S!DisclosedMode, S!ControlIsCurrent,
        S!PendingIsNewest, S!Live, S!Audio, S!Idle, S!Phases, S!Members, S!Modes
<1>1. ASSUME phase \in S!Audio, NEW e \in S!Epochs, NEW p \in S!Audio, S!SetStatus(e, p)
      PROVE  Session'
  BY <1>1, SessionConstants DEF S!SetStatus
<1>2. ASSUME phase \notin S!Live, NEW m \in S!Modes, NEW seen \in S!Phases,
             S!SwitchEffectiveMode(m, seen)
      PROVE  Session'
  BY <1>2, SessionConstants DEF S!SwitchEffectiveMode
<1>3. ASSUME NEW u \in Users, NEW c \in {"agree", "withdraw"}, NEW stop \in BOOLEAN,
             S!ChangeConsent(u, c, stop)
      PROVE  Session'
  <2>1. agreed' \in S!Members /\ saved' \in BOOLEAN /\ available' \in BOOLEAN
    BY <1>3 DEF S!ChangeConsent, S!Recorded
  <2>2. CASE S!Stops(u, c, stop)
    BY <1>3, <2>1, <2>2, CounterTypes, SessionConstants
       DEF S!ChangeConsent, S!CloseMedia, S!CancelStarts
  <2>3. CASE ~S!Stops(u, c, stop)
    <3>1. c = "agree" \/ u \notin attested
      BY <2>3 DEF S!Stops
    <3>2. attested \subseteq agreed => attested \subseteq agreed'
      BY <1>3, <3>1 DEF S!ChangeConsent, S!Recorded
    <3>3. UNCHANGED <<epoch, phase, participants, processing_mode, control, media,
                      generation, pending, draining, mode, attested, current, retired>>
      BY <1>3, <2>3 DEF S!ChangeConsent
    <3> QED
      BY <2>1, <3>2, <3>3
  <2> QED
    BY <2>2, <2>3
<1>4. CASE S!ConsentSaved
  BY <1>4 DEF S!ConsentSaved
<1>5. CASE S!ConsentPoisoned
  BY <1>5 DEF S!ConsentPoisoned
<1> QED
  BY <1>1, <1>2, <1>3, <1>4, <1>5 DEF S!Choosing

HIDE DEF S!Epochs, S!Generations

\* The runtime's methods keep its invariant.
LEMMA SessionKept ==
  ASSUME Session, S!Next \/ UNCHANGED session_vars
  PROVE  Session'
<1>1. CASE UNCHANGED session_vars
  BY <1>1, Zenon DEF Session, S!TypeOK, S!ConsentGate, S!DisclosedMode, S!ControlIsCurrent,
    S!PendingIsNewest
<1>2. CASE S!Next
  BY <1>2, StartingPreserves, ClosingPreserves, StoppingPreserves, ChoosingPreserves DEF S!Next
<1> QED
  BY <1>1, <1>2

\* The runtime's methods do one of two things to an epoch under way: they leave it and
\* at most close its gate and cancel what is pending, or they end it.
Closes ==
  /\ UNCHANGED <<epoch, phase, processing_mode, attested, current, mode>>
  /\ media' \in {media, 0} /\ pending' \in {pending, 0, generation + 1}
  /\ generation' \in {generation, generation + 1}

Ends ==
  /\ epoch' = epoch + 1 /\ phase' \notin S!Live /\ media' = 0
  /\ UNCHANGED <<processing_mode, mode>> /\ pending' \in {pending, 0}
  /\ generation' \in {generation, generation + 1}

SessionStep == S!Next \/ UNCHANGED session_vars

\* cancel_pending_start, begin_draining and the revocations (activation.rs:207-265).
LEMMA CancelCloses ==
  ASSUME S!CancelPendingStart \/ S!BeginDraining \/ S!RevokeForExternalEvent
  PROVE  SessionStep /\ Closes /\ generation' = generation + 1 /\ media' = 0 /\ pending' = 0
BY DEF SessionStep, Closes, S!Next, S!Closing, S!CancelPendingStart, S!BeginDraining,
  S!RevokeForExternalEvent, S!CloseMedia, S!CancelStarts

\* The revocations of handlers and of the receive path (activation.rs:207-265).
LEMMA RevokeCloses ==
  ASSUME Session, NEW u \in Users, NEW s \in Attempts, NEW e \in S!Epochs,
         \/ S!RevokeForUnattestedParticipant(u) \/ S!RevokeForDiscordSession(s)
         \/ S!RevokeMedia(e)
  PROVE  SessionStep /\ Closes /\ media' = 0
BY DEF SessionStep, Closes, S!Next, S!Closing, S!RevokeForUnattestedParticipant,
  S!RevokeForDiscordSession, S!RevokeMedia, S!CloseMedia, S!CancelStarts

\* change_consent closes the gate when the choice stops the call.
LEMMA ConsentCloses ==
  ASSUME NEW u \in Users, NEW c \in {"agree", "withdraw"}, NEW stop \in BOOLEAN,
         S!ChangeConsent(u, c, stop)
  PROVE  /\ SessionStep /\ Closes
         /\ S!Stops(u, c, stop) => generation' = generation + 1 /\ media' = 0
BY DEF SessionStep, Closes, S!Next, S!Choosing, S!ChangeConsent, S!CloseMedia,
  S!CancelStarts

\* The store behind the ledger leaves the epoch alone.
LEMMA StoreCloses ==
  ASSUME S!ConsentSaved \/ S!ConsentPoisoned
  PROVE  SessionStep /\ Closes
BY DEF SessionStep, Closes, S!Next, S!Choosing, S!ConsentSaved, S!ConsentPoisoned

\* Dropping a StartAttempt only clears what is pending.
LEMMA FinishCloses ==
  ASSUME Session, S!FinishStart(pending)
  PROVE  SessionStep /\ Closes
BY DEF SessionStep, Closes, S!Next, S!Starting, S!FinishStart, Session, S!TypeOK

\* Remembering a retired session, or no session, leaves the epoch alone.
LEMMA RetiredCloses ==
  ASSUME call.name \in Attempts \cup {NoAttempt}, S!RememberRetired(call.name)
  PROVE  SessionStep /\ Closes
<1>1. CASE call.name \in Attempts
  BY <1>1 DEF SessionStep, Closes, S!Next, S!Closing, S!RememberRetired
<1>2. CASE call.name = NoAttempt
  BY <1>2 DEF SessionStep, Closes, S!RememberRetired, S!Remembered
<1> QED
  BY <1>1, <1>2

\* A step that is not one of the runtime.
LEMMA NothingCloses == ASSUME UNCHANGED session_vars PROVE SessionStep /\ Closes
BY DEF SessionStep, Closes

\* stop_to_inner, begin_pause_epoch_for_consent and the actor's stops.
LEMMA StopEnds ==
  ASSUME S!Disconnect \/ S!FailSafe \/ S!DisconnectForReplace
  PROVE  SessionStep /\ Ends
BY DEF SessionStep, Ends, S!Next, S!Stopping, S!Disconnect, S!FailSafe,
  S!DisconnectForReplace, S!StopTo, S!NextEpoch, S!CancelStarts, S!Live, S!Audio

\* Pausing for consent and settling for presence are full stops.
LEMMA MemberStopEnds ==
  ASSUME NEW who \in SUBSET Users, NEW a \in Attempts,
         S!PauseForConsent(who) \/ S!SetPresence(a)
  PROVE  SessionStep /\ Ends
BY DEF SessionStep, Ends, S!Next, S!Stopping, S!PauseForConsent, S!SetPresence,
  S!StopTo, S!NextEpoch, S!CancelStarts, S!Live, S!Audio, S!Members

\* Nobody is a set of members.
LEMMA EmptyRoom == {} \in SUBSET Users
OBVIOUS

\* A handler's pause and an actor's own stop end the epoch they name.
LEMMA PauseEnds ==
  ASSUME NEW who \in SUBSET Users, NEW e \in S!Epochs, NEW p \in {"failed", "awaiting_consent"},
         S!BeginPause(e, who) \/ S!ActorStop(e, p)
  PROVE  SessionStep /\ Ends /\ epoch = e
BY DEF SessionStep, Ends, S!Next, S!Closing, S!BeginPause, S!ActorStop, S!NextEpoch,
  S!CloseMedia, S!CancelStarts, S!Live, S!Audio, S!Members, S!IsCurrent

-----------------------------------------------------------------------------
(* What one step leaves of each conjunct, when it does not touch it.        *)

Only(a) == \A b \in Attempts \ {a} : start'[b] = start[b]

\* The epoch goes on being live, or is left behind.
Moves ==
  \/ /\ epoch' = epoch /\ (phase \in S!Live => phase' \in S!Live)
     /\ phase \in S!Audio => phase' \in S!Audio
  \/ epoch' = epoch + 1

\* A start that joined keeps its epoch and its token.
StartsKeep ==
  \A b \in Attempts :
    start[b].epoch # 0 => start'[b].epoch = start[b].epoch /\ start'[b].gen = start[b].gen

\* The call keeps its start, whatever becomes of the epoch.
LEMMA CallKept ==
  ASSUME Session, Types, CallIsSound, Moves, StartsKeep, \A b \in Attempts : StartIsSound(b),
         call' \in {call, NoCall, [call EXCEPT !.deaf = FALSE]}
  PROVE  call' \in Calls /\ CallIsSound'
<1>1. epoch \in Nat /\ call.epoch \in Nat /\ call.name \in Attempts \cup {NoAttempt}
      /\ call.deaf \in BOOLEAN /\ call.epoch \in S!Epochs
  BY CallAssumption DEF Types, Calls, Session, S!TypeOK, S!Epochs
<1>2. call.epoch <= epoch
  BY <1>1 DEF CallIsSound, StartIsSound, Types, Starts
<1>3. \/ call'.name = call.name /\ call'.epoch = call.epoch
      \/ call'.name = NoAttempt /\ call'.epoch = 0
  BY DEF NoCall, Types, Calls
<1>4. call' \in Calls
  <2>1. NoCall \in Calls
    BY CallAssumption DEF NoCall, Calls, S!Epochs
  <2>2. call \in Calls /\ [call EXCEPT !.deaf = FALSE] \in Calls
    BY DEF Types, Calls
  <2> QED
    BY <2>1, <2>2
<1> QED
  BY <1>1, <1>2, <1>3, <1>4, CallAssumption DEF CallIsSound, Moves, StartsKeep

\* Stops and teardown tasks under way stay sound while starts only move on.
LEMMA StopsKept ==
  ASSUME Session, Types, StopsAreSound, Moves, StartsKeep, leave' = leave,
         generation' \in {generation, generation + 1},
         \A p \in pausers' : p \in pausers \/ PauserIsSound(p)', pausers' \subseteq Pausers
  PROVE  StopsAreSound'
<1>1. epoch \in Nat /\ generation \in Nat /\ epoch' \in Nat /\ epoch <= epoch'
      /\ generation' \in Nat /\ generation <= generation'
  BY CallAssumption DEF Session, S!TypeOK, Moves, S!Epochs, S!Generations
<1>2. \A b \in Attempts : start[b].gen \in Nat /\ start[b].epoch \in Nat
  BY CallAssumption DEF Types, Starts, S!Epochs, S!Generations
<1>3. \A p \in pausers' : p.epoch \in Nat
  BY CallAssumption DEF Types, Pausers, S!Epochs, S!Generations
<1>4. ASSUME leave.at = "leaving", leave.call \in Attempts
      PROVE  start'[leave.call].epoch # 0 /\ start'[leave.call].gen < generation'
  BY <1>1, <1>2, <1>4 DEF StopsAreSound, StartsKeep
<1>5. ASSUME NEW p \in pausers'
      PROVE  PauserIsSound(p)'
  BY <1>1, <1>2, <1>3, <1>5 DEF StopsAreSound, StartsKeep, PauserIsSound
<1> QED
  BY <1>4, <1>5 DEF StopsAreSound

\* Actors of older epochs stay behind.
LEMMA ActorsKept ==
  ASSUME Session, ActorsAreSound, Moves,
         \A e \in S!Epochs : actors'[e] # actors[e] => actors'[e] \in {"failing", "withdrawing", "gone"}
                                                      /\ actors[e] # "none"
  PROVE  ActorsAreSound'
<1>1. epoch \in Nat /\ \A e \in S!Epochs : e \in Nat
  BY CallAssumption DEF Session, S!TypeOK, S!Epochs
<1> QED
  BY <1>1 DEF ActorsAreSound, Moves

\* A gate that is not opened stays announced and bound.
LEMMA GateKept ==
  ASSUME Session, GateIsSound, Closes \/ Ends,
         call' \in {call, NoCall}, media' # 0 => present' \subseteq attested \cup joining'
  PROVE  GateIsSound'
BY DEF GateIsSound, NobodyUnannounced, CallIsBound, Closes, Ends

\* Closing and ending are moves of the epoch.
LEMMA QuietMoves == ASSUME Closes \/ Ends PROVE Moves
BY DEF Closes, Ends, Moves

Quiet == SessionStep /\ (Closes \/ Ends)

Announced(b) ==
  Serves(b) /\ start[b].at = "activating" /\ Current(b) /\ Current(b)' =>
    present' \subseteq attested \cup joining'
Bound(b) == Serves(b) /\ start[b].at \in Joined /\ Current(b) => call'.name = b
Overtakes(b) ==
  b \in overtaken' => \/ b \in overtaken
                      \/ start[b].at \notin {"idle", "done"} /\ generation' = generation + 1

\* Epochs and generations are numbers.
LEMMA Numbers == Session => epoch \in Nat /\ generation \in Nat
BY CallAssumption DEF Session, S!TypeOK, S!Epochs, S!Generations
LEMMA NumbersNext == Session' => epoch' \in Nat /\ generation' \in Nat
BY CallAssumption DEF Session, S!TypeOK, S!Epochs, S!Generations

\* A start that is not the one that moves, under a step that starts nothing.
LEMMA StartKept ==
  ASSUME Session, Session', Types, Quiet, NEW b \in Attempts, StartIsSound(b),
         start'[b] = start[b], Announced(b), Bound(b), Overtakes(b)
  PROVE  StartIsSound(b)'
<1>1. /\ epoch \in Nat /\ generation \in Nat /\ pending \in Nat
      /\ start[b].gen \in Nat /\ start[b].epoch \in Nat
  BY CallAssumption, SMTT(30) DEF Session, S!TypeOK, Types, Starts, S!Epochs, S!Generations
<1>2. Serves(b)' => Closes /\ Serves(b)
  BY <1>1 DEF Quiet, Closes, Ends, Serves, StartIsSound
<1>3. Current(b)' => Current(b)
  <2>1. start[b].gen <= generation
    BY DEF StartIsSound
  <2> QED
    BY <1>1, <2>1, CallAssumption
       DEF Quiet, Closes, Ends, Current, S!StartIsCurrent, Session, S!PendingIsNewest
<1>4. epoch <= epoch' /\ generation <= generation' /\ (media = 0 => media' = 0)
  BY <1>1 DEF Quiet, Closes, Ends
<1>5. /\ mode' = mode /\ (pending' = start[b].gen => pending' \in {pending, 0})
      /\ phase \notin S!Live => phase' \notin S!Live
  <2>1. start[b].gen <= generation
    BY DEF StartIsSound
  <2> QED
    BY <1>1, <2>1 DEF Quiet, Closes, Ends
<1>6. Serves(b)' => phase' = phase /\ current' = current /\ attested' = attested
                    /\ processing_mode' = processing_mode
  BY <1>2 DEF Closes
<1>7. b \in overtaken' => start'[b].at # "idle" /\ start'[b].gen < generation'
  <2>1. b \in overtaken => start[b].at # "idle" /\ start[b].gen < generation
    BY DEF StartIsSound
  <2>2. start[b].gen <= generation
    BY DEF StartIsSound
  <2> QED
    BY <1>1, <1>4, <2>1, <2>2, CallAssumption
       DEF Overtakes, Session, S!TypeOK, S!Generations
<1>8. start'[b].gen <= generation' /\ start'[b].epoch <= epoch'
  <2>1. start[b].gen <= generation /\ start[b].epoch <= epoch
    BY DEF StartIsSound
  <2>2. start'[b].gen = start[b].gen /\ start'[b].epoch = start[b].epoch
    OBVIOUS
  <2> QED
    BY ONLY <1>1, <1>4, <2>1, <2>2, NumbersNext, Session'
<1> QED
  BY <1>2, <1>3, <1>4, <1>5, <1>6, <1>7, <1>8
     DEF StartIsSound, Announced, Bound

\* A start that does not hold the lock, while another one moves.
LEMMA BystanderKept ==
  ASSUME Session, Session', Types, NEW b \in Attempts, StartIsSound(b), start[b].at \notin Held,
         start'[b] = start[b], Moves, generation' \in {generation, generation + 1},
         overtaken' = overtaken,
         epoch' = epoch => UNCHANGED <<processing_mode, attested>>,
         pending' \in {pending, 0, generation + 1}, mode' = mode
  PROVE  StartIsSound(b)'
<1>1. /\ epoch \in Nat /\ generation \in Nat /\ pending \in Nat
      /\ start[b].gen \in Nat /\ start[b].epoch \in Nat
  BY CallAssumption, SMTT(30) DEF Session, S!TypeOK, Types, Starts, S!Epochs, S!Generations
<1>2. Serves(b)' => epoch' = epoch /\ Serves(b)
  BY <1>1 DEF Moves, Serves, StartIsSound
<1>3. epoch <= epoch' /\ generation <= generation'
  BY <1>1 DEF Moves
<1>4. start[b].gen <= generation /\ start[b].epoch <= epoch
  BY DEF StartIsSound
<1>5. pending' = start[b].gen => pending' = pending \/ pending' = 0
  BY <1>1, <1>4
<1>6. /\ start[b].at \notin Begun \cup Cleared /\ start[b].at \notin Checked
      /\ start[b].at \notin Joined /\ start[b].at \notin {"beginning", "activating"}
  BY DEF Held, Begun, Joined, Checked, Cleared
<1>7. start'[b].gen <= generation' /\ start'[b].epoch <= epoch'
  <2>1. start'[b].gen = start[b].gen /\ start'[b].epoch = start[b].epoch
    OBVIOUS
  <2> QED
    BY ONLY <1>1, <1>3, <1>4, <2>1, NumbersNext, Session'
<1>8. b \in overtaken' => start'[b].at # "idle" /\ start'[b].gen < generation'
  <2>1. b \in overtaken => start[b].at # "idle" /\ start[b].gen < generation
    BY DEF StartIsSound
  <2> QED
    BY <1>1, <1>3, <2>1, CallAssumption DEF Session, S!TypeOK, S!Generations
<1>9. /\ start[b].at \in Before => start[b].epoch = 0
      /\ start[b].at \in Reserved /\ pending = start[b].gen /\ pending # 0 => mode = start[b].mode
      /\ Serves(b) => processing_mode = start[b].mode /\ attested = start[b].roster
  BY DEF StartIsSound
<1> QED
  BY <1>2, <1>5, <1>6, <1>7, <1>8, <1>9 DEF StartIsSound

\* What every step keeps: the invariant, the conventions of VoiceSession, and that only
\* a start nothing has overtaken opens the gate.
Kept ==
  /\ Inv' /\ SessionStep
  /\ media = 0 /\ media' # 0 => lock \notin overtaken

Aside == start' = start /\ lock' = lock /\ leave' = leave /\ switch' = switch

\* A step that moves no start, no leave and no switch, and at most ends the epoch.
LEMMA AsideKept ==
  ASSUME Inv, Types', Quiet, Aside, StopsAreSound', ActorsAreSound',
         \A b \in Attempts : Announced(b) /\ Bound(b) /\ Overtakes(b),
         call' \in {call, NoCall}, media' # 0 => present' \subseteq attested \cup joining'
  PROVE  Kept
<1>1. Session'
  BY SessionKept DEF Inv, Quiet, SessionStep
<1>2. LockIsHeld'
  BY DEF Inv, LockIsHeld, Aside, Quiet, Closes, Ends
<1>3. ASSUME NEW b \in Attempts PROVE StartIsSound(b)'
  BY <1>1, StartKept DEF Inv, Aside
<1>4. CallIsSound'
  BY CallKept, QuietMoves DEF Inv, Aside, Quiet, StartsKeep
<1>5. GateIsSound'
  BY GateKept DEF Inv, Quiet
<1> QED
  BY <1>1, <1>2, <1>3, <1>4, <1>5 DEF Inv, Kept, Quiet, Closes, Ends

\* What a step that leaves the members, the call and the history alone need not show.
LEMMA UntouchedKept ==
  ASSUME Inv, Quiet
  PROVE  /\ UNCHANGED channel =>
              /\ \A b \in Attempts : Announced(b)
              /\ media' # 0 => present' \subseteq attested \cup joining'
         /\ call' = call => \A b \in Attempts : Bound(b)
         /\ overtaken' = overtaken => \A b \in Attempts : Overtakes(b)
         /\ overtaken' = overtaken \cup UnderWay /\ generation' = generation + 1 =>
              \A b \in Attempts : Overtakes(b)
         /\ actors' = actors => ActorsAreSound'
         /\ pausers' = pausers /\ leave' = leave /\ start' = start => StopsAreSound'
<1>1. UNCHANGED channel => \A b \in Attempts : Announced(b)
  BY DEF Inv, channel, StartIsSound, Announced
<1>2. UNCHANGED channel => (media' # 0 => present' \subseteq attested \cup joining')
  BY DEF Inv, channel, GateIsSound, NobodyUnannounced, Quiet, Closes, Ends
<1>3. call' = call => \A b \in Attempts : Bound(b)
  BY DEF Inv, StartIsSound, Bound
<1>4. overtaken' = overtaken => \A b \in Attempts : Overtakes(b)
  BY DEF Overtakes
<1>5. overtaken' = overtaken \cup UnderWay /\ generation' = generation + 1 =>
        \A b \in Attempts : Overtakes(b)
  BY DEF Overtakes, UnderWay
<1>6. actors' = actors => ActorsAreSound'
  BY ActorsKept, QuietMoves DEF Inv, Quiet
<1>7. pausers' = pausers /\ leave' = leave /\ start' = start => StopsAreSound'
  BY StopsKept, QuietMoves DEF Inv, Quiet, StartsKeep, Types, Closes, Ends
<1> QED
  BY <1>1, <1>2, <1>3, <1>4, <1>5, <1>6, <1>7

-----------------------------------------------------------------------------
(* Members, moderators and the service.                                     *)

\* Counting an event keeps the type of the history.
LEMMA HappensTypes ==
  ASSUME events \in [so_far : Nat, bound : Bounds], NEW kind, Happens(kind)
  PROVE  events' \in [so_far : Nat, bound : Bounds]
BY DEF Happens

\* A member who enters is in the channel and on the way to the join handler.
LEMMA EntersKept == ASSUME Inv, NEW u \in Users, Enters(u) \/ Exits(u) PROVE Kept
<1>1. Quiet /\ Aside /\ Closes
  BY NothingCloses DEF Enters, Exits, Quiet, Aside, tasks
<1>2. Types'
  <2>1. events' \in [so_far : Nat, bound : Bounds]
    BY HappensTypes DEF Inv, Types, Enters, Exits
  <2>2. present' \subseteq Users /\ joining' \subseteq Users
    BY DEF Inv, Types, Enters, Exits
  <2>3. UNCHANGED <<call, start, pausers, actors, leave, switch, overtaken>>
    BY DEF Enters, Exits, tasks
  <2> QED
    BY <2>1, <2>2, <2>3 DEF Inv, Types
<1>3. /\ call' = call /\ overtaken' = overtaken /\ actors' = actors /\ pausers' = pausers
      /\ leave' = leave /\ start' = start /\ media' = media
      /\ present' \ joining' \subseteq present \ joining
  BY DEF Enters, Exits, tasks
<1>4. \A b \in Attempts : Announced(b)
  BY <1>3 DEF Inv, StartIsSound, Announced
<1>5. media' # 0 => present' \subseteq attested \cup joining'
  BY <1>3 DEF Inv, GateIsSound, NobodyUnannounced
<1> QED
  BY <1>1, <1>2, <1>3, <1>4, <1>5, UntouchedKept, AsideKept

\* begin_draining closes the gate and overtakes the starts under way.
LEMMA ServiceStopsKept == ASSUME Inv, ServiceStops PROVE Kept
<1>1. Quiet /\ Aside /\ generation' = generation + 1
  BY CancelCloses DEF ServiceStops, Quiet, Aside, tasks
<1>2. Types'
  BY HappensTypes DEF Inv, Types, ServiceStops, tasks, channel, UnderWay
<1>3. /\ call' = call /\ actors' = actors /\ pausers' = pausers /\ leave' = leave
      /\ start' = start /\ overtaken' = overtaken \cup UnderWay /\ UNCHANGED channel
  BY DEF ServiceStops, tasks
<1> QED
  BY <1>1, <1>2, <1>3, UntouchedKept, AsideKept

\* The ledger becomes durable or denies, under any call.
LEMMA ConsentStoreKept == ASSUME Inv, ConsentStoreStep PROVE Kept
<1>1. Quiet /\ Aside
  BY StoreCloses DEF ConsentStoreStep, Quiet, Aside, tasks
<1>2. Types'
  BY DEF Inv, Types, ConsentStoreStep, tasks, channel, history
<1>3. /\ call' = call /\ actors' = actors /\ pausers' = pausers /\ leave' = leave
      /\ start' = start /\ overtaken' = overtaken /\ UNCHANGED channel
  BY DEF ConsentStoreStep, tasks, history
<1> QED
  BY <1>1, <1>2, <1>3, UntouchedKept, AsideKept

\* A handler's new teardown task, of the epoch it found.
LEMMA PauserTypes ==
  ASSUME Types, NEW kind \in {"withdraw", "join", "bot", "permission", "receive"},
         NEW e \in S!Epochs, NEW u \in Users \cup {NoAttempt},
         pausers' = pausers \cup {Pauser(kind, e, u)}
  PROVE  pausers' \subseteq Pausers
BY DEF Types, Pausers, Pauser

\* Epochs are numbers.
LEMMA EpochTypes == ASSUME Inv PROVE epoch \in S!Epochs /\ epoch <= epoch /\ epoch \in Nat
BY CallAssumption DEF Inv, Session, S!TypeOK, S!Epochs

\* A new teardown task is of an epoch that has begun.
LEMMA NewPauserKept ==
  ASSUME Inv, Quiet, Types', start' = start, leave' = leave, NEW kind, NEW e, NEW u, e <= epoch,
         pausers' = pausers \cup {Pauser(kind, e, u)}
  PROVE  StopsAreSound'
<1>1. Moves /\ StartsKeep /\ generation' \in {generation, generation + 1}
  BY QuietMoves DEF Quiet, StartsKeep, Closes, Ends
<1>2. \A p \in pausers' : p \in pausers \/ PauserIsSound(p)'
  <2>1. e <= epoch' /\ Pauser(kind, e, u).epoch = e /\ Pauser(kind, e, u).at = "begin"
    <3>1. Pauser(kind, e, u) \in pausers' /\ pausers' \subseteq Pausers
      BY DEF Types
    <3>2. e \in S!Epochs
      BY <3>1 DEF Pausers, Pauser
    <3> QED
      BY <1>1, <3>2, EpochTypes, CallAssumption DEF Moves, Pauser, S!Epochs
  <2> QED
    BY <2>1 DEF PauserIsSound
<1> QED
  BY <1>1, <1>2, StopsKept DEF Inv, Types

\* A choice that stops the call overtakes every start under way.
LEMMA ChoosesKept ==
  ASSUME Inv, NEW u \in Users, NEW choice \in {"agree", "withdraw"}, Chooses(u, choice)
  PROVE  Kept
<1>1. /\ Quiet /\ Aside
      /\ S!Stops(u, choice, u \in present) => generation' = generation + 1
  <2>1. (u \in present) \in BOOLEAN
    OBVIOUS
  <2>2. S!ChangeConsent(u, choice, u \in present)
    BY DEF Chooses
  <2> QED
    BY <2>1, <2>2, ConsentCloses DEF Chooses, Quiet, Aside
<1>2. \/ overtaken' = overtaken /\ pausers' = pausers
      \/ /\ overtaken' = overtaken \cup UnderWay /\ generation' = generation + 1
         /\ pausers' = pausers \cup {Pauser("withdraw", epoch, u)}
  BY <1>1 DEF Chooses
<1>3. UNCHANGED channel /\ call' = call /\ actors' = actors
  BY DEF Chooses
<1>4. Types'
  BY <1>1, <1>2, <1>3, PauserTypes, HappensTypes, EpochTypes
     DEF Chooses, Inv, Types, Aside, channel, UnderWay
<1>5. StopsAreSound'
  BY <1>1, <1>2, <1>4, NewPauserKept, UntouchedKept, EpochTypes DEF Aside
<1>6. \A b \in Attempts : Announced(b) /\ Bound(b) /\ Overtakes(b)
  BY <1>1, <1>2, <1>3, UntouchedKept
<1> QED
  BY <1>1, <1>3, <1>4, <1>5, <1>6, UntouchedKept, AsideKept

\* A lost permission closes the gate and overtakes the starts under way.
LEMMA PermissionKept == ASSUME Inv, PermissionLost PROVE Kept
<1>1. Quiet /\ Aside /\ generation' = generation + 1
  BY CancelCloses DEF PermissionLost, Quiet, Aside
<1>2. /\ UNCHANGED channel /\ call' = call /\ actors' = actors
      /\ overtaken' = overtaken \cup UnderWay
      /\ pausers' = pausers \cup {Pauser("permission", epoch, NoAttempt)}
  BY DEF PermissionLost
<1>3. Types'
  BY <1>1, <1>2, PauserTypes, HappensTypes, EpochTypes
     DEF PermissionLost, Inv, Types, Aside, channel, UnderWay
<1>4. StopsAreSound'
  BY <1>1, <1>2, <1>3, NewPauserKept, EpochTypes DEF Aside
<1> QED
  BY <1>1, <1>2, <1>3, <1>4, UntouchedKept, AsideKept

\* A payload of the bot's own session closes the gate, unless it is of a retired one.
LEMMA BotPayloadKept == ASSUME Inv, NEW s \in Attempts, BotPayload(s) PROVE Kept
<1>1. Quiet /\ Aside
  <2>1. CASE UNCHANGED <<session_vars, pausers>>
    BY <2>1, NothingCloses DEF BotPayload, Quiet, Aside
  <2>2. CASE S!RevokeForDiscordSession(s)
    BY <2>2 DEF BotPayload, Quiet, Aside, SessionStep, Closes, S!Next, S!Closing,
       S!RevokeForDiscordSession, S!CloseMedia, S!CancelStarts
  <2> QED
    BY <2>1, <2>2 DEF BotPayload
<1>2. /\ UNCHANGED channel /\ call' = call /\ actors' = actors /\ overtaken' = overtaken
      /\ pausers' = pausers \/ pausers' = pausers \cup {Pauser("bot", epoch, NoAttempt)}
  BY DEF BotPayload
<1>3. Types'
  BY <1>1, <1>2, PauserTypes, HappensTypes, EpochTypes
     DEF BotPayload, Inv, Types, Aside, channel
<1>4. StopsAreSound'
  BY <1>1, <1>2, <1>3, NewPauserKept, UntouchedKept, EpochTypes DEF Aside
<1> QED
  BY <1>1, <1>2, <1>3, <1>4, UntouchedKept, AsideKept

\* The receive path closes the gate of its own epoch.
LEMMA UnattestedTickKept == ASSUME Inv, NEW u \in Users, UnattestedTick(u) PROVE Kept
<1>1. call.epoch = epoch /\ call.epoch \in S!Epochs
  BY EpochTypes DEF UnattestedTick, S!MediaEnabled
<1>2. Quiet /\ Aside
  BY <1>1 DEF UnattestedTick, Quiet, Aside, SessionStep, Closes, S!Next, S!Closing, S!RevokeMedia
<1>3. /\ UNCHANGED channel /\ call' = call /\ actors' = actors /\ overtaken' = overtaken
      /\ pausers' = pausers \cup {Pauser("receive", epoch, u)}
  BY <1>1 DEF UnattestedTick, history
<1>4. Types'
  BY <1>2, <1>3, PauserTypes, EpochTypes
     DEF UnattestedTick, Inv, Types, Aside, channel, history
<1>5. StopsAreSound'
  BY <1>2, <1>3, <1>4, NewPauserKept, EpochTypes DEF Aside
<1> QED
  BY <1>2, <1>3, <1>4, <1>5, UntouchedKept, AsideKept

\* An actor hears only through an open gate, so in audio.
LEMMA TickKept == ASSUME Inv, Tick PROVE Kept
<1>1. Quiet /\ Aside /\ Closes
  BY NothingCloses DEF Tick, Quiet, Aside
<1>2. /\ UNCHANGED channel /\ call' = call /\ overtaken' = overtaken /\ pausers' = pausers
      /\ actors' = [actors EXCEPT ![call.epoch] = "heard"] /\ actors[call.epoch] = "running"
      /\ call.epoch = epoch /\ phase' = phase /\ epoch' = epoch
  BY DEF Tick, history, S!MediaEnabled
<1>3. phase \in S!Audio
  BY DEF Tick, S!MediaEnabled, Inv, Session, S!ConsentGate
<1>4. Types'
  BY <1>1, <1>2 DEF Tick, Inv, Types, Aside, channel, history
<1>5. ActorsAreSound'
  BY <1>2, <1>3, EpochTypes DEF Inv, ActorsAreSound, Types
<1> QED
  BY <1>1, <1>2, <1>4, <1>5, UntouchedKept, AsideKept DEF Aside

-----------------------------------------------------------------------------
(* What the handlers' teardown tasks do.                                    *)

\* A teardown task moves on, or is over.
LEMMA BecomesKept ==
  ASSUME Inv, Quiet, Types', start' = start, leave' = leave, NEW p \in pausers, NEW q,
         \A r \in q : PauserIsSound(r)', Becomes(p, q)
  PROVE  StopsAreSound'
<1>1. Moves /\ StartsKeep /\ generation' \in {generation, generation + 1}
  BY QuietMoves DEF Quiet, StartsKeep, Closes, Ends
<1>2. \A r \in pausers' : r \in pausers \/ PauserIsSound(r)'
  BY DEF Becomes
<1> QED
  BY <1>1, <1>2, StopsKept DEF Inv, Types

\* begin_pause_epoch_for_consent takes the call of the epoch it ends.
LEMMA PauserBeginsKept ==
  ASSUME Inv, NEW p \in pausers, PauserStep(p), PauserBegins(p)
  PROVE  Kept
<1>1. Aside /\ UNCHANGED channel /\ call' = call /\ actors' = actors /\ overtaken' = overtaken
  BY DEF PauserStep, PauserBegins, Aside, history
<1>2. p \in Pausers /\ p.epoch \in S!Epochs
  BY DEF Inv, Types, Pausers
<1>3. MustAgree(p) \in SUBSET Users
  BY DEF MustAgree
<1>4. \/ UNCHANGED session_vars /\ Becomes(p, {})
      \/ /\ S!BeginPause(p.epoch, MustAgree(p)) /\ epoch = p.epoch
         /\ Becomes(p, {[p EXCEPT !.at = "finish", !.call = call.name]})
  BY DEF PauserBegins, S!IsCurrent
<1>5. Quiet /\ (S!BeginPause(p.epoch, MustAgree(p)) => epoch' = epoch + 1)
  BY <1>2, <1>3, <1>4, NothingCloses, PauseEnds DEF Quiet, Ends
<1>6. [p EXCEPT !.at = "finish", !.call = call.name] \in Pausers
  BY <1>2 DEF Pausers, Inv, Types, Calls
<1>7. Types'
  BY <1>1, <1>4, <1>6 DEF PauserStep, Inv, Types, Aside, channel, history, Becomes
<1>8. ASSUME S!BeginPause(p.epoch, MustAgree(p)), epoch = p.epoch,
             NEW r \in {[p EXCEPT !.at = "finish", !.call = call.name]}
      PROVE  PauserIsSound(r)'
  <2>1. r.epoch = epoch /\ r.at = "finish" /\ r.call = call.name
    BY <1>2, <1>8 DEF Pausers
  <2>2. call.name \in Attempts => start[call.name].epoch # 0 /\ start[call.name].epoch <= epoch
    BY DEF Inv, CallIsSound, StartIsSound
  <2>3. epoch < epoch' /\ epoch <= epoch' /\ start' = start
    BY <1>1, <1>5, <1>8, EpochTypes DEF Aside
  <2> QED
    BY <2>1, <2>2, <2>3 DEF PauserIsSound
<1>9. StopsAreSound'
  BY <1>1, <1>4, <1>5, <1>7, <1>8, BecomesKept DEF Aside
<1> QED
  BY <1>1, <1>5, <1>7, <1>9, UntouchedKept, AsideKept

\* A teardown task removes the call it noted, never that of a later start.
LEMMA PauserFinishesKept ==
  ASSUME Inv, NEW p \in pausers, PauserStep(p), PauserFinishes(p)
  PROVE  Kept
<1>1. /\ Aside /\ UNCHANGED channel /\ actors' = actors /\ overtaken' = overtaken
      /\ Becomes(p, {[p EXCEPT !.at = "teardown"]})
      /\ call' = call \/ (call' = NoCall /\ call.name = p.call)
  BY DEF PauserStep, PauserFinishes, Aside, history
<1>2. Quiet /\ epoch' = epoch
  BY NothingCloses DEF PauserFinishes, Quiet
<1>3. p \in Pausers /\ p.epoch < epoch /\ p.epoch \in Nat
  BY CallAssumption DEF Inv, Types, Pausers, StopsAreSound, PauserIsSound, PauserFinishes, S!Epochs
<1>4. [p EXCEPT !.at = "teardown"] \in Pausers
  BY <1>3 DEF Pausers
<1>5. Types'
  <2>1. NoCall \in Calls
    BY CallAssumption DEF NoCall, Calls, S!Epochs
  <2> QED
    BY <1>1, <1>4, <2>1 DEF PauserStep, Inv, Types, Aside, channel, history, Becomes
<1>6. StopsAreSound'
  <2> DEFINE q == [p EXCEPT !.at = "teardown"]
  <2>1. q.epoch = p.epoch /\ q.at = "teardown"
    BY <1>3 DEF Pausers
  <2> HIDE DEF q
  <2>2. PauserIsSound(q)'
    BY <1>2, <1>3, <2>1, EpochTypes DEF PauserIsSound
  <2>3. \A r \in {q} : PauserIsSound(r)'
    BY <2>2
  <2> QED
    BY <1>1, <1>2, <1>5, <2>3, BecomesKept DEF Aside, q
<1>7. ASSUME NEW b \in Attempts PROVE Bound(b)
  <2>1. Serves(b) /\ call.name = b => call.name # p.call
    BY <1>3, EpochTypes DEF Inv, StopsAreSound, PauserIsSound, PauserFinishes, Serves
  <2> QED
    BY <1>1, <2>1 DEF Inv, StartIsSound, Bound
<1> QED
  BY <1>1, <1>2, <1>5, <1>6, <1>7, UntouchedKept, AsideKept

\* No start has joined while the lock is free.
LEMMA UnlockedIsUnbound ==
  ASSUME Inv, lock \notin Attempts, NEW b \in Attempts
  PROVE  Bound(b) /\ start[b].at \notin Held
BY DEF Inv, LockIsHeld, Bound, Held, Begun

\* Under the lock a teardown task finds no start that has joined.
LEMMA PauserTearsDownKept ==
  ASSUME Inv, NEW p \in pausers, PauserStep(p), PauserTearsDown(p)
  PROVE  Kept
<1>1. /\ Aside /\ UNCHANGED channel /\ actors' = actors /\ overtaken' = overtaken
      /\ Becomes(p, {}) /\ call' \in {call, NoCall} /\ lock \notin Attempts
  BY CallAssumption DEF PauserStep, PauserTearsDown, Aside, history
<1>2. S!FailSafe \/ UNCHANGED session_vars
  BY DEF PauserTearsDown
<1>3. Quiet
  BY <1>2, NothingCloses, StopEnds DEF Quiet
<1>4. Types'
  <2>1. NoCall \in Calls
    BY CallAssumption DEF NoCall, Calls, S!Epochs
  <2> QED
    BY <1>1, <2>1 DEF PauserStep, Inv, Types, Aside, channel, history, Becomes
<1>5. StopsAreSound'
  BY <1>1, <1>3, <1>4, BecomesKept DEF Aside
<1>6. \A b \in Attempts : Bound(b)
  BY <1>1, UnlockedIsUnbound
<1> QED
  BY <1>1, <1>3, <1>4, <1>5, <1>6, UntouchedKept, AsideKept

-----------------------------------------------------------------------------
(* Starting, until the transition lock is taken, and after it is given up.  *)

\* reserve_start_if_unchanged moves the generation and leaves the epoch alone.
LEMMA ReserveCloses ==
  ASSUME Session, NEW g \in S!Generations, S!Reserve(g)
  PROVE  /\ SessionStep /\ Closes /\ generation' = generation + 1 /\ pending' = generation + 1
         /\ generation = g /\ media' = media
BY DEF SessionStep, Closes, S!Next, S!Starting, S!Reserve

\* A start that does not hold the lock moves; nothing else does.
LEMMA UnlockedKept ==
  ASSUME Inv, Types', SessionStep, Closes, NEW a \in Attempts, Only(a), StartIsSound(a)',
         call' = call, overtaken' = overtaken, actors' = actors, pausers' = pausers,
         leave' = leave, StartsKeep, LockIsHeld',
         \A b \in Attempts : Announced(b), media' # 0 => present' \subseteq attested \cup joining'
  PROVE  Kept
<1>1. Session' /\ Quiet /\ Moves
  BY SessionKept, QuietMoves DEF Inv, SessionStep, Quiet
<1>2. ASSUME NEW b \in Attempts \ {a} PROVE StartIsSound(b)'
  BY <1>1, StartKept, UntouchedKept DEF Inv, Only
<1>3. CallIsSound'
  BY <1>1, CallKept DEF Inv
<1>4. StopsAreSound'
  BY <1>1, StopsKept DEF Inv, Types, Closes
<1>5. ActorsAreSound' /\ GateIsSound'
  BY <1>1, UntouchedKept, GateKept DEF Inv
<1> QED
  BY <1>1, <1>2, <1>3, <1>4, <1>5 DEF Inv, Kept, Closes

\* The types of a start that moves.
LEMMA StartTypes ==
  ASSUME start \in Starts, NEW a \in Attempts, NEW at \in Steps, NEW gen \in S!Generations,
         NEW e \in S!Epochs, NEW roster \in SUBSET Users, NEW m \in S!Modes,
         start' = [start EXCEPT ![a] = [at |-> at, gen |-> gen, epoch |-> e, roster |-> roster,
                                        mode |-> m]]
  PROVE  /\ start' \in Starts /\ Only(a)
         /\ start'[a].at = at /\ start'[a].gen = gen /\ start'[a].epoch = e
         /\ start'[a].roster = roster /\ start'[a].mode = m
BY DEF Starts, Only

\* The fields of a start's state have their types.
LEMMA AttemptTypes ==
  ASSUME start \in Starts, NEW a \in Attempts
  PROVE  /\ start[a].at \in Steps /\ start[a].gen \in S!Generations
         /\ start[a].epoch \in S!Epochs /\ start[a].roster \in SUBSET Users
         /\ start[a].mode \in S!Modes /\ start[a].gen \in Nat /\ start[a].epoch \in Nat
BY CallAssumption DEF Starts, S!Generations, S!Epochs

\* Goto leaves all but where the start stands.
LEMMA GotoTypes ==
  ASSUME start \in Starts, NEW a \in Attempts, NEW at \in Steps, Goto(a, at)
  PROVE  /\ start' \in Starts /\ Only(a) /\ start'[a].at = at /\ start'[a].gen = start[a].gen
         /\ start'[a].epoch = start[a].epoch /\ start'[a].roster = start[a].roster
         /\ start'[a].mode = start[a].mode /\ StartsKeep
BY DEF Starts, Goto, Only, StartsKeep

\* So does a start that takes a token, or gives it up, or notes who is there.
WithToken(a, at, gen) == [start EXCEPT ![a].at = at, ![a].gen = gen]
LEMMA TokenTypes ==
  ASSUME start \in Starts, NEW a \in Attempts, NEW at \in Steps, NEW gen \in S!Generations,
         start' = WithToken(a, at, gen)
  PROVE  /\ start' \in Starts /\ Only(a) /\ start'[a].at = at /\ start'[a].gen = gen
         /\ start'[a].epoch = start[a].epoch
<1>1. start' = [start EXCEPT ![a] = [start[a] EXCEPT !.at = at, !.gen = gen]]
  BY DEF WithToken
<1>2. [start[a] EXCEPT !.at = at, !.gen = gen]
        \in [at : Steps, gen : S!Generations, epoch : S!Epochs, roster : SUBSET Users, mode : S!Modes]
  BY DEF Starts
<1> QED
  BY <1>1, <1>2 DEF Starts, Only
LEMMA RosterTypes ==
  ASSUME start \in Starts, NEW a \in Attempts, NEW at \in Steps, NEW roster \in SUBSET Users,
         start' = [start EXCEPT ![a].at = at, ![a].roster = roster]
  PROVE  /\ start' \in Starts /\ Only(a) /\ start'[a].at = at /\ start'[a].gen = start[a].gen
         /\ start'[a].epoch = start[a].epoch
<1>1. start' = [start EXCEPT ![a] = [start[a] EXCEPT !.at = at, !.roster = roster]]
  OBVIOUS
<1>2. [start[a] EXCEPT !.at = at, !.roster = roster]
        \in [at : Steps, gen : S!Generations, epoch : S!Epochs, roster : SUBSET Users, mode : S!Modes]
  BY DEF Starts
<1> QED
  BY <1>1, <1>2 DEF Starts, Only

\* /voice join takes a token before it awaits anything.
LEMMA RequestKept == ASSUME Inv, NEW a \in Attempts, RequestCommand(a) PROVE Kept
<1>1. SessionStep /\ Closes
  BY NothingCloses DEF RequestCommand
<1>2. /\ call' = call /\ overtaken' = overtaken /\ actors' = actors /\ pausers' = pausers
      /\ leave' = leave /\ lock' = lock /\ switch' = switch /\ UNCHANGED channel
      /\ events' = events /\ start[a].at = "idle" /\ UNCHANGED session_vars
      /\ start' = [start EXCEPT ![a].at = "requested", ![a].gen = generation]
  BY DEF RequestCommand, history, At
<1>3. generation \in S!Generations
  BY DEF Inv, Session, S!TypeOK
<1>4. /\ start' \in Starts /\ Only(a) /\ start'[a].at = "requested" /\ start'[a].gen = generation
      /\ start'[a].epoch = start[a].epoch
  <2>1. start' = WithToken(a, "requested", generation)
    BY <1>2 DEF WithToken
  <2>2. "requested" \in Steps /\ start \in Starts
    BY DEF Inv, Types, Steps, Before
  <2> QED
    BY <1>3, <2>1, <2>2, TokenTypes
<1>5. start[a].epoch = 0 /\ a \notin overtaken
  BY <1>2 DEF Inv, StartIsSound, Before
<1>6. Types'
  BY <1>2, <1>4 DEF Inv, Types, channel
<1>7. StartIsSound(a)'
  BY <1>2, <1>3, <1>4, <1>5, EpochTypes, CallAssumption
     DEF StartIsSound, Serves, Begun, Joined, Checked, Cleared, Reserved, Before, S!Generations
<1>8. LockIsHeld'
  BY <1>2, <1>4 DEF Inv, LockIsHeld, Only, Held, Begun, Joined, Checked, Cleared
<1>9. StartsKeep
  BY <1>4, <1>5 DEF StartsKeep, Only
<1> QED
  BY <1>1, <1>2, <1>4, <1>6, <1>7, <1>8, <1>9, UnlockedKept, UntouchedKept DEF Quiet

\* A start that gives up or is over owes nothing more.
LEMMA ReleasedIsSound ==
  ASSUME Session, Session', Types, Quiet, NEW a \in Attempts, StartIsSound(a),
         start'[a].at \in {"returning", "done"}, start'[a].gen = start[a].gen,
         start'[a].epoch = start[a].epoch, start'[a].roster = start[a].roster,
         start'[a].mode = start[a].mode, overtaken' = overtaken
  PROVE  StartIsSound(a)'
<1>1. /\ epoch \in Nat /\ generation \in Nat /\ epoch' \in Nat /\ generation' \in Nat
      /\ start[a].gen \in Nat /\ start[a].epoch \in Nat
  BY CallAssumption, AttemptTypes DEF Session, S!TypeOK, Types, S!Epochs, S!Generations
<1>2. epoch <= epoch' /\ generation <= generation'
  BY <1>1 DEF Quiet, Closes, Ends
<1>3. /\ start[a].gen <= generation /\ start[a].epoch <= epoch
      /\ a \in overtaken => start[a].gen < generation
      /\ Serves(a) => processing_mode = start[a].mode /\ attested = start[a].roster
  BY DEF StartIsSound
<1>4. Serves(a)' => Serves(a) /\ Closes
  BY <1>1, <1>3 DEF Quiet, Closes, Ends, Serves
<1>5. Serves(a)' => processing_mode' = start'[a].mode /\ attested' = start'[a].roster
  BY <1>3, <1>4 DEF Closes
<1> QED
  BY <1>1, <1>2, <1>3, <1>5
     DEF StartIsSound, Begun, Joined, Checked, Cleared, Reserved, Before

\* What the steps of a start that holds no lock leave alone.
Alone ==
  /\ call' = call /\ overtaken' = overtaken /\ actors' = actors /\ pausers' = pausers
  /\ leave' = leave /\ switch' = switch /\ events' = events /\ UNCHANGED channel

\* A start that is over clears what it left pending.
LEMMA FinishKept == ASSUME Inv, NEW a \in Attempts, Finish(a) PROVE Kept
<1>1. SessionStep /\ Closes
  BY NothingCloses, FinishCloses DEF Finish, Inv
<1>2. Alone /\ lock' = lock /\ Goto(a, "done") /\ start[a].at = "returning"
  BY DEF Finish, history, At, Alone
<1>3. /\ start' \in Starts /\ Only(a) /\ start'[a].at = "done" /\ start'[a].gen = start[a].gen
      /\ start'[a].epoch = start[a].epoch /\ start'[a].roster = start[a].roster
      /\ start'[a].mode = start[a].mode /\ StartsKeep
  BY <1>2, GotoTypes DEF Inv, Types, Steps
<1>4. Types'
  BY <1>2, <1>3 DEF Inv, Types, channel, Alone
<1>5. StartIsSound(a)'
  BY <1>1, <1>2, <1>3, ReleasedIsSound, SessionKept DEF Inv, Quiet, SessionStep, Alone
<1>6. LockIsHeld'
  BY <1>1, <1>2, <1>3
     DEF Inv, LockIsHeld, Only, Held, Begun, Joined, Checked, Cleared, Alone, Closes
<1> QED
  BY <1>1, <1>2, <1>3, <1>4, <1>5, <1>6, UnlockedKept, UntouchedKept DEF Quiet, Alone

\* A request that is refused leaves the runtime alone.
LEMMA RefusedKept == ASSUME Inv, NEW a \in Attempts, RequestRefused(a) PROVE Kept
<1>1. SessionStep /\ Closes
  BY NothingCloses DEF RequestRefused
<1>2. /\ Alone /\ lock' = lock /\ start[a].at = "requested" /\ UNCHANGED session_vars
      /\ start' = [start EXCEPT ![a].at = "returning", ![a].gen = 0]
  BY DEF RequestRefused, history, At, Alone
<1>3. /\ start' \in Starts /\ Only(a) /\ start'[a].at = "returning" /\ start'[a].gen = 0
      /\ start'[a].epoch = start[a].epoch
  <2>1. 0 \in S!Generations
    BY CallAssumption DEF S!Generations
  <2>2. start' = WithToken(a, "returning", 0)
    BY <1>2 DEF WithToken
  <2> QED
    BY <2>1, <2>2, TokenTypes DEF Inv, Types, Steps
<1>4. start[a].epoch = 0 /\ start[a].gen \in Nat /\ (a \in overtaken => start[a].gen < generation)
  BY <1>2, AttemptTypes DEF Inv, StartIsSound, Before, Types
<1>5. Types'
  BY <1>2, <1>3 DEF Inv, Types, channel, Alone
<1>6. generation \in Nat
  BY CallAssumption DEF Inv, Session, S!TypeOK, S!Generations
<1>7. StartIsSound(a)'
  BY <1>2, <1>3, <1>4, <1>6, EpochTypes
     DEF StartIsSound, Serves, Begun, Joined, Checked, Cleared, Reserved, Before, Alone
<1>8. LockIsHeld'
  BY <1>2, <1>3 DEF Inv, LockIsHeld, Only, Held, Begun, Joined, Checked, Cleared, Alone
<1>9. StartsKeep
  BY <1>3, <1>4 DEF StartsKeep, Only
<1> QED
  BY <1>1, <1>2, <1>3, <1>5, <1>7, <1>8, <1>9, UnlockedKept, UntouchedKept DEF Quiet, Alone

\* The upgrade reads the runtime and goes on or not.
LEMMA DecideKept == ASSUME Inv, NEW a \in Attempts, DecideUpgrade(a) PROVE Kept
<1>1. SessionStep /\ Closes
  BY NothingCloses DEF DecideUpgrade
<1>2. /\ Alone /\ lock' = lock /\ start[a].at = "upgrade" /\ UNCHANGED session_vars
      /\ \/ start' = [start EXCEPT ![a].at = "requested", ![a].roster = present]
         \/ Goto(a, "done")
  BY DEF DecideUpgrade, history, At, Alone
<1>3. /\ start' \in Starts /\ Only(a) /\ start'[a].at \in {"requested", "done"}
      /\ start'[a].gen = start[a].gen /\ start'[a].epoch = start[a].epoch
  <2>1. CASE start' = [start EXCEPT ![a].at = "requested", ![a].roster = present]
    BY <2>1, RosterTypes DEF Inv, Types, Steps, Before
  <2>2. CASE Goto(a, "done")
    BY <2>2, GotoTypes DEF Inv, Types, Steps
  <2> QED
    BY <1>2, <2>1, <2>2
<1>4. /\ start[a].epoch = 0 /\ start[a].gen \in Nat /\ start[a].gen <= generation
      /\ a \in overtaken => start[a].gen < generation
  BY <1>2, AttemptTypes DEF Inv, StartIsSound, Before, Types
<1>5. Types'
  BY <1>2, <1>3 DEF Inv, Types, channel, Alone
<1>6. StartIsSound(a)'
  BY <1>2, <1>3, <1>4, EpochTypes
     DEF StartIsSound, Serves, Begun, Joined, Checked, Cleared, Reserved, Before, Alone
<1>7. LockIsHeld'
  BY <1>2, <1>3 DEF Inv, LockIsHeld, Only, Held, Begun, Joined, Checked, Cleared, Alone
<1>8. StartsKeep
  BY <1>3, <1>4 DEF StartsKeep, Only
<1> QED
  BY <1>1, <1>2, <1>3, <1>5, <1>6, <1>7, <1>8, UnlockedKept, UntouchedKept DEF Quiet, Alone

\* A reserved start carries the mode selected when it was reserved.
LEMMA ReserveKept == ASSUME Inv, NEW a \in Attempts, Reserve(a) PROVE Kept
<1> DEFINE roster == IF a \in AutoAttempts THEN start[a].roster ELSE present
           usable == S!Coverage(roster, mode) /\ (a \in AutoAttempts => mode = "local")
<1>1. /\ Alone /\ lock' = lock /\ start[a].at = "requested" /\ S!Reserve(start[a].gen)
      /\ start' = [start EXCEPT ![a].at = IF usable THEN "preparing" ELSE "returning",
                                ![a].gen = generation + 1,
                                ![a].roster = roster, ![a].mode = mode]
  BY DEF Reserve, history, At, Alone
<1>2. roster \in SUBSET Users /\ start[a].gen \in S!Generations /\ start[a].gen \in Nat
  BY AttemptTypes DEF Inv, Types
<1>3. /\ SessionStep /\ Closes /\ generation' = generation + 1 /\ pending' = generation + 1
      /\ generation = start[a].gen /\ media' = media
  BY <1>1, <1>2, ReserveCloses DEF Inv
<1>4. Session' /\ generation' \in S!Generations /\ generation \in Nat /\ mode \in S!Modes
  BY <1>3, SessionKept, CallAssumption DEF Inv, SessionStep, Session, S!TypeOK, S!Generations
<1> HIDE DEF roster, usable
<1>5. /\ start' \in Starts /\ Only(a) /\ start'[a].at \in {"preparing", "returning"}
      /\ start'[a].gen = generation' /\ start'[a].epoch = start[a].epoch
      /\ start'[a].mode = mode
  BY <1>1, <1>2, <1>3, <1>4 DEF Inv, Types, Starts, Only, Steps, Before, Reserved
<1>6. start[a].epoch = 0 /\ a \notin overtaken
  BY <1>1, <1>2, <1>3 DEF Inv, StartIsSound, Before
<1>7. Types'
  BY <1>1, <1>5 DEF Inv, Types, channel, Alone
<1>8. StartIsSound(a)'
  BY <1>1, <1>3, <1>4, <1>5, <1>6, EpochTypes
     DEF StartIsSound, Serves, Begun, Joined, Checked, Cleared, Reserved, Before, Alone, Closes
<1>9. LockIsHeld'
  BY <1>1, <1>3, <1>5
     DEF Inv, LockIsHeld, Only, Held, Begun, Joined, Checked, Cleared, Alone, Closes
<1>10. StartsKeep
  BY <1>5, <1>6 DEF StartsKeep, Only
<1> QED
  BY <1>1, <1>3, <1>5, <1>7, <1>8, <1>9, <1>10, UnlockedKept, UntouchedKept DEF Quiet, Alone

\* A prepared start takes the free lock, or gives up.
LEMMA PrepareKept == ASSUME Inv, NEW a \in Attempts, Prepare(a) PROVE Kept
<1>1. SessionStep /\ Closes
  BY NothingCloses DEF Prepare
<1>2. /\ Alone /\ start[a].at = "preparing" /\ UNCHANGED session_vars
      /\ \/ Goto(a, "returning") /\ lock' = lock
         \/ Goto(a, "locked") /\ lock = NoAttempt /\ lock' = a
  BY DEF Prepare, history, At, Alone
<1>3. /\ start' \in Starts /\ Only(a) /\ start'[a].at \in {"returning", "locked"}
      /\ start'[a].gen = start[a].gen /\ start'[a].mode = start[a].mode
      /\ start'[a].epoch = start[a].epoch /\ StartsKeep
      /\ Goto(a, "returning") => start'[a].at = "returning"
  BY <1>2, GotoTypes DEF Inv, Types, Steps, Before, Reserved
<1>4. start[a].epoch = 0
  BY <1>2 DEF Inv, StartIsSound, Before, Reserved
<1>5. Types'
  BY <1>2, <1>3 DEF Inv, Types, channel, Alone
<1>6. StartIsSound(a)'
  BY <1>2, <1>3, <1>4, EpochTypes
     DEF Inv, StartIsSound, Serves, Begun, Joined, Checked, Cleared, Reserved, Before, Alone
<1>7. LockIsHeld'
  <2>1. \A b \in Attempts : start[b].at \in Held => lock = b
    BY DEF Inv, LockIsHeld
  <2>2. \A b \in Attempts : start'[b].at \in Held => lock' = b
    BY <1>2, <1>3, <2>1, CallAssumption DEF Only, Held, Begun, Joined, Checked, Cleared
  <2> QED
    BY <1>2, <2>2, CallAssumption DEF Inv, LockIsHeld, Alone
<1> QED
  BY <1>1, <1>2, <1>3, <1>5, <1>6, <1>7, UnlockedKept, UntouchedKept DEF Quiet, Alone

-----------------------------------------------------------------------------
\* on_voice_state_update takes a join payload: whoever it announces is attested, or
\* the gate is closed, or nobody can be heard.
LEMMA JoinHandlerKept == ASSUME Inv, NEW u \in Users, JoinHandler(u) PROVE Kept
<1>1. /\ call' = call /\ overtaken' = overtaken /\ actors' = actors /\ leave' = leave
      /\ switch' = switch /\ events' = events /\ lock' = lock /\ present' = present
      /\ joining' = joining \ {u}
  BY DEF JoinHandler, history
<1>2. CASE /\ phase = "presence_only" /\ UNCHANGED <<session_vars, pausers>>
           /\ \E a \in AutoAttempts :
                /\ At(a, "idle")
                /\ start' = [start EXCEPT ![a].at = "upgrade", ![a].gen = generation]
  <2>1. SessionStep /\ Closes
    BY <1>2, NothingCloses
  <2>2. PICK a \in Attempts :
          /\ start[a].at = "idle"
          /\ start' = [start EXCEPT ![a].at = "upgrade", ![a].gen = generation]
    BY <1>2, CallAssumption DEF AutoAttempts, At, Inv, Types
  <2>3. generation \in S!Generations /\ generation \in Nat
    BY CallAssumption DEF Inv, Session, S!TypeOK, S!Generations
  <2>4. /\ start' \in Starts /\ Only(a) /\ start'[a].at = "upgrade"
        /\ start'[a].gen = generation /\ start'[a].epoch = start[a].epoch
    <3>1. "upgrade" \in Steps /\ start \in Starts
      BY DEF Inv, Types, Steps, Before
    <3>2. start' = WithToken(a, "upgrade", generation)
      BY <2>2 DEF WithToken
    <3> QED
      BY <2>3, <3>1, <3>2, TokenTypes
  <2>5. start[a].epoch = 0 /\ a \notin overtaken
    BY <2>2 DEF Inv, StartIsSound, Before
  <2>6. Types'
    BY <1>1, <1>2, <2>4 DEF Inv, Types
  <2>7. StartIsSound(a)'
    BY <1>1, <1>2, <2>3, <2>4, <2>5, EpochTypes
       DEF StartIsSound, Serves, Begun, Joined, Checked, Cleared, Reserved, Before
  <2>8. LockIsHeld'
    BY <1>1, <1>2, <2>4 DEF Inv, LockIsHeld, Only, Held, Begun, Joined, Checked, Cleared
  <2>9. StartsKeep
    BY <2>4, <2>5 DEF StartsKeep, Only
  <2>10. \A b \in Attempts : Announced(b)
    BY <1>2 DEF Inv, StartIsSound, Announced, Begun, Joined, Checked
  <2>11. media = 0
    BY <1>2 DEF Inv, Session, S!ConsentGate, S!Audio
  <2> QED
    BY <1>1, <1>2, <2>1, <2>4, <2>6, <2>7, <2>8, <2>9, <2>10, <2>11, UnlockedKept
<1>3. ASSUME start' = start, phase \in S!Live, u \notin attested,
             S!RevokeForUnattestedParticipant(u),
             pausers' = pausers \cup {Pauser("join", epoch, u)}
      PROVE  Kept
  <2>1. Quiet /\ Aside /\ media' = 0
    BY <1>1, <1>3 DEF Quiet, SessionStep, Closes, S!Next, S!Closing, Aside,
       S!RevokeForUnattestedParticipant, S!CloseMedia, S!CancelStarts
  <2>2. pausers' \subseteq Pausers
    BY <1>3, PauserTypes, EpochTypes DEF Inv
  <2>3. Types'
    BY <1>1, <1>3, <2>2 DEF Inv, Types
  <2>4. StopsAreSound'
    BY <1>1, <1>3, <2>1, <2>3, NewPauserKept, EpochTypes
  <2>5. \A b \in Attempts : Announced(b)
    BY <1>3 DEF Announced, Current, S!StartIsCurrent, S!RevokeForUnattestedParticipant,
       S!CloseMedia, S!CancelStarts
  <2> QED
    BY <1>1, <2>1, <2>3, <2>4, <2>5, UntouchedKept, AsideKept
<1>4. ASSUME start' = start, phase \notin S!Live \/ u \in attested,
             UNCHANGED <<session_vars, pausers>>
      PROVE  Kept
  <2>1. Quiet /\ Aside
    BY <1>1, <1>4, NothingCloses DEF Quiet, Aside
  <2>2. Types'
    BY <1>1, <1>4 DEF Inv, Types
  <2>3. \A b \in Attempts : Announced(b)
    BY <1>1, <1>4 DEF Inv, StartIsSound, Announced, Begun, Joined, Checked, S!Live
  <2>4. media' # 0 => present' \subseteq attested \cup joining'
    BY <1>1, <1>4 DEF Inv, GateIsSound, NobodyUnannounced, Session, S!ConsentGate, S!Live
  <2> QED
    BY <1>1, <1>4, <2>1, <2>2, <2>3, <2>4, UntouchedKept, AsideKept
<1> QED
  BY <1>2, <1>3, <1>4 DEF JoinHandler, S!Live, S!Audio

-----------------------------------------------------------------------------
(* Leaving.                                                                  *)

\* Leaving overtakes the start whose call it takes.
LEMMA LeaveKept == ASSUME Inv, Leave PROVE Kept
<1>1. SessionStep /\ Closes /\ Quiet /\ generation' = generation + 1
  BY CancelCloses DEF Leave, Quiet
<1>2. /\ call' = call /\ UNCHANGED channel /\ start' = start /\ lock' = lock
      /\ pausers' = pausers /\ actors' = actors /\ switch' = switch
      /\ overtaken' = overtaken \cup UnderWay
      /\ leave' = [at |-> "leaving", call |-> call.name]
  BY DEF Leave
<1>3. Session'
  BY <1>1, SessionKept DEF Inv, SessionStep
<1>4. Types'
  <2>1. events' \in [so_far : Nat, bound : Bounds]
    BY HappensTypes DEF Leave, Inv, Types
  <2>2. call.name \in Attempts \cup {NoAttempt}
    BY DEF Inv, Types, Calls
  <2> QED
    BY <1>2, <2>1, <2>2 DEF Inv, Types, channel, UnderWay
<1>5. LockIsHeld'
  BY <1>1, <1>2 DEF Inv, LockIsHeld, Closes
<1>6. ASSUME NEW b \in Attempts PROVE StartIsSound(b)'
  BY <1>1, <1>2, <1>3, StartKept, UntouchedKept DEF Inv
<1>7. CallIsSound'
  BY <1>1, <1>2, CallKept, QuietMoves DEF Inv, StartsKeep
<1>8. ActorsAreSound' /\ GateIsSound'
  BY <1>1, <1>2, UntouchedKept, GateKept DEF Inv
<1>9. StopsAreSound'
  <2>1. ASSUME call.name \in Attempts
        PROVE  start[call.name].epoch # 0 /\ start[call.name].gen < generation'
    <3>1. start[call.name].gen \in Nat /\ generation \in Nat
      BY <2>1, AttemptTypes, CallAssumption DEF Inv, Types, Session, S!TypeOK, S!Generations
    <3>2. start[call.name].gen <= generation /\ start[call.name].epoch # 0
      BY <2>1 DEF Inv, StartIsSound, CallIsSound
    <3> QED
      BY <1>1, <3>1, <3>2
  <2>2. \A p \in pausers : PauserIsSound(p)'
    BY <1>1, <1>2 DEF Inv, StopsAreSound, PauserIsSound, Closes
  <2> QED
    BY <1>2, <2>1, <2>2 DEF StopsAreSound
<1> QED
  BY <1>1, <1>3, <1>4, <1>5, <1>6, <1>7, <1>8, <1>9 DEF Inv, Kept, Closes

\* The lock a start does not hold may change hands.
LEMMA HandedOverKept ==
  ASSUME Inv, Types', Quiet, start' = start, lock \notin Attempts, LockIsHeld',
         StopsAreSound', actors' = actors, overtaken' = overtaken, UNCHANGED channel,
         call' \in {call, NoCall}
  PROVE  Kept
<1>1. Session'
  BY SessionKept DEF Inv, Quiet, SessionStep
<1>2. ASSUME NEW b \in Attempts PROVE StartIsSound(b)'
  BY <1>1, StartKept, UntouchedKept, UnlockedIsUnbound DEF Inv
<1>3. CallIsSound'
  BY CallKept, QuietMoves DEF Inv, StartsKeep, Quiet
<1>4. ActorsAreSound' /\ GateIsSound'
  BY UntouchedKept, GateKept DEF Inv, Quiet
<1> QED
  BY <1>1, <1>2, <1>3, <1>4 DEF Inv, Kept, Quiet, Closes, Ends

\* A leave that is past taking the call owes nothing to it.
LEMMA LeftKept ==
  ASSUME Inv, Quiet, start' = start, pausers' = pausers, leave'.at # "leaving"
  PROVE  StopsAreSound'
<1>1. epoch \in Nat /\ epoch' \in Nat /\ epoch <= epoch'
  BY EpochTypes DEF Quiet, Closes, Ends
<1>2. \A p \in pausers : p.epoch \in Nat
  BY CallAssumption DEF Inv, Types, Pausers, S!Epochs
<1> QED
  BY <1>1, <1>2 DEF Inv, StopsAreSound, PauserIsSound

\* Each stretch of the leave, up to giving the lock back.
LEMMA LeaveStepKept == ASSUME Inv, TakeLeaveStep PROVE Kept
<1>1. /\ start' = start /\ pausers' = pausers /\ actors' = actors /\ switch' = switch
      /\ overtaken' = overtaken /\ events' = events /\ UNCHANGED channel
  BY DEF TakeLeaveStep, history
<1>2. NoCall \in Calls
  BY CallAssumption DEF NoCall, Calls, S!Epochs
<1>3. ASSUME leave.at = "leaving", leave' = [leave EXCEPT !.at = "left"],
             call' = (IF call.name = leave.call THEN NoCall ELSE call),
             UNCHANGED <<session_vars, lock>>
      PROVE  Kept
  <2>1. Quiet /\ generation' = generation
    BY <1>3, NothingCloses DEF Quiet
  <2>2. leave' \in [at : {"idle", "leaving", "left", "removing", "done"},
                    call : Attempts \cup {NoAttempt}] /\ leave'.at = "left"
    BY <1>3 DEF Inv, Types
  <2>3. Types'
    BY <1>1, <1>2, <1>3, <2>2 DEF Inv, Types, channel
  <2>4. StopsAreSound'
    BY <1>1, <2>1, <2>2, LeftKept
  <2>5. ASSUME NEW b \in Attempts PROVE Bound(b)
    <3>1. generation \in Nat /\ start[b].gen \in Nat
      BY AttemptTypes, CallAssumption DEF Inv, Types, Session, S!TypeOK, S!Generations
    <3>2. Current(b) => start[b].gen = generation
      BY DEF Current, S!StartIsCurrent
    <3>3. leave.call = b => start[b].gen < generation
      BY <1>3 DEF Inv, StopsAreSound
    <3> QED
      BY <1>3, <3>1, <3>2, <3>3 DEF Inv, StartIsSound, Bound
  <2>6. Session'
    BY <2>1, SessionKept DEF Inv, Quiet, SessionStep
  <2>7. ASSUME NEW b \in Attempts PROVE StartIsSound(b)'
    BY <1>1, <2>1, <2>5, <2>6, StartKept, UntouchedKept DEF Inv
  <2>8. CallIsSound'
    BY <1>1, <1>3, <2>1, CallKept, QuietMoves DEF Inv, StartsKeep, Quiet
  <2>9. ActorsAreSound' /\ GateIsSound'
    BY <1>1, <1>3, <2>1, UntouchedKept, GateKept DEF Inv, Quiet
  <2>10. LockIsHeld'
    BY <1>1, <1>3, <2>2 DEF Inv, LockIsHeld
  <2> QED
    BY <2>1, <2>3, <2>4, <2>6, <2>7, <2>8, <2>9, <2>10 DEF Inv, Kept, Quiet, Closes, Ends
<1>4. ASSUME lock = NoAttempt, lock' = "leave", S!Disconnect,
             leave' = [leave EXCEPT !.at = "removing"], call' = call
      PROVE  Kept
  <2>1. Quiet /\ lock \notin Attempts
    BY <1>4, StopEnds, CallAssumption DEF Quiet
  <2>2. leave' \in [at : {"idle", "leaving", "left", "removing", "done"},
                    call : Attempts \cup {NoAttempt}] /\ leave'.at = "removing"
    BY <1>4 DEF Inv, Types
  <2>3. Types'
    BY <1>1, <1>4, <2>2 DEF Inv, Types, channel
  <2>4. StopsAreSound'
    BY <1>1, <2>1, <2>2, LeftKept
  <2>5. switch = "idle"
    BY <1>4, CallAssumption DEF Inv, LockIsHeld
  <2>6. LockIsHeld'
    BY <1>1, <1>4, <2>1, <2>5, UnlockedIsUnbound DEF Inv, LockIsHeld
  <2> QED
    BY <1>1, <1>4, <2>1, <2>3, <2>4, <2>6, HandedOverKept
<1>5. ASSUME leave.at = "removing", call' = NoCall, lock' = NoAttempt,
             leave' = [leave EXCEPT !.at = "done"], S!BeginDraining \/ UNCHANGED session_vars
      PROVE  Kept
  <2>1. Quiet /\ lock = "leave" /\ lock \notin Attempts
    BY <1>5, CancelCloses, NothingCloses, CallAssumption DEF Quiet, Inv, LockIsHeld
  <2>2. leave' \in [at : {"idle", "leaving", "left", "removing", "done"},
                    call : Attempts \cup {NoAttempt}] /\ leave'.at = "done"
    BY <1>5 DEF Inv, Types
  <2>3. Types'
    BY <1>1, <1>2, <1>5, <2>2 DEF Inv, Types, channel
  <2>4. StopsAreSound'
    BY <1>1, <2>1, <2>2, LeftKept
  <2>5. switch = "idle"
    BY <2>1 DEF Inv, LockIsHeld
  <2>6. LockIsHeld'
    BY <1>1, <1>5, <2>1, <2>2, <2>5, UnlockedIsUnbound DEF Inv, LockIsHeld
  <2> QED
    BY <1>1, <1>5, <2>1, <2>3, <2>4, <2>6, HandedOverKept
<1> QED
  BY <1>3, <1>4, <1>5 DEF TakeLeaveStep, LeaveStep

-----------------------------------------------------------------------------
(* /voice mode.                                                              *)

\* The switch takes the free lock with the phase it read.
LEMMA SwitchReadsKept == ASSUME Inv, SwitchReads PROVE Kept
<1>1. /\ start' = start /\ pausers' = pausers /\ actors' = actors /\ leave' = leave
      /\ overtaken' = overtaken /\ UNCHANGED channel /\ call' = call
      /\ lock = NoAttempt /\ lock' = "switch" /\ switch' = phase /\ UNCHANGED session_vars
  BY DEF SwitchReads
<1>2. Quiet /\ lock \notin Attempts
  BY <1>1, NothingCloses, CallAssumption DEF Quiet
<1>3. Types'
  <2>1. events' \in [so_far : Nat, bound : Bounds]
    BY HappensTypes DEF SwitchReads, Inv, Types
  <2>2. phase \in S!Phases
    BY DEF Inv, Session, S!TypeOK
  <2> QED
    BY <1>1, <2>1, <2>2 DEF Inv, Types, channel
<1>4. LockIsHeld'
  <2>1. leave.at # "removing"
    BY <1>1, CallAssumption DEF Inv, LockIsHeld
  <2>2. phase \in S!Idle => phase \notin S!Live
    BY DEF S!Idle, S!Live, S!Audio
  <2> QED
    BY <1>1, <1>2, <2>1, <2>2, UnlockedIsUnbound DEF LockIsHeld
<1>5. StopsAreSound'
  BY <1>1, <1>2, UntouchedKept
<1> QED
  BY <1>1, <1>2, <1>3, <1>4, <1>5, HandedOverKept

\* The mode changes only when no start holds the lock, none is pending and nobody is
\* heard, so it is nobody's announced mode.
LEMMA SwitchWritesKept == ASSUME Inv, SwitchWrites PROVE Kept
<1>1. /\ start' = start /\ pausers' = pausers /\ actors' = actors /\ leave' = leave
      /\ overtaken' = overtaken /\ UNCHANGED channel /\ call' = call /\ events' = events
      /\ lock = "switch" /\ lock' = NoAttempt /\ switch # "idle" /\ switch' = "idle"
  BY DEF SwitchWrites, history
<1>2. lock \notin Attempts
  BY <1>1, CallAssumption
<1>3. Types'
  BY <1>1 DEF Inv, Types, channel
<1>4. LockIsHeld'
  <2>1. leave.at # "removing"
    BY <1>1 DEF Inv, LockIsHeld
  <2> QED
    BY <1>1, <1>2, <2>1, UnlockedIsUnbound DEF LockIsHeld
<1>5. CASE UNCHANGED session_vars
  <2>1. Quiet
    BY <1>5, NothingCloses DEF Quiet
  <2> QED
    BY <1>1, <1>2, <1>3, <1>4, <2>1, HandedOverKept, UntouchedKept
<1>6. ASSUME NEW m \in S!Modes, S!SwitchEffectiveMode(m, switch)
      PROVE  Kept
  <2>1. SessionStep /\ pending = 0 /\ media = 0 /\ pending' = 0 /\ media' = 0
        /\ UNCHANGED <<epoch, phase, processing_mode, attested, current, generation>>
    <3>1. switch \in S!Phases /\ phase \notin S!Live
      BY <1>1, <1>6 DEF Inv, LockIsHeld, Types, S!SwitchEffectiveMode
    <3> QED
      BY <1>6, <3>1 DEF SessionStep, S!Next, S!Choosing, S!SwitchEffectiveMode
  <2>2. Session'
    BY <2>1, SessionKept DEF Inv, SessionStep
  <2>3. ASSUME NEW b \in Attempts PROVE StartIsSound(b)'
    <3>1. start[b].at \notin Held
      BY <1>2, UnlockedIsUnbound
    <3>2. start[b].at \notin Begun \cup Cleared /\ start[b].at # "beginning"
          /\ start[b].at \notin Checked /\ start[b].at \notin Joined /\ start[b].at # "activating"
      BY <3>1 DEF Held, Begun, Joined, Checked, Cleared
    <3> QED
      BY <1>1, <2>1, <3>2 DEF Inv, StartIsSound, Serves
  <2>4. CallIsSound' /\ StopsAreSound' /\ ActorsAreSound' /\ GateIsSound'
    BY <1>1, <2>1 DEF Inv, CallIsSound, StopsAreSound, PauserIsSound, ActorsAreSound,
       GateIsSound, NobodyUnannounced, CallIsBound
  <2> QED
    BY <1>3, <1>4, <2>1, <2>2, <2>3, <2>4 DEF Inv, Kept
<1> QED
  BY <1>5, <1>6 DEF SwitchWrites

-----------------------------------------------------------------------------
(* The actor of an epoch.                                                    *)

ActorStates == {"none", "running", "heard", "failing", "withdrawing", "leaving", "gone"}

\* One actor moves.
LEMMA ActorTypes ==
  ASSUME Types, NEW e \in S!Epochs, NEW to \in ActorStates, actors' = [actors EXCEPT ![e] = to]
  PROVE  /\ actors' \in [S!Epochs -> ActorStates] /\ actors'[e] = to
         /\ \A d \in S!Epochs : d # e => actors'[d] = actors[d]
BY DEF Types, ActorStates

\* A status report moves the phase within audio.
LEMMA ActorReportsKept ==
  ASSUME Inv, NEW e \in S!Epochs, ActorStep(e), NEW p \in S!Audio, ActorReports(e, p)
  PROVE  Kept
<1>1. /\ start' = start /\ lock' = lock /\ leave' = leave /\ switch' = switch
      /\ UNCHANGED channel /\ call' = call /\ actors' = actors /\ pausers' = pausers
      /\ overtaken' = overtaken /\ events' = events
  BY DEF ActorStep, ActorReports, history
<1>2. phase \in S!Audio
  BY DEF Inv, ActorsAreSound, ActorReports, S!IsCurrent
<1>3. /\ SessionStep /\ phase' \in S!Audio
      /\ UNCHANGED <<epoch, processing_mode, media, generation, pending, draining, mode,
                     attested, current>>
  BY <1>2 DEF ActorReports, SessionStep, S!Next, S!Choosing, S!SetStatus
<1>4. Session'
  BY <1>3, SessionKept DEF Inv, SessionStep
<1>5. Types'
  BY <1>1 DEF Inv, Types, channel
<1>6. phase # "connecting" /\ phase \in S!Live /\ phase' \in S!Live
  BY <1>2, <1>3 DEF S!Audio, S!Live
<1>7. LockIsHeld'
  BY <1>1, <1>6 DEF Inv, LockIsHeld
<1>8. ASSUME NEW b \in Attempts PROVE StartIsSound(b)'
  BY <1>1, <1>3, <1>6 DEF Inv, StartIsSound, Serves, Current, S!StartIsCurrent, channel
<1>9. CallIsSound' /\ StopsAreSound' /\ ActorsAreSound' /\ GateIsSound'
  BY <1>1, <1>3, <1>6 DEF Inv, CallIsSound, StopsAreSound, PauserIsSound, ActorsAreSound,
     GateIsSound, NobodyUnannounced, CallIsBound, channel
<1> QED
  BY <1>3, <1>4, <1>5, <1>7, <1>8, <1>9 DEF Inv, Kept

\* A failing actor closes its own gate.
LEMMA ActorFailsKept ==
  ASSUME Inv, NEW e \in S!Epochs, ActorStep(e), ActorFails(e)
  PROVE  Kept
<1>1. /\ Aside /\ UNCHANGED channel /\ call' = call /\ pausers' = pausers
      /\ overtaken' = overtaken /\ actors' = [actors EXCEPT ![e] = "failing"]
      /\ actors[e] \in {"running", "heard"}
  BY DEF ActorStep, ActorFails, Aside, Conversing
<1>2. Quiet
  BY NothingCloses DEF ActorFails, Quiet, SessionStep, Closes, S!Next, S!Closing, S!RevokeMedia
<1>3. /\ actors' \in [S!Epochs -> ActorStates] /\ actors'[e] = "failing"
      /\ \A d \in S!Epochs : d # e => actors'[d] = actors[d]
  BY <1>1, ActorTypes DEF Inv, ActorStates
<1>4. Types'
  BY <1>1, <1>3, HappensTypes DEF ActorFails, Inv, Types, Aside, channel, ActorStates
<1>5. ActorsAreSound'
  BY <1>1, <1>2, <1>3, ActorsKept, QuietMoves DEF Inv, Quiet
<1> QED
  BY <1>1, <1>2, <1>4, <1>5, UntouchedKept, AsideKept DEF Aside

\* A spoken withdrawal overtakes every start under way.
LEMMA HearsWithdrawalKept ==
  ASSUME Inv, NEW e \in S!Epochs, ActorStep(e), NEW u \in Users, HearsWithdrawal(e, u)
  PROVE  Kept
<1>1. /\ Aside /\ UNCHANGED channel /\ call' = call /\ pausers' = pausers
      /\ overtaken' = overtaken \cup UnderWay
      /\ actors' = [actors EXCEPT ![e] = "withdrawing"] /\ actors[e] = "heard"
      /\ S!ChangeConsent(u, "withdraw", TRUE)
  BY DEF ActorStep, HearsWithdrawal, Aside
<1>2. Quiet /\ generation' = generation + 1
  <2>1. S!Stops(u, "withdraw", TRUE)
    BY DEF S!Stops
  <2> QED
    BY <1>1, <2>1, ConsentCloses DEF Quiet
<1>3. /\ actors' \in [S!Epochs -> ActorStates] /\ actors'[e] = "withdrawing"
      /\ \A d \in S!Epochs : d # e => actors'[d] = actors[d]
  BY <1>1, ActorTypes DEF Inv, ActorStates
<1>4. Types'
  BY <1>1, <1>3, HappensTypes DEF HearsWithdrawal, Inv, Types, Aside, channel, ActorStates, UnderWay
<1>5. ActorsAreSound'
  BY <1>1, <1>2, <1>3, ActorsKept, QuietMoves DEF Inv, Quiet
<1> QED
  BY <1>1, <1>2, <1>4, <1>5, UntouchedKept, AsideKept DEF Aside

\* An actor that stops ends its epoch before it removes the call of that epoch.
LEMMA ActorEndsKept ==
  ASSUME Inv, NEW e \in S!Epochs, ActorStep(e), ActorEnds(e)
  PROVE  Kept
<1>1. /\ Aside /\ UNCHANGED channel /\ pausers' = pausers /\ overtaken' = overtaken
      /\ events' = events
  BY DEF ActorStep, ActorEnds, Aside, history
<1>2. NoCall \in Calls /\ e \in Nat
  BY CallAssumption DEF NoCall, Calls, S!Epochs
<1>3. ASSUME actors' = [actors EXCEPT ![e] = "leaving"],
             actors[e] \in {"failing", "withdrawing"}, call' = call,
             IF ~S!IsCurrent(e) THEN UNCHANGED session_vars
             ELSE IF actors[e] = "failing" THEN S!ActorStop(e, "failed")
             ELSE S!ActorStop(e, "awaiting_consent")
      PROVE  Kept
  <2>1. \/ UNCHANGED session_vars /\ epoch # e
        \/ S!ActorStop(e, "failed") /\ epoch = e
        \/ S!ActorStop(e, "awaiting_consent") /\ epoch = e
    BY <1>3 DEF S!IsCurrent
  <2>2. /\ Quiet /\ (epoch = e => epoch' = epoch + 1)
        /\ epoch # e => epoch' = epoch
    <3>1. ASSUME NEW p \in {"failed", "awaiting_consent"}, S!ActorStop(e, p)
          PROVE  SessionStep /\ Ends
      BY <3>1, PauseEnds, EmptyRoom
    <3> QED
      BY <2>1, <3>1, NothingCloses DEF Quiet, Ends
  <2>3. /\ actors' \in [S!Epochs -> ActorStates] /\ actors'[e] = "leaving"
        /\ \A d \in S!Epochs : d # e => actors'[d] = actors[d]
    BY <1>3, ActorTypes DEF Inv, ActorStates
  <2>4. Types'
    BY <1>1, <1>3, <2>3 DEF Inv, Types, Aside, channel, ActorStates
  <2>5. ActorsAreSound'
    <3>1. e <= epoch /\ epoch \in Nat
      BY <1>3, EpochTypes DEF Inv, ActorsAreSound
    <3>2. e < epoch' /\ Moves
      BY <1>2, <2>2, <3>1, QuietMoves DEF Quiet
    <3>3. \A d \in S!Epochs : d \in Nat
      BY CallAssumption DEF S!Epochs
    <3> QED
      BY <1>2, <2>3, <3>1, <3>2, <3>3 DEF Inv, ActorsAreSound, Moves
  <2> QED
    BY <1>1, <1>3, <2>2, <2>4, <2>5, UntouchedKept, AsideKept DEF Aside
<1>4. ASSUME actors[e] \in {"leaving", "running", "heard"}, actors' = [actors EXCEPT ![e] = "gone"],
             UNCHANGED session_vars,
             call' = call \/ (actors[e] = "leaving" /\ call.epoch = e /\ call' = NoCall)
      PROVE  Kept
  <2>1. Quiet
    BY <1>4, NothingCloses DEF Quiet
  <2>2. /\ actors' \in [S!Epochs -> ActorStates] /\ actors'[e] = "gone"
        /\ \A d \in S!Epochs : d # e => actors'[d] = actors[d]
    BY <1>4, ActorTypes DEF Inv, ActorStates
  <2>3. Types'
    BY <1>1, <1>2, <1>4, <2>2 DEF Inv, Types, Aside, channel, ActorStates
  <2>4. ActorsAreSound'
    BY <1>4, <2>1, <2>2, ActorsKept, QuietMoves DEF Inv, Quiet
  <2>5. ASSUME NEW b \in Attempts PROVE Bound(b)
    <3>1. actors[e] = "leaving" => e < epoch
      BY DEF Inv, ActorsAreSound
    <3>2. Serves(b) /\ call.name = b => call.epoch = epoch
      BY DEF Inv, CallIsSound, Serves
    <3> QED
      BY <1>2, <1>4, <3>1, <3>2, EpochTypes DEF Inv, StartIsSound, Bound
  <2> QED
    BY <1>1, <1>4, <2>1, <2>3, <2>4, <2>5, UntouchedKept, AsideKept DEF Aside
<1> QED
  BY <1>3, <1>4 DEF ActorEnds, Actor

-----------------------------------------------------------------------------
(* Starting, under the transition lock.                                      *)

\* Only the holder has begun to replace the call; what it does others do not see.
LEMMA LockedKept ==
  ASSUME Inv, Types', SessionStep, Moves, NEW a \in Attempts, NEW step \in Held,
         Locked(a, step), Only(a), lock' \in {a, NoAttempt}, start'[a].at \in Held => lock' = a,
         generation' \in {generation, generation + 1}, pending' \in {pending, 0}, mode' = mode,
         epoch' = epoch => UNCHANGED <<processing_mode, attested>>, StartsKeep,
         StartIsSound(a)', CallIsSound', ActorsAreSound', GateIsSound',
         media' \in {media, 0} \/ a \notin overtaken
  PROVE  Kept
<1>1. /\ lock = a /\ pausers' = pausers /\ leave' = leave /\ switch' = switch
      /\ overtaken' = overtaken
  BY DEF Locked
<1>2. Session'
  BY SessionKept DEF Inv, SessionStep
<1>3. ASSUME NEW b \in Attempts \ {a}
      PROVE  start[b].at \notin Held /\ start'[b] = start[b] /\ StartIsSound(b)'
  <2>1. start[b].at \notin Held /\ start'[b] = start[b]
    BY <1>1 DEF Inv, LockIsHeld, Only
  <2> QED
    BY <1>1, <1>2, <2>1, BystanderKept DEF Inv
<1>4. LockIsHeld'
  <2>1. leave.at # "removing" /\ switch = "idle"
    BY <1>1, CallAssumption DEF Inv, LockIsHeld
  <2>2. \A b \in Attempts : start'[b].at \in Held => lock' = b
    BY <1>3
  <2> QED
    BY <1>1, <2>1, <2>2 DEF LockIsHeld
<1>5. StopsAreSound'
  BY <1>1, StopsKept DEF Inv, Types
<1> QED
  BY <1>1, <1>2, <1>3, <1>4, <1>5 DEF Inv, Kept

\* The runtime is stopped or left as it is, and the lock is given up.
GivesUp(a) ==
  /\ Quiet /\ Release(a) /\ call' \in {call, NoCall} /\ actors' = actors
  /\ events' = events \/ Happens("refuse")

\* A start that gives up leaves the call removed or as it was, and the lock free.
LEMMA GivesUpKept ==
  ASSUME Inv, NEW a \in Attempts, NEW step \in Held, Locked(a, step), GivesUp(a), pending' \in {pending, 0}
  PROVE  Kept
<1>1. /\ start' \in Starts /\ Only(a) /\ start'[a].at = "returning"
      /\ start'[a].gen = start[a].gen /\ start'[a].epoch = start[a].epoch
      /\ start'[a].roster = start[a].roster /\ start'[a].mode = start[a].mode /\ StartsKeep
  BY GotoTypes DEF Inv, Types, Steps, GivesUp, Release
<1>2. /\ SessionStep /\ Moves /\ generation' \in {generation, generation + 1} /\ mode' = mode
      /\ epoch' = epoch => UNCHANGED <<processing_mode, attested>>
  BY QuietMoves, EpochTypes DEF GivesUp, Quiet, Closes, Ends
<1>3. events' \in [so_far : Nat, bound : Bounds]
  BY HappensTypes DEF GivesUp, Inv, Types
<1>4. call' \in Calls /\ CallIsSound'
  BY <1>1, <1>2, CallKept DEF Inv, GivesUp
<1>5. Types'
  BY <1>1, <1>3, <1>4 DEF Inv, Types, GivesUp, Locked, channel
<1>6. StartIsSound(a)'
  BY <1>1, <1>2, ReleasedIsSound, SessionKept DEF Inv, GivesUp, Locked, SessionStep
<1>7. ActorsAreSound' /\ GateIsSound'
  BY UntouchedKept, GateKept DEF Inv, GivesUp, Locked, Quiet
<1>8. lock' = NoAttempt /\ start'[a].at \notin Held
  BY <1>1 DEF GivesUp, Release, Held, Begun, Joined, Checked, Cleared
<1>9. media' \in {media, 0}
  BY DEF GivesUp, Quiet, Closes, Ends
<1> QED
  BY <1>1, <1>2, <1>4, <1>5, <1>6, <1>7, <1>8, <1>9, LockedKept

\* Every failure path under the lock is such a stop.
LEMMA StopsGiveUp ==
  ASSUME Inv, NEW a \in Attempts
  PROVE  /\ FailsSafe(a) \/ StepsAside(a) \/ Abandons(a) \/ RosterMoved(a) =>
              GivesUp(a) /\ pending' \in {pending, 0}
         /\ \A who \in SUBSET Users : PausesFor(a, who) => GivesUp(a) /\ pending' \in {pending, 0}
<1>1. FailsSafe(a) \/ StepsAside(a) => GivesUp(a) /\ pending' \in {pending, 0}
  BY StopEnds DEF FailsSafe, StepsAside, GivesUp, GiveUp, Quiet, Ends
<1>2. Abandons(a) => GivesUp(a) /\ pending' \in {pending, 0}
  BY NothingCloses DEF Abandons, GivesUp, Quiet
<1>3. ASSUME NEW who \in SUBSET Users, S!PauseForConsent(who), GiveUp(a),
             events' = events \/ Happens("refuse")
      PROVE  GivesUp(a) /\ pending' \in {pending, 0}
  BY <1>3, MemberStopEnds DEF GivesUp, GiveUp, Quiet, Ends
<1>4. \A who \in SUBSET Users : PausesFor(a, who) => GivesUp(a) /\ pending' \in {pending, 0}
  BY <1>3 DEF PausesFor
<1>5. start[a].roster \in SUBSET Users /\ present \in SUBSET Users
  BY AttemptTypes DEF Inv, Types
<1>6. RosterMoved(a) => GivesUp(a) /\ pending' \in {pending, 0}
  BY <1>2, <1>3, <1>4, <1>5 DEF RosterMoved
<1> QED
  BY <1>1, <1>2, <1>4, <1>6

\* The holder goes on to its next await and the runtime is left as it is.
LEMMA GoesOnKept ==
  ASSUME Inv, NEW a \in Attempts, NEW step \in Held, NEW next \in Held, Locked(a, step),
         Goto(a, next), lock' = lock, UNCHANGED session_vars, events' = events, actors' = actors,
         call' = call \/ (step \in Begun /\ call' = [call EXCEPT !.deaf = FALSE]),
         StartIsSound(a)'
  PROVE  Kept
<1>1. /\ start' \in Starts /\ Only(a) /\ start'[a].epoch = start[a].epoch /\ StartsKeep
  BY GotoTypes DEF Inv, Types, Held, Steps, Before, Reserved, Cleared
<1>2. SessionStep /\ Closes /\ Quiet /\ Moves
  BY NothingCloses, QuietMoves DEF Quiet
<1>3. call' \in Calls /\ CallIsSound'
  BY <1>1, <1>2, CallKept DEF Inv
<1>4. Types'
  BY <1>1, <1>3 DEF Inv, Types, Locked, channel
<1>5. ActorsAreSound'
  BY <1>2, UntouchedKept
<1>6. GateIsSound'
  <2>1. media = 0 \/ call' = call
    BY DEF Inv, StartIsSound, Locked, At
  <2> QED
    BY <2>1 DEF Inv, GateIsSound, NobodyUnannounced, CallIsBound, Locked, channel
<1> QED
  BY <1>1, <1>2, <1>3, <1>4, <1>5, <1>6, LockedKept DEF Locked, Closes

\* A start that gives up with the runtime as it is.
LEMMA ReleaseGivesUp ==
  ASSUME NEW a \in Attempts, Release(a), UNCHANGED <<session_vars, actors, events>>,
         call' \in {call, NoCall}
  PROVE  GivesUp(a) /\ pending' \in {pending, 0}
BY NothingCloses DEF GivesUp, Quiet

\* The old epoch is disconnected and the start that asked stays pending.
LEMMA ReplaceKept == ASSUME Inv, NEW a \in Attempts, Replace(a) PROVE Kept
<1>1. "locked" \in Held /\ Locked(a, "locked") /\ start[a].at = "locked"
  BY DEF Replace, Held, Locked, At
<1>2. CASE Release(a) /\ UNCHANGED <<session_vars, call, actors, events>>
  BY <1>1, <1>2, ReleaseGivesUp, GivesUpKept
<1>3. CASE S!DisconnectForReplace /\ Goto(a, "clearing") /\ UNCHANGED <<lock, call, actors, events>>
  <2>1. SessionStep /\ Ends /\ Quiet /\ Moves /\ pending' = pending /\ generation' = generation
    BY <1>3, StopEnds, QuietMoves DEF Quiet, S!DisconnectForReplace
  <2>2. /\ start' \in Starts /\ Only(a) /\ start'[a].at = "clearing"
        /\ start'[a].gen = start[a].gen /\ start'[a].epoch = start[a].epoch
        /\ start'[a].mode = start[a].mode /\ StartsKeep
    BY <1>3, GotoTypes DEF Inv, Types, Steps, Before, Reserved
  <2>3. start[a].epoch = 0 /\ epoch' # 0 /\ epoch' = epoch + 1
    BY <1>1, <2>1, EpochTypes DEF Inv, StartIsSound, Before, Reserved, Ends
  <2>4. StartIsSound(a)'
    BY <1>1, <2>1, <2>2, <2>3, EpochTypes
       DEF Inv, StartIsSound, Serves, Begun, Joined, Checked, Cleared, Reserved, Before, Ends, Locked
  <2>5. Types'
    BY <1>1, <1>3, <2>2 DEF Inv, Types, Locked, channel
  <2>6. CallIsSound' /\ ActorsAreSound' /\ GateIsSound'
    BY <1>1, <1>3, <2>1, <2>2, CallKept, UntouchedKept, GateKept DEF Inv, Locked
  <2> QED
    BY <1>1, <1>3, <2>1, <2>2, <2>4, <2>5, <2>6, EpochTypes, LockedKept DEF Ends, Locked
<1> QED
  BY <1>2, <1>3 DEF Replace

\* The old call is removed before a new epoch begins.
LEMMA RemoveOldCallKept == ASSUME Inv, NEW a \in Attempts, RemoveOldCall(a) PROVE Kept
<1>1. "clearing" \in Held /\ Locked(a, "clearing") /\ start[a].at = "clearing"
  BY DEF RemoveOldCall, Held, Cleared, Locked, At
<1>2. SessionStep /\ Closes /\ Quiet /\ Moves /\ UNCHANGED <<pending, generation, media, draining>>
  BY RetiredCloses, QuietMoves DEF RemoveOldCall, Inv, Types, Calls, Quiet, S!RememberRetired
<1>3. CASE Release(a) /\ UNCHANGED <<call, actors, events>>
  BY <1>1, <1>2, <1>3, GivesUpKept DEF GivesUp
<1>4. CASE call' = NoCall /\ Goto(a, "cleared") /\ UNCHANGED <<lock, actors, events>>
  <2>1. /\ start' \in Starts /\ Only(a) /\ start'[a].at = "cleared"
        /\ start'[a].gen = start[a].gen /\ start'[a].epoch = start[a].epoch
        /\ start'[a].mode = start[a].mode /\ StartsKeep
    BY <1>4, GotoTypes DEF Inv, Types, Steps, Before, Reserved
  <2>2. start[a].epoch = 0
    BY <1>1 DEF Inv, StartIsSound, Before, Reserved
  <2>3. StartIsSound(a)'
    BY <1>1, <1>2, <2>1, <2>2, EpochTypes
       DEF Inv, StartIsSound, Serves, Begun, Joined, Checked, Cleared, Reserved, Before, Closes, Locked
  <2>4. call' \in Calls /\ CallIsSound'
    BY <1>2, <1>4, <2>1, CallKept DEF Inv
  <2>5. Types'
    BY <1>1, <1>4, <2>1, <2>4 DEF Inv, Types, Locked, channel
  <2>6. ActorsAreSound' /\ GateIsSound'
    BY <1>1, <1>2, <1>4, UntouchedKept, GateKept DEF Inv, Locked
  <2> QED
    BY <1>1, <1>2, <1>4, <2>1, <2>3, <2>4, <2>5, <2>6, LockedKept DEF Closes, Locked
<1> QED
  BY <1>3, <1>4 DEF RemoveOldCall

\* What a start that goes on with the runtime as it is still knows.
LEMMA GoesOnTypes ==
  ASSUME Inv, NEW a \in Attempts, NEW step \in Held, NEW next \in Held, Locked(a, step),
         Goto(a, next), UNCHANGED session_vars
  PROVE  /\ start[a].at = step /\ start'[a].at = next /\ start'[a].gen = start[a].gen
         /\ start'[a].epoch = start[a].epoch /\ start'[a].roster = start[a].roster
         /\ start'[a].mode = start[a].mode
         /\ start'[a].gen <= generation' /\ start'[a].epoch <= epoch'
         /\ Serves(a)' = Serves(a) /\ Current(a)' = Current(a)
         /\ UNCHANGED <<present, joining, overtaken>>
         /\ Serves(a)' => processing_mode' = start'[a].mode /\ attested' = start'[a].roster
         /\ a \in overtaken' => start'[a].gen < generation'
<1>1. start'[a].at = next /\ start'[a].gen = start[a].gen
      /\ start'[a].epoch = start[a].epoch /\ start'[a].roster = start[a].roster
      /\ start'[a].mode = start[a].mode
  BY GotoTypes DEF Inv, Types, Held, Steps, Before, Reserved, Cleared
<1> QED
  BY <1>1 DEF Inv, StartIsSound, Serves, Current, S!StartIsCurrent, Locked, At, channel

\* Only a start nothing overtook goes on to begin, in the mode it captured.
LEMMA ConfigureKept == ASSUME Inv, NEW a \in Attempts, Configure(a) PROVE Kept
<1>1. "cleared" \in Held /\ "beginning" \in Held /\ Locked(a, "cleared")
  BY DEF Configure, Held, Cleared
<1>2. CASE FailsSafe(a) \/ Abandons(a)
  BY <1>1, <1>2, StopsGiveUp, GivesUpKept
<1>3. CASE Release(a) /\ UNCHANGED <<session_vars, call, actors, events>>
  BY <1>1, <1>3, ReleaseGivesUp, GivesUpKept
<1>4. CASE S!StartIsCurrent(start[a].gen) /\ Goto(a, "beginning")
           /\ UNCHANGED <<session_vars, call, lock, actors, events>>
  <2>1. mode = start[a].mode /\ start[a].epoch = 0 /\ phase \notin S!Live /\ media = 0
    BY <1>1, <1>4 DEF Inv, StartIsSound, Locked, At, Cleared, Reserved, Before, S!StartIsCurrent
  <2>2. StartIsSound(a)'
    BY <1>1, <1>4, <2>1, GoesOnTypes
       DEF StartIsSound, Serves, Begun, Joined, Checked, Cleared, Reserved, Before
  <2> QED
    BY <1>1, <1>4, <2>2, GoesOnKept
<1> QED
  BY <1>2, <1>3, <1>4 DEF Configure

\* A call begins in the mode its start captured, with everybody of its roster attested.
LEMMA BeginKept == ASSUME Inv, NEW a \in Attempts, Begin(a) PROVE Kept
<1>1. /\ "beginning" \in Held /\ Locked(a, "beginning") /\ start[a].at = "beginning"
      /\ UNCHANGED <<call, lock, actors, events>> /\ S!Begin(start[a].roster)
      /\ start' = [start EXCEPT ![a].at = "joining", ![a].epoch = epoch + 1]
  BY DEF Begin, Held, Cleared, Locked, At
<1>2. mode = start[a].mode /\ start[a].epoch = 0 /\ phase \notin S!Live /\ media = 0
  BY <1>1 DEF Inv, StartIsSound, Cleared, Before
<1>3. control = 0
  BY <1>2 DEF Inv, Session, S!ControlIsCurrent
<1>4. start[a].roster \in SUBSET Users
  BY AttemptTypes DEF Inv, Types
<1>5. SessionStep
  BY <1>1, <1>3, <1>4 DEF SessionStep, S!Next, S!Starting, S!Members
<1>6. /\ epoch' = epoch + 1 /\ phase' = "connecting" /\ attested' = start[a].roster
      /\ processing_mode' = mode /\ media' = 0
      /\ UNCHANGED <<generation, pending, draining, mode>>
  BY <1>1 DEF S!Begin, S!NextEpoch
<1>7. Session' /\ epoch' \in S!Epochs
  BY <1>5, SessionKept DEF Inv, SessionStep, Session, S!TypeOK
<1>8. /\ start' \in Starts /\ Only(a) /\ start'[a].at = "joining" /\ start'[a].gen = start[a].gen
      /\ start'[a].epoch = epoch' /\ start'[a].roster = start[a].roster
      /\ start'[a].mode = start[a].mode
  BY <1>1, <1>6, <1>7 DEF Inv, Types, Starts, Only, Steps, Begun
<1>9. StartsKeep
  BY <1>2, <1>8 DEF StartsKeep, Only
<1>10. StartIsSound(a)'
  BY <1>1, <1>2, <1>6, <1>8, EpochTypes
     DEF Inv, StartIsSound, Serves, Begun, Joined, Checked, Cleared, Reserved, Before, Locked
<1>11. Moves
  BY <1>6 DEF Moves
<1>12. Types'
  BY <1>1, <1>8 DEF Inv, Types, Locked, channel
<1>13. CallIsSound'
  BY <1>1, <1>9, <1>11, CallKept DEF Inv
<1>14. ActorsAreSound'
  BY <1>1, <1>11, ActorsKept DEF Inv
<1>15. GateIsSound'
  BY <1>6 DEF GateIsSound, NobodyUnannounced, CallIsBound
<1> QED
  BY <1>1, <1>5, <1>6, <1>8, <1>9, <1>10, <1>11, <1>12, <1>13, <1>14, <1>15, EpochTypes, LockedKept
     DEF Locked

\* The call joined bears the epoch its start began.
LEMMA JoinKept == ASSUME Inv, NEW a \in Attempts, Join(a) PROVE Kept
<1>1. "joining" \in Held /\ "joined" \in Held /\ "joining" \in Begun /\ Locked(a, "joining")
      /\ start[a].at = "joining"
  BY DEF Join, Held, Begun, Joined, Locked, At
<1>2. CASE FailsSafe(a)
  BY <1>1, <1>2, StopsGiveUp, GivesUpKept
<1>3. CASE /\ call' = [name |-> a, epoch |-> start[a].epoch, deaf |-> TRUE]
           /\ Goto(a, "joined") /\ UNCHANGED <<session_vars, lock, actors, events>>
  <2>1. start[a].epoch # 0 /\ media = 0 /\ start[a].epoch \in S!Epochs
        /\ (Serves(a) => phase = "connecting")
    BY <1>1, AttemptTypes DEF Inv, StartIsSound, Types
  <2>2. /\ start' \in Starts /\ Only(a) /\ StartsKeep /\ start'[a].at = "joined"
        /\ start'[a].epoch = start[a].epoch
    BY <1>3, GotoTypes DEF Inv, Types, Steps, Begun, Joined
  <2>3. call'.name = a /\ call'.epoch = start'[a].epoch /\ call' \in Calls
    BY <1>3, <2>1, <2>2 DEF Calls
  <2>4. StartIsSound(a)'
    BY <1>1, <1>3, <2>1, <2>3, GoesOnTypes
       DEF StartIsSound, Serves, Begun, Joined, Checked, Cleared, Reserved, Before
  <2>5. CallIsSound'
    BY <1>3, <2>1, <2>2, <2>3, CallAssumption DEF CallIsSound, Serves, S!Live
  <2>6. Types'
    BY <1>1, <1>3, <2>2, <2>3 DEF Inv, Types, Locked, channel
  <2>7. SessionStep /\ Closes /\ Quiet /\ Moves
    BY <1>3, NothingCloses, QuietMoves DEF Quiet
  <2>8. ActorsAreSound'
    BY <1>3, <2>7, UntouchedKept
  <2>9. GateIsSound'
    BY <1>3, <2>1 DEF GateIsSound, NobodyUnannounced, CallIsBound
  <2> QED
    BY <1>1, <1>3, <2>2, <2>4, <2>5, <2>6, <2>7, <2>8, <2>9, LockedKept DEF Closes, Locked
<1> QED
  BY <1>2, <1>3 DEF Join

\* The session Discord confirmed is bound to the epoch it was joined for.
LEMMA BindKept == ASSUME Inv, NEW a \in Attempts, Bind(a) PROVE Kept
<1>1. "joined" \in Held /\ Locked(a, "joined") /\ start[a].at = "joined"
  BY DEF Bind, Held, Begun, Joined, Locked, At
<1>2. CASE FailsSafe(a) \/ StepsAside(a)
  BY <1>1, <1>2, StopsGiveUp, GivesUpKept
<1>3. CASE /\ S!StartIsCurrent(start[a].gen) /\ S!BindDiscordSession(start[a].epoch, a)
           /\ Goto(a, IF start[a].mode = "disabled" THEN "presence" ELSE "bound")
           /\ UNCHANGED <<call, lock, actors, events>>
  <2>1. PICK next \in {"presence", "bound"} :
          Goto(a, next) /\ (next = "bound" => start[a].mode # "disabled")
    BY <1>3
  <2>2. next \in Steps /\ next \in Held /\ next \in Joined
    BY DEF Steps, Held, Begun, Joined, Checked
  <2>3. /\ start' \in Starts /\ Only(a) /\ StartsKeep /\ start'[a].at = next
        /\ start'[a].gen = start[a].gen /\ start'[a].epoch = start[a].epoch
        /\ start'[a].roster = start[a].roster /\ start'[a].mode = start[a].mode
    BY <2>1, <2>2, GotoTypes DEF Inv, Types
  <2>4. start[a].epoch \in S!Epochs /\ start[a].mode \in S!Modes
    BY AttemptTypes DEF Inv, Types
  <2>5. /\ SessionStep /\ current' = a
        /\ UNCHANGED <<epoch, phase, processing_mode, media, generation, pending, draining,
                       mode, attested>>
    BY <1>3, <2>4 DEF SessionStep, S!Next, S!Starting, S!BindDiscordSession
  <2>6. media = 0 /\ start[a].mode \in {"local", "disabled"}
    BY <1>1, <2>4 DEF Inv, StartIsSound, S!Modes, Begun, Joined
  <2>7. StartIsSound(a)'
    BY <1>1, <1>3, <2>1, <2>3, <2>5, <2>6
       DEF Inv, StartIsSound, Serves, Current, S!StartIsCurrent, Begun, Joined, Checked, Cleared,
           Reserved, Before, Locked
  <2>8. Moves
    BY <2>5 DEF Moves
  <2>9. Types'
    BY <1>1, <1>3, <2>3 DEF Inv, Types, Locked, channel
  <2>10. CallIsSound' /\ ActorsAreSound'
    BY <1>3, <2>3, <2>8, CallKept, ActorsKept DEF Inv
  <2>11. GateIsSound'
    BY <2>5, <2>6 DEF GateIsSound, NobodyUnannounced, CallIsBound
  <2> QED
    BY <1>1, <1>3, <2>2, <2>3, <2>5, <2>7, <2>8, <2>9, <2>10, <2>11, LockedKept DEF Locked
<1> QED
  BY <1>2, <1>3 DEF Bind

\* A no-audio start ends in presence and frees the lock.
LEMMA PresenceKept == ASSUME Inv, NEW a \in Attempts, Presence(a) PROVE Kept
<1>1. "presence" \in Held /\ Locked(a, "presence")
  BY DEF Presence, Held, Begun, Joined
<1>2. GivesUp(a) /\ pending' \in {pending, 0}
  BY MemberStopEnds, EmptyRoom DEF Presence, GivesUp, Quiet, Ends
<1> QED
  BY <1>1, <1>2, GivesUpKept

\* The notice changes nothing the gate depends on.
LEMMA AnnounceKept == ASSUME Inv, NEW a \in Attempts, Announce(a) PROVE Kept
<1>1. "bound" \in Held /\ "spawning" \in Held /\ Locked(a, "bound") /\ start[a].at = "bound"
  BY DEF Announce, Held, Begun, Joined, Checked, Locked, At
<1>2. CASE FailsSafe(a) \/ RosterMoved(a)
  BY <1>1, <1>2, StopsGiveUp, GivesUpKept
<1>3. CASE S!FailSafe /\ GiveUp(a) /\ UNCHANGED events
  <2>1. GivesUp(a) /\ pending' \in {pending, 0}
    BY <1>3, StopEnds DEF GivesUp, GiveUp, Quiet, Ends
  <2> QED
    BY <1>1, <2>1, GivesUpKept
<1>4. CASE Goto(a, "spawning") /\ UNCHANGED <<session_vars, call, lock, actors, events>>
  <2>1. StartIsSound(a)'
    BY <1>1, <1>4, GoesOnTypes
       DEF Inv, StartIsSound, Serves, Begun, Joined, Checked, Cleared, Reserved, Before
  <2> QED
    BY <1>1, <1>4, <2>1, GoesOnKept
<1> QED
  BY <1>2, <1>3, <1>4 DEF Announce

\* The actor is spawned for the epoch the start serves.
LEMMA InstallKept == ASSUME Inv, NEW a \in Attempts, Install(a) PROVE Kept
<1>1. "spawning" \in Held /\ Locked(a, "spawning") /\ start[a].at = "spawning"
  BY DEF Install, Held, Begun, Joined, Checked, Locked, At
<1>2. CASE UNCHANGED <<session_vars, events>> /\ GiveUp(a)
  BY <1>1, <1>2, ReleaseGivesUp, GivesUpKept DEF GiveUp
<1>3. CASE /\ S!InstallControl(start[a].epoch)
           /\ actors' = [actors EXCEPT ![start[a].epoch] = "running"]
           /\ Goto(a, "installed") /\ UNCHANGED <<call, lock, events>>
  <2>1. /\ start' \in Starts /\ Only(a) /\ StartsKeep /\ start'[a].at = "installed"
        /\ start'[a].gen = start[a].gen /\ start'[a].epoch = start[a].epoch
        /\ start'[a].roster = start[a].roster /\ start'[a].mode = start[a].mode
    BY <1>3, GotoTypes DEF Inv, Types, Steps, Begun, Joined, Checked
  <2>2. start[a].epoch \in S!Epochs /\ epoch = start[a].epoch /\ phase = "connecting"
        /\ media = 0
    BY <1>1, <1>3, AttemptTypes
       DEF Inv, Types, StartIsSound, Begun, Joined, Checked, Serves, S!InstallControl, S!IsCurrent
  <2>3. /\ SessionStep
        /\ UNCHANGED <<epoch, phase, processing_mode, media, generation, pending, draining,
                       mode, attested, current>>
    BY <1>3, <2>2 DEF SessionStep, S!Next, S!Starting, S!InstallControl
  <2>4. /\ actors' \in [S!Epochs -> ActorStates] /\ actors'[epoch] = "running"
        /\ \A d \in S!Epochs : d # epoch => actors'[d] = actors[d]
    BY <1>3, <2>2, ActorTypes DEF Inv, ActorStates
  <2>5. StartIsSound(a)'
    BY <1>1, <1>3, <2>1, <2>3
       DEF Inv, StartIsSound, Serves, Current, S!StartIsCurrent, Begun, Joined, Checked, Cleared,
           Reserved, Before, Locked
  <2>6. Moves
    BY <2>3 DEF Moves
  <2>7. Types'
    BY <1>1, <1>3, <2>1, <2>4 DEF Inv, Types, Locked, channel, ActorStates
  <2>8. CallIsSound'
    BY <1>3, <2>1, <2>6, CallKept DEF Inv
  <2>9. ActorsAreSound'
    BY <2>3, <2>4, EpochTypes DEF Inv, ActorsAreSound
  <2>10. GateIsSound'
    BY <2>2, <2>3 DEF GateIsSound, NobodyUnannounced, CallIsBound
  <2> QED
    BY <1>1, <1>3, <2>1, <2>3, <2>5, <2>6, <2>7, <2>8, <2>9, <2>10, LockedKept DEF Locked
<1> QED
  BY <1>2, <1>3 DEF Install

\* Undeafening changes no more than that.
LEMMA EnableKept == ASSUME Inv, NEW a \in Attempts, Enable(a) PROVE Kept
<1>1. "installed" \in Held /\ "enabled" \in Held /\ "installed" \in Begun
      /\ Locked(a, "installed") /\ start[a].at = "installed"
  BY DEF Enable, Held, Begun, Joined, Checked, Locked, At
<1>2. CASE FailsSafe(a) \/ StepsAside(a) \/ RosterMoved(a)
  BY <1>1, <1>2, StopsGiveUp, GivesUpKept
<1>3. CASE /\ call' = [call EXCEPT !.deaf = FALSE]
           /\ Goto(a, "enabled") /\ UNCHANGED <<session_vars, lock, actors, events>>
  <2>1. call'.name = call.name
    BY <1>3 DEF Inv, Types, Calls
  <2>2. StartIsSound(a)'
    BY <1>1, <1>3, <2>1, GoesOnTypes
       DEF Inv, StartIsSound, Serves, Begun, Joined, Checked, Cleared, Reserved, Before
  <2> QED
    BY <1>1, <1>3, <2>2, GoesOnKept
<1> QED
  BY <1>2, <1>3 DEF Enable

\* After the last roster check everybody in the channel is attested.
LEMMA VerifyKept == ASSUME Inv, NEW a \in Attempts, Verify(a) PROVE Kept
<1>1. "enabled" \in Held /\ "activating" \in Held /\ Locked(a, "enabled")
      /\ start[a].at = "enabled" /\ present \in SUBSET Users
  BY DEF Verify, Held, Begun, Joined, Checked, Locked, At, Inv, Types
<1>2. CASE FailsSafe(a) \/ RosterMoved(a) \/ PausesFor(a, present)
  BY <1>1, <1>2, StopsGiveUp, GivesUpKept
<1>3. CASE /\ present = start[a].roster
           /\ Goto(a, "activating") /\ UNCHANGED <<session_vars, call, lock, actors, events>>
  <2>1. Serves(a) => present = attested
    BY <1>3 DEF Inv, StartIsSound
  <2>2. StartIsSound(a)'
    BY <1>1, <1>3, <2>1, GoesOnTypes
       DEF Inv, StartIsSound, Serves, Begun, Joined, Checked, Cleared, Reserved, Before
  <2> QED
    BY <1>1, <1>3, <2>2, GoesOnKept
<1> QED
  BY <1>2, <1>3 DEF Verify

\* The gate opens on the call the start joined and bound, for members it announced.
LEMMA ActivateKept == ASSUME Inv, NEW a \in Attempts, Activate(a) PROVE Kept
<1>1. "activating" \in Held /\ Locked(a, "activating") /\ start[a].at = "activating"
  BY DEF Activate, Held, Begun, Joined, Checked, Locked, At
<1>2. start[a].roster \in SUBSET Users /\ start[a].epoch \in S!Epochs
      /\ start[a].gen \in S!Generations
  BY AttemptTypes DEF Inv, Types
<1>3. CASE ~S!CanActivate(start[a].epoch, start[a].gen)
  <2>1. /\ S!PauseForConsent(start[a].roster) \/ UNCHANGED session_vars
        /\ GiveUp(a) /\ UNCHANGED events
    BY <1>3 DEF Activate
  <2>2. GivesUp(a) /\ pending' \in {pending, 0}
    BY <1>2, <2>1, MemberStopEnds, NothingCloses DEF GivesUp, GiveUp, Quiet, Ends
  <2> QED
    BY <1>1, <2>2, GivesUpKept
<1>4. CASE S!CanActivate(start[a].epoch, start[a].gen)
  <2>1. S!Activate(start[a].epoch, start[a].gen) /\ Release(a) /\ UNCHANGED <<call, actors, events>>
    BY <1>4 DEF Activate
  <2>2. Serves(a) /\ Current(a)
    BY <1>1, <1>4 DEF S!CanActivate, S!IsCurrent, Current, Serves, Inv, StartIsSound, Begun,
       Joined, Checked
  <2>3. /\ processing_mode = "local" /\ current = a /\ call.name = a
        /\ present \subseteq attested \cup joining /\ call.epoch = epoch
    BY <1>1, <2>2 DEF Inv, StartIsSound, CallIsSound, Serves, Joined, Checked
  <2>4. /\ SessionStep /\ phase' = "listening" /\ media' = epoch /\ pending' = 0
        /\ UNCHANGED <<epoch, processing_mode, generation, draining, mode, attested, current>>
    BY <1>2, <2>1, <2>2, <2>3 DEF SessionStep, S!Next, S!Starting, S!Activate, Serves
  <2>5. /\ start' \in Starts /\ Only(a) /\ StartsKeep /\ start'[a].at = "returning"
        /\ start'[a].gen = start[a].gen /\ start'[a].epoch = start[a].epoch
        /\ start'[a].roster = start[a].roster /\ start'[a].mode = start[a].mode
    BY <2>1, GotoTypes DEF Inv, Types, Steps, Release
  <2>6. StartIsSound(a)'
    BY <1>1, <2>4, <2>5
       DEF Inv, StartIsSound, Serves, Current, S!StartIsCurrent, Begun, Joined, Checked, Cleared,
           Reserved, Before, Locked
  <2>7. Moves
    BY <2>4 DEF Moves, S!Live, S!Audio
  <2>8. Types'
    BY <1>1, <2>1, <2>5 DEF Inv, Types, Locked, channel
  <2>9. CallIsSound' /\ ActorsAreSound'
    BY <2>1, <2>5, <2>7, CallKept, ActorsKept DEF Inv
  <2>10. GateIsSound'
    BY <1>1, <2>1, <2>3, <2>4 DEF GateIsSound, NobodyUnannounced, CallIsBound, Locked, channel
  <2>11. lock' = NoAttempt /\ start'[a].at \notin Held
    BY <2>1, <2>5 DEF Release, Held, Begun, Joined, Checked, Cleared
  <2>12. a \notin overtaken
    <3>1. start[a].gen = generation /\ generation \in Nat
      BY <2>2, CallAssumption DEF Current, S!StartIsCurrent, Inv, Session, S!TypeOK, S!Generations
    <3> QED
      BY <3>1 DEF Inv, StartIsSound
  <2> QED
    BY <1>1, <2>4, <2>5, <2>6, <2>7, <2>8, <2>9, <2>10, <2>11, <2>12, LockedKept
<1> QED
  BY <1>3, <1>4

-----------------------------------------------------------------------------
(* The theorems.                                                             *)

\* An idle call.
LEMMA InitIsSound == ASSUME Init PROVE Inv
<1>1. S!Init
  BY DEF Init
<1>2. 0 \in S!Epochs /\ 0 \in S!Generations /\ "disabled" \in S!Modes
  BY CallAssumption DEF S!Epochs, S!Generations, S!Modes
<1>3. Session
  <2>1. draining \in BOOLEAN /\ saved \in BOOLEAN /\ available \in BOOLEAN
    BY <1>1, Zenon DEF S!Init
  <2>2. S!TypeOK
    BY <1>1, <1>2, <2>1 DEF S!Init, S!TypeOK, S!Idle, S!Phases, S!Members
  <2>3. phase \notin S!Live /\ media = 0 /\ control = 0 /\ pending = 0
    BY <1>1 DEF S!Init, S!Live, S!Audio
  <2> QED
    BY <2>2, <2>3 DEF Session, S!ConsentGate, S!DisclosedMode, S!ControlIsCurrent,
       S!PendingIsNewest
<1>4. epoch = 0 /\ generation = 0 /\ media = 0
  BY <1>1 DEF S!Init
<1>5. \A a \in Attempts : start[a] = NotStarted
  BY DEF Init
<1>6. Types
  <2>1. NotStarted \in [at : Steps, gen : S!Generations, epoch : S!Epochs,
                        roster : SUBSET Users, mode : S!Modes]
    BY <1>2 DEF NotStarted, Steps, Before
  <2>2. NoCall \in Calls
    BY <1>2 DEF NoCall, Calls
  <2>3. start \in Starts
    BY <2>1 DEF Init, Starts
  <2>4. actors \in [S!Epochs -> {"none", "running", "heard", "failing", "withdrawing",
                                 "leaving", "gone"}]
    BY DEF Init, S!Epochs
  <2>5. leave \in [at : {"idle", "leaving", "left", "removing", "done"},
                   call : Attempts \cup {NoAttempt}]
    BY DEF Init
  <2>6. events \in [so_far : Nat, bound : Bounds]
    BY DEF Init
  <2>7. /\ present \subseteq Users /\ joining \subseteq Users /\ call \in Calls
        /\ pausers \subseteq Pausers /\ switch \in S!Phases \cup {"idle"}
        /\ overtaken \subseteq Attempts
    BY <2>2 DEF Init
  <2> QED
    BY <2>3, <2>4, <2>5, <2>6, <2>7 DEF Types
<1>7. LockIsHeld
  BY <1>5 DEF Init, LockIsHeld, NotStarted, Held, Begun, Joined, Checked, Cleared
<1>8. \A a \in Attempts : StartIsSound(a)
  BY <1>4, <1>5 DEF Init, StartIsSound, NotStarted, Serves, Begun, Joined, Checked, Cleared,
     Reserved, Before
<1>9. CallIsSound /\ StopsAreSound /\ GateIsSound
  BY <1>4, CallAssumption DEF Init, CallIsSound, StopsAreSound, GateIsSound, NoCall,
     NobodyUnannounced, CallIsBound
<1>10. ActorsAreSound
  BY DEF Init, ActorsAreSound, S!Epochs
<1> QED
  BY <1>3, <1>6, <1>7, <1>8, <1>9, <1>10 DEF Inv

\* Every step of a start.
LEMMA StartStepKept == ASSUME Inv, NEW a \in Attempts, StartStep(a) PROVE Kept
BY DecideKept, RefusedKept, ReserveKept, PrepareKept, ReplaceKept, RemoveOldCallKept,
   ConfigureKept, BeginKept, JoinKept, BindKept, PresenceKept, AnnounceKept, InstallKept,
   EnableKept, VerifyKept, ActivateKept, FinishKept DEF StartStep

\* Every step of an actor.
LEMMA ActorStepKept == ASSUME Inv, NEW e \in DOMAIN actors, ActorStep(e) PROVE Kept
<1>1. e \in S!Epochs /\ events.bound.reports \subseteq S!Audio
  BY CallAssumption DEF Inv, Types, S!Audio
<1> QED
  BY <1>1, ActorReportsKept, ActorFailsKept, ActorEndsKept, HearsWithdrawalKept DEF ActorStep

\* Every step.
LEMMA StepKept == ASSUME Inv, [Next]_vars PROVE Kept
<1>1. CASE UNCHANGED vars
  <2>1. UNCHANGED session_vars
    BY <1>1 DEF vars
  <2>2. Session'
    BY <2>1, SessionKept DEF Inv
  <2>3. /\ Types' /\ LockIsHeld' /\ (\A a \in Attempts : StartIsSound(a)') /\ CallIsSound'
        /\ StopsAreSound' /\ ActorsAreSound' /\ GateIsSound'
    BY <1>1 DEF Inv, vars, channel, tasks, history, Types, LockIsHeld, StartIsSound,
       Serves, Current, S!StartIsCurrent, CallIsSound, StopsAreSound, PauserIsSound,
       ActorsAreSound, GateIsSound, NobodyUnannounced, CallIsBound
  <2> QED
    BY <2>1, <2>2, <2>3 DEF Inv, Kept, SessionStep
<1>2. CASE Next
  <2>1. ASSUME NEW a \in Attempts, RequestCommand(a) \/ StartStep(a)
        PROVE  Kept
    BY <2>1, RequestKept, StartStepKept
  <2>2. CASE Leave \/ TakeLeaveStep \/ ServiceStops
    BY <2>2, LeaveKept, LeaveStepKept, ServiceStopsKept
  <2>3. ASSUME NEW u \in Users,
               \/ Enters(u) \/ Exits(u) \/ JoinHandler(u) \/ UnattestedTick(u)
               \/ \E choice \in {"agree", "withdraw"} : Chooses(u, choice)
        PROVE  Kept
    BY <2>3, EntersKept, JoinHandlerKept, UnattestedTickKept, ChoosesKept
  <2>4. CASE ConsentStoreStep \/ Tick \/ PermissionLost
    BY <2>4, ConsentStoreKept, TickKept, PermissionKept
  <2>5. ASSUME NEW s \in Attempts, BotPayload(s) PROVE Kept
    BY <2>5, BotPayloadKept
  <2>6. ASSUME NEW p \in pausers, PauserStep(p) PROVE Kept
    BY <2>6, PauserBeginsKept, PauserFinishesKept, PauserTearsDownKept DEF PauserStep
  <2>7. ASSUME NEW e \in DOMAIN actors, ActorStep(e) PROVE Kept
    BY <2>7, ActorStepKept
  <2>8. CASE SwitchReads \/ SwitchWrites
    BY <2>8, SwitchReadsKept, SwitchWritesKept
  <2> QED
    BY <1>2, <2>1, <2>2, <2>3, <2>4, <2>5, <2>6, <2>7, <2>8 DEF Next
<1> QED
  BY <1>1, <1>2

\* The call, its starts, stops, handlers and actors keep the invariant whatever the
\* order in which their stretches between awaits run.
THEOREM CallIsInvariant == Spec => []Inv
<1>1. Init => Inv
  BY InitIsSound
<1>2. Inv /\ [Next]_vars => Inv'
  BY StepKept DEF Kept
<1> QED
  BY <1>1, <1>2, PTL DEF Spec

\* The tasks of a call keep the conventions VoiceSession's theorems assume of its
\* callers, for any members, attempts and bounds.
THEOREM CallKeepsSession == Spec => KeepsSession
<1>1. Init => S!Init
  BY DEF Init
<1>2. Inv /\ [Next]_vars => [S!Next]_session_vars
  BY StepKept DEF Kept, SessionStep
<1> QED
  BY <1>1, <1>2, CallIsInvariant, PTL DEF Spec, KeepsSession

\* While the gate is open everybody in the channel is attested or about to close it.
THEOREM EverybodyIsAnnounced == Spec => []NobodyUnannounced
BY CallIsInvariant, PTL DEF Inv, GateIsSound

\* An open gate is fed by the call whose session is bound.
THEOREM OpenCallIsBound == Spec => []CallIsBound
BY CallIsInvariant, PTL DEF Inv, GateIsSound

\* Nobody is heard in a mode the notice did not name, across switches and restarts.
THEOREM ModeIsAnnounced == Spec => []HeardAsAnnounced
<1>1. Inv => HeardAsAnnounced
  BY DEF Inv, HeardAsAnnounced, Session, S!ConsentGate, StartIsSound, Serves
<1> QED
  BY <1>1, CallIsInvariant, PTL

\* While anybody is heard, everybody the epoch may hear has agreed (VoiceSession's
\* gate, of the call).
THEOREM CallNeedsConsent == Spec => []S!ConsentGate
BY CallIsInvariant, PTL DEF Inv, Session

\* A stop that overtook a start keeps it from ever opening the gate.
THEOREM StopsOutliveStarts == Spec => StopOutlivesStart
<1>1. Inv /\ [Next]_vars => [media = 0 /\ media' # 0 => lock \notin overtaken]_vars
  BY StepKept DEF Kept
<1> QED
  BY <1>1, CallIsInvariant, PTL DEF Spec, StopOutlivesStart

\* Only a teardown task ends itself.
LEMMA OnlyPausersEnd ==
  ASSUME Inv, Next
  PROVE  pausers \subseteq pausers' \/ \E p \in pausers : PauserStep(p)
<1>1. ASSUME NEW a \in Attempts, RequestCommand(a) \/ StartStep(a)
      PROVE  pausers' = pausers
  BY <1>1 DEF RequestCommand, StartStep, DecideUpgrade, RequestRefused, Reserve, Prepare,
     Replace, RemoveOldCall, Configure, Begin, Join, Bind, Presence, Announce, Install,
     Enable, Verify, Activate, Finish, Locked
<1>2. CASE Leave \/ TakeLeaveStep \/ ServiceStops
  BY <1>2 DEF Leave, TakeLeaveStep, ServiceStops, tasks
<1>3. ASSUME NEW u \in Users,
             \/ Enters(u) \/ Exits(u) \/ JoinHandler(u) \/ UnattestedTick(u)
             \/ \E choice \in {"agree", "withdraw"} : Chooses(u, choice)
      PROVE  pausers \subseteq pausers'
  BY <1>3 DEF Enters, Exits, JoinHandler, UnattestedTick, Chooses, tasks
<1>4. CASE ConsentStoreStep \/ Tick \/ PermissionLost
  BY <1>4 DEF ConsentStoreStep, Tick, PermissionLost, tasks
<1>5. ASSUME NEW s \in Attempts, BotPayload(s) PROVE pausers \subseteq pausers'
  BY <1>5 DEF BotPayload
<1>6. ASSUME NEW e \in DOMAIN actors, ActorStep(e) PROVE pausers' = pausers
  BY <1>6 DEF ActorStep, ActorReports, ActorFails, ActorEnds, HearsWithdrawal
<1>7. CASE SwitchReads \/ SwitchWrites
  BY <1>7 DEF SwitchReads, SwitchWrites
<1> QED
  BY <1>1, <1>2, <1>3, <1>4, <1>5, <1>6, <1>7 DEF Next

\* What a teardown task ends or removes is of its own epoch or an earlier one.
LEMMA TeardownIsOwn ==
  ASSUME Inv, NEW p \in pausers, PauserStep(p), call # NoCall, call' = NoCall
  PROVE  call.epoch <= p.epoch
<1>1. /\ epoch \in Nat /\ p.epoch \in Nat /\ call.epoch \in Nat
      /\ call.name \in Attempts \cup {NoAttempt}
  BY EpochTypes, CallAssumption DEF Inv, Types, Pausers, Calls, S!Epochs
<1>2. call.epoch <= epoch
  BY <1>1 DEF Inv, CallIsSound, StartIsSound
<1>3. CASE PauserFinishes(p)
  <2>1. call.name = p.call /\ p.at = "finish"
    BY <1>3 DEF PauserFinishes
  <2> QED
    BY <1>1, <2>1 DEF Inv, CallIsSound, StopsAreSound, PauserIsSound
<1>4. CASE PauserTearsDown(p)
  <2>1. epoch = p.epoch + 1 /\ phase = "awaiting_consent"
    BY <1>4 DEF PauserTearsDown
  <2>2. call.epoch # epoch
    BY <1>1, <2>1 DEF Inv, CallIsSound, S!Live, S!Audio
  <2> QED
    BY <1>1, <1>2, <2>1, <2>2
<1> QED
  BY <1>3, <1>4 DEF PauserStep, PauserBegins

\* A teardown spares the call of a start that came after it.
THEOREM TeardownIsSparing == Spec => TeardownSparesNewerCall
<1>1. Inv /\ [Next]_vars =>
        [\A p \in pausers \ pausers' : call # NoCall /\ call' = NoCall => call.epoch <= p.epoch]_vars
  <2> SUFFICES ASSUME Inv, Next, NEW q \in pausers \ pausers', call # NoCall, call' = NoCall
               PROVE  call.epoch <= q.epoch
    BY DEF vars
  <2>1. PICK p \in pausers : PauserStep(p)
    BY OnlyPausersEnd
  <2>2. q = p
    BY <2>1 DEF PauserStep, PauserBegins, PauserFinishes, PauserTearsDown, Becomes
  <2> QED
    BY <2>1, <2>2, TeardownIsOwn
<1> QED
  BY <1>1, CallIsInvariant, PTL DEF Spec, TeardownSparesNewerCall

-----------------------------------------------------------------------------
(* The runtime alone, whoever calls its methods.                            *)

\* The runtime's state keeps its types, its gate and its start reservation whatever
\* its callers do: the invariant the safety theorems below rest on.
THEOREM SessionIsInvariant == S!Spec => []Session
<1>1. S!Init => Session
  <2> SUFFICES ASSUME S!Init PROVE Session
    OBVIOUS
  <2>1. draining \in BOOLEAN /\ saved \in BOOLEAN /\ available \in BOOLEAN
    BY Zenon DEF S!Init
  <2>2. 0 \in S!Epochs /\ 0 \in S!Generations /\ <<>> \in Seq(Attempts)
    BY SessionConstants DEF S!Epochs, S!Generations
  <2>3. S!TypeOK
    BY <2>1, <2>2 DEF S!Init, S!TypeOK, S!Idle, S!Phases, S!Members
  <2>4. phase \notin S!Live /\ media = 0 /\ control = 0 /\ pending = 0
    BY DEF S!Init, S!Live, S!Audio
  <2> QED
    BY <2>3, <2>4 DEF Session, S!ConsentGate, S!DisclosedMode, S!ControlIsCurrent,
       S!PendingIsNewest
<1>2. Session /\ [S!Next]_session_vars => Session'
  <2>1. Session /\ S!Next => Session'
    BY StartingPreserves, ClosingPreserves, StoppingPreserves, ChoosingPreserves DEF S!Next
  <2>2. Session /\ UNCHANGED S!session_vars => Session'
    BY DEF S!session_vars, Session, S!TypeOK, S!ConsentGate, S!DisclosedMode,
           S!ControlIsCurrent, S!PendingIsNewest
  <2> QED
    BY <2>1, <2>2
<1> QED
  BY <1>1, <1>2, PTL DEF S!Spec

\* The runtime's state has its types (voice_session.rs:221-367).
THEOREM SessionTypes == S!Spec => []S!TypeOK
BY SessionIsInvariant, PTL DEF Session

\* While the media gate is open everybody the epoch may hear has agreed and has not
\* withdrawn, whatever commands, handlers and actors interleave.
THEOREM GateNeedsConsent == S!Spec => []ConsentGate
<1>1. Session => ConsentGate
  BY DEF Session, S!ConsentGate, ConsentGate, S!Audio, Audio, S!Live, Live
<1> QED
  BY <1>1, SessionIsInvariant, PTL

\* Members are heard only in the mode in force, and only in the local mode.
THEOREM GateKeepsDisclosedMode == S!Spec => []DisclosedMode
<1>1. Session => DisclosedMode
  BY DEF Session, S!DisclosedMode, DisclosedMode, S!Audio, Audio, S!Live, Live
<1> QED
  BY <1>1, SessionIsInvariant, PTL

\* A stop that takes the control takes the current epoch's actor.
THEOREM ControlIsReachable == S!Spec => []ControlIsCurrent
<1>1. Session => ControlIsCurrent
  BY DEF Session, S!ControlIsCurrent, ControlIsCurrent, S!Audio, Audio, S!Live, Live
<1> QED
  BY <1>1, SessionIsInvariant, PTL

\* A start that a stop overtook is never pending again.
THEOREM StartsDoNotReturn == S!Spec => []PendingIsNewest
<1>1. Session => PendingIsNewest
  BY DEF Session, S!PendingIsNewest, PendingIsNewest, S!Audio, Audio, S!Live, Live
<1> QED
  BY <1>1, SessionIsInvariant, PTL

\* An epoch that has left Connecting is never opened again.
THEOREM RevokedEpochIsNeverReopened == S!Spec => RevokedStaysRevoked
<1>1. Session /\ [S!Next]_session_vars =>
        [(phase \in Audio /\ epoch' = epoch) => media' \in {media, 0}]_session_vars
  <2> SUFFICES ASSUME Session, S!Next, phase \in S!Audio, epoch' = epoch
               PROVE  media' \in {media, 0}
    BY DEF Audio, S!Audio
  <2>1. phase # "connecting" /\ epoch + 1 # epoch
    BY SessionConstants DEF S!Audio, Session, S!TypeOK, S!Epochs
  <2>2. CASE S!Starting
    BY <2>1, <2>2 DEF S!Starting, S!Reserve, S!FinishStart, S!Begin, S!NextEpoch,
       S!BindDiscordSession, S!Activate, S!CanActivate, S!InstallControl
  <2>3. CASE S!Closing
    BY <2>1, <2>3 DEF S!Closing, S!CancelPendingStart, S!BeginDraining, S!CloseMedia, S!RevokeMedia,
       S!RevokeForUnattestedParticipant, S!RevokeForDiscordSession, S!RememberRetired,
       S!BeginPause, S!ActorStop
  <2>4. CASE S!Stopping
    BY <2>1, <2>4 DEF S!Stopping, S!Disconnect, S!FailSafe, S!DisconnectForReplace,
       S!PauseForConsent, S!SetPresence, S!FailStart, S!SetPresenceForStart, S!StopTo
  <2>5. CASE S!Choosing
    BY <2>1, <2>5 DEF S!Choosing, S!SetStatus, S!SwitchEffectiveMode, S!ChangeConsent,
       S!CloseMedia, S!ConsentSaved, S!ConsentPoisoned
  <2> QED
    BY <2>2, <2>3, <2>4, <2>5 DEF S!Next
<1> QED
  BY <1>1, SessionIsInvariant, PTL DEF S!Spec, RevokedStaysRevoked
=============================================================================
