----------------------------- MODULE VoiceCall -----------------------------
(***************************************************************************)
(* One guild's voice call: the commands, gateway handlers, audio callbacks *)
(* and the actor that share a VoiceRuntime (module VoiceSession), the      *)
(* Discord call they join and leave, and the transition lock that orders   *)
(* starting and tearing down.  An action is a stretch of one task between  *)
(* two awaits that touches shared state; each contains at most one runtime *)
(* method, so the tasks interleave between any two of them.                *)
(***************************************************************************)
EXTENDS Naturals, Sequences, FiniteSets, VoiceRuntime

CONSTANTS
  Users,          \* members who can be in the voice channel
  Attempts,       \* start requests; the call an attempt joins bears its name
  NoAttempt,      \* nobody: no lock holder, no call, no session
  RetiredKept,    \* RETIRED_DISCORD_SESSIONS
  MaxEpoch,       \* bound on epochs
  MaxGeneration,  \* bound on start generations
  Bounds          \* a behaviour is bounded in one of these ways: how many events of members,
                  \* moderators and the service there are and of which kinds, which attempts
                  \* the auto-listen upgrade makes, and the audio phases actors report

ASSUME CallAssumption ==
  /\ {NoAttempt, "leave", "switch"} \cap Attempts = {} /\ NoAttempt \notin {"leave", "switch"}
  /\ RetiredKept \in Nat \ {0} /\ MaxEpoch \in Nat /\ MaxGeneration \in Nat
  /\ \A b \in Bounds : /\ b.events \in Nat /\ b.upgrades \subseteq Attempts
                       /\ b.reports \subseteq {"listening", "thinking", "speaking"}

VARIABLES
  present,      \* members the cache shows in the channel
  joining,      \* members whose join payload no handler has taken yet
  call,         \* the Discord call: its name, the epoch its handlers serve
  lock,         \* holder of transition
  start,        \* per attempt, the state of its task
  reservation,  \* the registry's pending join, or NoAttempt
  pausers,      \* teardown tasks of handlers that closed the gate
  actors,       \* per epoch, the state of its actor
  leave,        \* the /voice leave task
  switch,       \* the /voice mode task
  overtaken,    \* attempts that were under way when a stop closed the gate
  events        \* events so far, and the member of Bounds that bounds this behaviour

channel == <<present, joining>>
tasks == <<lock, start, reservation, pausers, actors, leave, switch>>
history == <<overtaken, events>>
vars == <<session_vars, channel, call, tasks, history>>

S == INSTANCE VoiceSession WITH Sessions <- Attempts, NoSession <- NoAttempt

NoCall == [name |-> NoAttempt, epoch |-> 0, deaf |-> TRUE]
NotStarted == [at |-> "idle", gen |-> 0, epoch |-> 0, roster |-> {}, mode |-> "disabled"]

Init ==
  /\ S!Init
  /\ present \in SUBSET Users /\ joining = {} /\ call = NoCall
  /\ lock = NoAttempt /\ start = [a \in Attempts |-> NotStarted]
  /\ reservation = NoAttempt /\ pausers = {}
  /\ actors = [e \in 0..MaxEpoch |-> "none"]
  /\ leave = [at |-> "idle", call |-> NoAttempt] /\ switch = "idle"
  /\ overtaken = {} /\ events \in {[so_far |-> 0, bound |-> b] : b \in Bounds}

Kinds == events.bound.kinds
Happens(kind) ==
  /\ kind \in Kinds
  /\ events.so_far < events.bound.events /\ events' = [events EXCEPT !.so_far = @ + 1]

\* Attempts made by the auto-listen upgrade, not by /voice join.
AutoAttempts == events.bound.upgrades

UnderWay == {a \in Attempts : start[a].at \notin {"idle", "done"}}

\* Its actor has returned, so a task that joins it goes on.
Reaped(e) == actors[e] \in {"none", "gone"}

\* A handler that closed the gate goes on to tear the epoch down.
Pauser(kind, e, u) ==
  [kind |-> kind, epoch |-> e, user |-> u, at |-> "begin", call |-> NoAttempt]

-----------------------------------------------------------------------------
(* Starting: voice_start, and activate_local_auto_listen for AutoAttempts.   *)

At(a, step) == start[a].at = step
Goto(a, step) == start' = [start EXCEPT ![a].at = step]

ReleaseKeepingLock(a) == UNCHANGED lock /\ Goto(a, "returning")

\* The transition guard is dropped; what is left is telling the caller.
Release(a) == lock' = NoAttempt /\ Goto(a, "returning")

Locked(a, step) ==
  /\ lock = a /\ At(a, step)
  /\ UNCHANGED <<channel, reservation, pausers, leave, switch, overtaken>>

\* The three ways a start gives up once it may have a call.
GiveUp(a) == call' = NoCall /\ Release(a) /\ UNCHANGED actors
FailsSafe(a) == Happens("refuse") /\ S!FailSafe /\ GiveUp(a)
StepsAside(a) == S!DisconnectForReplace /\ GiveUp(a) /\ UNCHANGED events
PausesFor(a, who) == S!PauseForConsent(who) /\ GiveUp(a) /\ UNCHANGED events

\* Auto-listen returns with ? and leaves the runtime and the call as they are.
Abandons(a) ==
  /\ a \in AutoAttempts /\ Happens("refuse") /\ Release(a)
  /\ UNCHANGED <<session_vars, call, actors>>

\* The roster the cache shows differs, or the cache is not ready: a pause.
RosterMoved(a) ==
  \/ present # start[a].roster /\ PausesFor(a, present)
  \/ /\ a \notin AutoAttempts /\ Happens("refuse")
     /\ S!PauseForConsent(start[a].roster) /\ GiveUp(a)
  \/ Abandons(a)

RequestCommand(a) ==
  /\ "start" \in Kinds /\ a \notin AutoAttempts /\ At(a, "idle")
  /\ ~draining /\ present # {}
  /\ start' = [start EXCEPT ![a].at = "requested", ![a].gen = generation]
  /\ reservation' = a
  /\ UNCHANGED <<session_vars, channel, call, lock, pausers, actors, leave, switch, history>>

\* try_auto_listen_while_present: the room is covered and presence is still on.
DecideUpgrade(a) ==
  /\ a \in AutoAttempts /\ At(a, "upgrade")
  /\ IF /\ phase = "presence_only" /\ mode = "local" /\ present # {}
        /\ S!Coverage(present, "local")
       THEN start' = [start EXCEPT ![a].at = "requested", ![a].roster = present]
       ELSE Goto(a, "done")
  /\ UNCHANGED <<session_vars, channel, call, lock, reservation, pausers, actors, leave,
                 switch, history>>

\* Discord or a check refuses, or the token was overtaken while it answered; there
\* is no StartAttempt yet that could end a pending start.
RequestRefused(a) ==
  /\ At(a, "requested")
  /\ a \notin AutoAttempts \/ draining \/ generation # start[a].gen
  /\ start' = [start EXCEPT ![a].at = "returning", ![a].gen = 0]
  /\ UNCHANGED <<session_vars, channel, call, lock, reservation, pausers, actors, leave,
                 switch, history>>

\* The roster, the reservation with the mode it captures, and the coverage check.
ReserveAnyToken(a) ==
  /\ At(a, "requested") /\ S!Reserve(generation) /\ present # {}
  /\ start' = [start EXCEPT ![a].at = "preparing", ![a].gen = generation + 1,
                            ![a].roster = present, ![a].mode = mode]
  /\ UNCHANGED <<channel, call, lock, reservation, pausers, actors, leave, switch, history>>

Reserve(a) ==
  LET roster == IF a \in AutoAttempts THEN start[a].roster ELSE present
      usable == S!Coverage(roster, mode) /\ (a \in AutoAttempts => mode = "local")
  IN  /\ At(a, "requested") /\ S!Reserve(start[a].gen) /\ roster # {}
      /\ start' = [start EXCEPT ![a].at = IF usable THEN "preparing" ELSE "returning",
                                ![a].gen = generation + 1,
                                ![a].roster = roster, ![a].mode = mode]
      /\ UNCHANGED <<channel, call, lock, reservation, pausers, actors, leave, switch,
                     history>>

\* Models are prepared, or the preparation fails or is cancelled.
Prepare(a) ==
  /\ At(a, "preparing")
  /\ \/ Goto(a, "returning") /\ UNCHANGED lock
     \/ /\ S!StartIsCurrent(start[a].gen)
        /\ lock = NoAttempt /\ lock' = a /\ Goto(a, "locked")
  /\ UNCHANGED <<session_vars, channel, call, reservation, pausers, actors, leave, switch,
                 history>>

Replace(a) ==
  /\ Locked(a, "locked")
  /\ \/ Release(a) /\ UNCHANGED <<session_vars, call, actors, events>>
     \/ /\ S!StartIsCurrent(start[a].gen)
        /\ S!DisconnectForReplace /\ Goto(a, "clearing") /\ UNCHANGED <<lock, call, actors, events>>

\* The old actor was joined; the old session is retired and its call removed.
RemoveOldCall(a) ==
  /\ Locked(a, "clearing") /\ \A e \in DOMAIN actors : actors[e] \notin {"running", "heard"}
  /\ S!RememberRetired(call.name)
  /\ \/ call' = NoCall /\ Goto(a, "cleared") /\ UNCHANGED <<lock, actors, events>>
     \/ call # NoCall /\ Release(a) /\ UNCHANGED <<call, actors, events>>

\* A fresh muted call is configured, if nothing overtook the start meanwhile.
Configure(a) ==
  /\ Locked(a, "cleared")
  /\ \/ FailsSafe(a)
     \/ Abandons(a)
     \/ /\ ~S!StartIsCurrent(start[a].gen)
        /\ Release(a) /\ UNCHANGED <<session_vars, call, actors, events>>
     \/ /\ S!StartIsCurrent(start[a].gen)
        /\ Goto(a, "beginning") /\ UNCHANGED <<session_vars, call, lock, actors, events>>

Begin(a) ==
  /\ Locked(a, "beginning")
  /\ S!Begin(start[a].roster)
  /\ start' = [start EXCEPT ![a].at = "joining", ![a].epoch = epoch + 1]
  /\ UNCHANGED <<call, lock, actors, events>>

Join(a) ==
  /\ Locked(a, "joining")
  /\ \/ FailsSafe(a)
     \/ /\ call' = [name |-> a, epoch |-> start[a].epoch, deaf |-> TRUE]
        /\ Goto(a, "joined") /\ UNCHANGED <<session_vars, lock, actors, events>>

BindNothing(a) ==
  /\ Locked(a, "joined")
  /\ S!StartIsCurrent(start[a].gen)
  /\ Goto(a, IF start[a].mode = "disabled" THEN "presence" ELSE "bound")
  /\ UNCHANGED <<session_vars, call, lock, actors, events>>

\* Discord confirmed the bot in the channel, or it did not.
Bind(a) ==
  /\ Locked(a, "joined")
  /\ \/ FailsSafe(a)
     \/ /\ S!StartIsCurrent(start[a].gen)
        /\ S!BindDiscordSession(start[a].epoch, a)
        /\ Goto(a, IF start[a].mode = "disabled" THEN "presence" ELSE "bound")
        /\ UNCHANGED <<call, lock, actors, events>>
     \/ /\ ~(S!StartIsCurrent(start[a].gen) /\ S!IsCurrent(start[a].epoch)
             /\ phase = "connecting")
        /\ StepsAside(a)

Presence(a) ==
  /\ Locked(a, "presence")
  /\ S!SetPresence(a) /\ Release(a) /\ UNCHANGED <<call, actors, events>>

\* The notice is posted, nobody came or left, and the actor can be spawned.
Announce(a) ==
  /\ Locked(a, "bound")
  /\ \/ FailsSafe(a)
     \/ RosterMoved(a)
     \/ /\ present = start[a].roster /\ ~draining
        /\ Goto(a, "spawning") /\ UNCHANGED <<session_vars, call, lock, actors, events>>
     \/ draining /\ S!FailSafe /\ GiveUp(a) /\ UNCHANGED events

Install(a) ==
  /\ Locked(a, "spawning")
  /\ \/ /\ draining \/ ~S!IsCurrent(start[a].epoch)
        /\ UNCHANGED <<session_vars, events>> /\ GiveUp(a)
     \/ /\ S!InstallControl(start[a].epoch)
        /\ actors' = [actors EXCEPT ![start[a].epoch] = "running"]
        /\ Goto(a, "installed") /\ UNCHANGED <<call, lock, events>>

\* The last checks before the bot is unmuted and undeafened.
Enable(a) ==
  /\ Locked(a, "installed")
  /\ \/ /\ ~(S!StartIsCurrent(start[a].gen) /\ S!IsCurrent(start[a].epoch))
        /\ StepsAside(a)
     \/ FailsSafe(a)
     \/ RosterMoved(a)
     \/ /\ S!StartIsCurrent(start[a].gen) /\ S!IsCurrent(start[a].epoch)
        /\ present = start[a].roster
        /\ call' = [call EXCEPT !.deaf = FALSE]
        /\ Goto(a, "enabled") /\ UNCHANGED <<session_vars, lock, actors, events>>

\* The checks after it; auto-listen leaves the start's currency to activation.
Verify(a) ==
  LET moved == \/ ~S!StartIsCurrent(start[a].gen) \/ ~S!IsCurrent(start[a].epoch)
               \/ call.name # a
  IN  /\ Locked(a, "enabled")
      /\ \/ FailsSafe(a)
         \/ RosterMoved(a)
         \/ a \notin AutoAttempts /\ moved /\ PausesFor(a, present)
         \/ /\ present = start[a].roster /\ (moved => a \in AutoAttempts)
            /\ Goto(a, "activating") /\ UNCHANGED <<session_vars, call, lock, actors, events>>

Activate(a) ==
  /\ Locked(a, "activating")
  /\ IF S!CanActivate(start[a].epoch, start[a].gen)
       THEN /\ S!Activate(start[a].epoch, start[a].gen)
            /\ Release(a) /\ UNCHANGED <<call, actors, events>>
       ELSE /\ IF S!IsCurrent(start[a].epoch) THEN S!PauseForConsent(start[a].roster)
                                              ELSE UNCHANGED session_vars
            /\ GiveUp(a) /\ UNCHANGED events

\* StartAttempt and JoinReservation are dropped.
Finish(a) ==
  /\ At(a, "returning") /\ Goto(a, "done")
  /\ reservation' = IF reservation = a THEN NoAttempt ELSE reservation
  /\ IF pending = start[a].gen /\ pending # 0 THEN S!FinishStart(pending)
                                              ELSE UNCHANGED session_vars
  /\ UNCHANGED <<channel, call, lock, pausers, actors, leave, switch, history>>

StartStep(a) ==
  \/ DecideUpgrade(a) \/ RequestRefused(a) \/ Reserve(a) \/ Prepare(a) \/ Replace(a)
  \/ RemoveOldCall(a) \/ Configure(a) \/ Begin(a) \/ Join(a) \/ Bind(a) \/ Presence(a)
  \/ Announce(a) \/ Install(a) \/ Enable(a) \/ Verify(a) \/ Activate(a) \/ Finish(a)

-----------------------------------------------------------------------------
(* Stopping: voice_leave, retire_voice_after_leave, begin_draining           *)

\* Before its first await: the pending join and start are cancelled, the gate closed.
Leave ==
  /\ Happens("leave") /\ leave.at = "idle"
  /\ S!CancelPendingStart
  /\ reservation' = NoAttempt
  /\ leave' = [at |-> "leaving", call |-> call.name]
  /\ overtaken' = overtaken \cup UnderWay
  /\ UNCHANGED <<channel, call, lock, start, pausers, actors, switch>>

LeaveStep ==
  \/ /\ leave.at = "leaving" /\ leave' = [leave EXCEPT !.at = "left"]
     /\ call' = IF call.name = leave.call THEN NoCall ELSE call
     /\ UNCHANGED <<session_vars, lock>>
  \/ /\ leave.at = "left" /\ lock = NoAttempt /\ lock' = "leave"
     /\ S!Disconnect /\ leave' = [leave EXCEPT !.at = "removing"] /\ UNCHANGED call
  \/ /\ leave.at = "removing" /\ Reaped(control)
     /\ call' = NoCall /\ lock' = NoAttempt /\ leave' = [leave EXCEPT !.at = "done"]
     /\ IF reservation = NoAttempt THEN S!BeginDraining ELSE UNCHANGED session_vars

TakeLeaveStep ==
  LeaveStep /\ UNCHANGED <<channel, start, reservation, pausers, actors, switch, history>>

ServiceStops ==
  /\ Happens("drain") /\ ~draining
  /\ S!BeginDraining
  /\ overtaken' = overtaken \cup UnderWay
  /\ UNCHANGED <<channel, call, tasks>>

-----------------------------------------------------------------------------
(* Members and their choices                                                 *)

Enters(u) ==
  /\ Happens("enter") /\ u \notin present
  /\ present' = present \cup {u} /\ joining' = joining \cup {u}
  /\ UNCHANGED <<session_vars, call, tasks, overtaken>>

Exits(u) ==
  /\ Happens("exit") /\ u \in present
  /\ present' = present \ {u}
  /\ UNCHANGED <<session_vars, joining, call, tasks, overtaken>>

\* A button or a typed "stop listening"; both compute stop_call from the cache.
Chooses(u, choice) ==
  /\ Happens(choice)
  /\ S!ChangeConsent(u, choice, u \in present)
  /\ IF S!Stops(u, choice, u \in present)
       THEN /\ pausers' = pausers \cup {Pauser("withdraw", epoch, u)}
            /\ overtaken' = overtaken \cup UnderWay
       ELSE UNCHANGED <<pausers, overtaken>>
  /\ UNCHANGED <<channel, call, lock, start, reservation, actors, leave, switch>>

ConsentStoreStep ==
  /\ S!ConsentSaved \/ ("poison" \in Kinds /\ S!ConsentPoisoned)
  /\ UNCHANGED <<channel, call, tasks, history>>

-----------------------------------------------------------------------------
(* Gateway handlers                                                          *)

IgnoresJoin(u) ==
  /\ u \in joining /\ joining' = joining \ {u}
  /\ UNCHANGED <<session_vars, present, call, tasks, history>>

\* on_voice_state_update, for a member's join payload.
JoinHandler(u) ==
  /\ u \in joining /\ joining' = joining \ {u}
  /\ \/ /\ phase = "presence_only"
        /\ \/ \E a \in AutoAttempts :
                /\ At(a, "idle") /\ ~draining
                /\ start' = [start EXCEPT ![a].at = "upgrade", ![a].gen = generation]
           \/ (\A a \in AutoAttempts : ~At(a, "idle") \/ draining) /\ UNCHANGED start
        /\ UNCHANGED <<session_vars, pausers>>
     \/ /\ phase \in S!Live /\ u \notin attested
        /\ S!RevokeForUnattestedParticipant(u)
        /\ pausers' = pausers \cup {Pauser("join", epoch, u)}
        /\ UNCHANGED start
     \/ /\ phase \notin S!Live \cup {"presence_only"} \/ (phase \in S!Live /\ u \in attested)
        /\ UNCHANGED <<session_vars, pausers, start>>
  /\ UNCHANGED <<present, call, lock, reservation, actors, leave, switch, history>>

\* An adverse payload of the bot's own session: moved, muted or disconnected.  It
\* may be of any session the bot has had, and late.
BotPayload(s) ==
  /\ Happens("bot") /\ start[s].epoch # 0
  /\ IF s # current /\ \E i \in DOMAIN retired : retired[i] = s
       THEN UNCHANGED <<session_vars, pausers>>
       ELSE /\ S!RevokeForDiscordSession(s)
            /\ pausers' = pausers \cup {Pauser("bot", epoch, NoAttempt)}
  /\ UNCHANGED <<channel, call, lock, start, reservation, actors, leave, switch, overtaken>>

PermissionLostUntold ==
  /\ Happens("permission")
  /\ S!RevokeForExternalEvent
  /\ overtaken' = overtaken \cup UnderWay
  /\ UNCHANGED <<channel, call, tasks>>

PermissionLost ==
  /\ Happens("permission")
  /\ S!RevokeForExternalEvent
  /\ pausers' = pausers \cup {Pauser("permission", epoch, NoAttempt)}
  /\ overtaken' = overtaken \cup UnderWay
  /\ UNCHANGED <<channel, call, lock, start, reservation, actors, leave, switch>>

\* Songbird's receive handler: the first tick with somebody unattested.
UnattestedTick(u) ==
  /\ u \in present /\ ~call.deaf
  /\ S!MediaEnabled(call.epoch) /\ u \notin attested
  /\ S!RevokeMedia(call.epoch)
  /\ pausers' = pausers \cup {Pauser("receive", call.epoch, u)}
  /\ UNCHANGED <<channel, call, lock, start, reservation, actors, leave, switch, history>>

\* A frame of attested members only is handed to the actor.
Tick ==
  /\ ~call.deaf /\ S!MediaEnabled(call.epoch) /\ actors[call.epoch] = "running"
  /\ actors' = [actors EXCEPT ![call.epoch] = "heard"]
  /\ UNCHANGED <<session_vars, channel, call, lock, start, reservation, pausers, leave,
                 switch, history>>

-----------------------------------------------------------------------------
(* What the handlers' teardown tasks do after they closed the gate.          *)

MustAgree(p) ==
  {u \in Users : \/ p.kind \in {"withdraw", "join"} /\ u \in present
                 \/ p.kind = "receive" /\ u \in attested
                 \/ p.kind \in {"join", "receive"} /\ u = p.user}

Becomes(p, q) == pausers' = (pausers \ {p}) \cup q

\* Only the epoch the handler closed is paused, and only while it is live.
PauserBegins(p) ==
  /\ p.at = "begin"
  /\ IF S!IsCurrent(p.epoch) /\ (phase \in S!Live \/ p.kind = "receive")
       THEN /\ S!BeginPause(p.epoch, MustAgree(p))
            /\ Becomes(p, {[p EXCEPT !.at = "finish", !.call = call.name]})
       ELSE Becomes(p, {}) /\ UNCHANGED session_vars
  /\ UNCHANGED call

PauserFinishes(p) ==
  /\ p.at = "finish" /\ Reaped(p.epoch)
  /\ call' = IF call.name = p.call THEN NoCall ELSE call
  /\ Becomes(p, {[p EXCEPT !.at = "teardown"]})
  /\ UNCHANGED session_vars

PauserTearsAnyDown(p) ==
  /\ p.at = "teardown" /\ lock = NoAttempt
  /\ call' = NoCall /\ UNCHANGED session_vars
  /\ Becomes(p, {})

PauserTearsDown(p) ==
  /\ p.at = "teardown" /\ lock = NoAttempt
  /\ IF epoch = p.epoch + 1 /\ phase = "awaiting_consent"
       THEN /\ call' = NoCall
            /\ IF p.kind \in {"bot", "permission"} THEN S!FailSafe ELSE UNCHANGED session_vars
       ELSE UNCHANGED <<call, session_vars>>
  /\ Becomes(p, {})

PauserStep(p) ==
  /\ PauserBegins(p) \/ PauserFinishes(p) \/ PauserTearsDown(p)
  /\ UNCHANGED <<channel, lock, start, reservation, actors, leave, switch, history>>

-----------------------------------------------------------------------------
(* The actor of an epoch (voice_local.rs).  Its control was taken when       *)
(* control moved on; the cancel arm comes first in its loop.                 *)

Actor(e, from, to) == actors[e] = from /\ actors' = [actors EXCEPT ![e] = to]
Conversing(e) == actors[e] \in {"running", "heard"} /\ control = e

ActorReportsEarly(e, p) ==
  /\ actors[e] \in {"running", "heard"} /\ S!IsCurrent(e)
  /\ S!SetStatus(e, p) /\ UNCHANGED <<call, actors, pausers, history>>

ActorReports(e, p) ==
  /\ actors[e] = "heard" /\ S!IsCurrent(e)
  /\ S!SetStatus(e, p) /\ UNCHANGED <<call, actors, pausers, history>>

\* fail_session; a spoken withdrawal closes the gate and records the choice first.
ActorFails(e) ==
  /\ Happens("fail") /\ Conversing(e)
  /\ actors' = [actors EXCEPT ![e] = "failing"]
  /\ IF media = e THEN S!RevokeMedia(e) ELSE UNCHANGED session_vars
  /\ UNCHANGED <<call, pausers, overtaken>>

HearsWithdrawal(e, u) ==
  /\ Happens("spoken") /\ actors[e] = "heard" /\ control = e
  /\ actors' = [actors EXCEPT ![e] = "withdrawing"]
  /\ S!ChangeConsent(u, "withdraw", TRUE)
  /\ overtaken' = overtaken \cup UnderWay
  /\ UNCHANGED <<call, pausers>>

ActorEnds(e) ==
  \/ /\ \E from \in {"failing", "withdrawing"} : Actor(e, from, "leaving")
     /\ IF ~S!IsCurrent(e) THEN UNCHANGED session_vars
        ELSE IF actors[e] = "failing" THEN S!ActorStop(e, "failed")
        ELSE S!ActorStop(e, "awaiting_consent")
     /\ UNCHANGED <<call, pausers, history>>
  \/ /\ Actor(e, "leaving", "gone")
     /\ call' = IF call.epoch = e THEN NoCall ELSE call
     /\ UNCHANGED <<session_vars, pausers, history>>
  \/ /\ control # e /\ \E from \in {"running", "heard"} : Actor(e, from, "gone")
     /\ UNCHANGED <<session_vars, call, pausers, history>>

ActorStep(e) ==
  /\ \/ \E p \in events.bound.reports : ActorReports(e, p)
     \/ ActorFails(e) \/ ActorEnds(e) \/ \E u \in Users : HearsWithdrawal(e, u)
  /\ UNCHANGED <<channel, lock, start, reservation, leave, switch>>

-----------------------------------------------------------------------------
(* /voice mode: the phase is read, then the mode written, under transition.  *)

SwitchReads ==
  /\ Happens("mode") /\ switch = "idle" /\ lock = NoAttempt
  /\ lock' = "switch" /\ switch' = phase
  /\ UNCHANGED <<session_vars, channel, call, start, reservation, pausers, actors, leave,
                 overtaken>>

SwitchWrites ==
  /\ lock = "switch" /\ switch # "idle"
  /\ lock' = NoAttempt /\ switch' = "idle"
  /\ \/ \E m \in S!Modes \ {mode} : S!SwitchEffectiveMode(m, switch)
     \/ /\ pending # 0 \/ media # 0 \/ switch \notin S!Idle
        /\ UNCHANGED session_vars
  /\ UNCHANGED <<channel, call, start, reservation, pausers, actors, leave, history>>

-----------------------------------------------------------------------------
Next ==
  \/ \E a \in Attempts : RequestCommand(a) \/ StartStep(a)
  \/ Leave \/ TakeLeaveStep \/ ServiceStops
  \/ \E u \in Users : \/ Enters(u) \/ Exits(u) \/ JoinHandler(u) \/ UnattestedTick(u)
                      \/ \E choice \in {"agree", "withdraw"} : Chooses(u, choice)
  \/ ConsentStoreStep \/ Tick \/ PermissionLost
  \/ \E s \in Attempts : BotPayload(s)
  \/ \E p \in pausers : PauserStep(p)
  \/ \E e \in DOMAIN actors : ActorStep(e)
  \/ SwitchReads \/ SwitchWrites

\* A task that is under way goes on; members, moderators and shutdown are free.
Fairness ==
  /\ \A a \in Attempts : WF_vars(StartStep(a))
  /\ WF_vars(TakeLeaveStep) /\ WF_vars(SwitchWrites)
  /\ \A u \in Users : WF_vars(JoinHandler(u))
  /\ WF_vars(\E p \in pausers : PauserStep(p))
  /\ \A e \in 0..MaxEpoch : WF_vars(ActorStep(e) /\ ActorEnds(e))

Spec == Init /\ [][Next]_vars /\ Fairness

-----------------------------------------------------------------------------
(* Properties *)

\* The callers keep the conventions VoiceSession's theorems assume, so everything
\* proved there holds of the call: its gate, its mode, its control.
KeepsSession == S!Init /\ [][S!Next]_session_vars

\* While the gate is open, everybody the cache shows in the channel is attested, or
\* their join payload is still to be handled and will close it.
NobodyUnannounced == media # 0 => present \subseteq attested \cup joining

\* The gate opens only for a start that no leave, withdrawal by a participant, lost
\* permission or shutdown has overtaken since it was asked for.
StopOutlivesStart ==
  [][media = 0 /\ media' # 0 => lock \notin overtaken]_vars

\* Members are heard in the mode the notice of the start that opened the gate named.
HeardAsAnnounced ==
  \A a \in Attempts : media # 0 /\ start[a].epoch = media => start[a].mode = processing_mode

\* The Discord call that feeds an open gate is the one whose session is bound, so an
\* adverse event about it is classified as current and closes the gate.
CallIsBound == media # 0 /\ call # NoCall => call.epoch = media /\ current = call.name

\* A handler's teardown never removes the call of a start that came after it.
TeardownSparesNewerCall ==
  [][\A p \in pausers \ pausers' : call # NoCall /\ call' = NoCall => call.epoch <= p.epoch]_vars

\* A gate closed under a live call is followed by the end of that epoch and of its
\* actor: the runtime does not stay "listening" to nobody, and no actor goes on
\* because its control was not taken with its epoch (shutdown excepted).
RevokedIsTornDown ==
  \A e \in 1..MaxEpoch :
    (epoch = e /\ phase \in S!Audio /\ media = 0)
      ~> ((epoch # e /\ actors[e] \notin {"running", "heard"}) \/ draining)

\* Every start reaches its end and gives up the transition lock and its reservation.
StartsEnd ==
  \A a \in Attempts : At(a, "requested") ~> (At(a, "done") /\ lock # a /\ reservation # a)
=============================================================================
