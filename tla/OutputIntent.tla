---------------------------- MODULE OutputIntent ----------------------------
(***************************************************************************)
(* The one authoritative output choice of the appliance and the handlers   *)
(* that change it: the HTTP requests of ControlApi and the press of the    *)
(* rotary encoder.                                                         *)
(*                                                                         *)
(* A handler first records the intent (StateStore.set_output_target), then *)
(* applies it under two FIFO asyncio locks: ControlApi._output_mode_lock,  *)
(* which only the HTTP requests take, and output_transition_lock, which    *)
(* every handler takes.  An action is the code between two awaits that can *)
(* suspend; a StateStore setter never suspends, so it belongs to the       *)
(* action around it.  Acquiring a free lock does not suspend either: the   *)
(* model lets other handlers run at that point, and so has every behaviour *)
(* of the code and a few more.                                             *)
(*                                                                         *)
(* Modelled for sendspin.source_enabled = true, as the installer writes    *)
(* it.  The controller, which also writes the routing phase, is not in     *)
(* this module.                                                            *)
(***************************************************************************)
EXTENDS Integers, Sequences

CONSTANTS
    Requests,       \* HTTP request handlers that may be in flight at once
    Encoder,        \* the task of HardwareControls.run
    MaxGeneration,  \* bound: no intent is submitted at this generation
    PlayOutcomes,   \* how play_vinyl_source may end, subset of Outcomes
    NoSession       \* routing_session_generation is None

Outcomes == {"started", "missing", "raised", "cancelled"}

ASSUME IntentAssumption ==
    /\ Encoder \notin Requests
    /\ MaxGeneration \in Nat
    /\ PlayOutcomes \subseteq Outcomes
    /\ NoSession \notin Nat

Handlers == Requests \cup {Encoder}
Targets == {"console", "downstairs"}
Phases == {"stable", "starting", "stopping", "degraded"}
Publishers == {"distribution", "phono", "bluetooth"}
Physical == {"phono", "bluetooth"}
Sources == Physical \cup {"none"}

(***************************************************************************)
(* "disable_phono": suspended in set_distribution_enabled(False), about to *)
(* disable phono; "disable_bluetooth": likewise one call later;            *)
(* "stop_players" and "playing": waiting for Music Assistant.              *)
(***************************************************************************)
Critical == {"disable_phono", "disable_bluetooth", "stop_players", "playing"}
Inside == Critical \cup {"wait_transition"}
Control == Inside \cup {"idle", "wait_api"}

VARIABLES
    target,        \* StateStore.output_target
    generation,    \* StateStore.routing_generation
    phase,         \* StateStore.routing_phase
    session,       \* routing_session_generation and routing_session_source
    saved,         \* content of the file output-target
    enabled,       \* distribution flags of the publisher that are True
    clientKnown,   \* publisher.client_id is not None
    apiLock,       \* _output_mode_lock: holder, then waiters in order
    transitionLock,\* output_transition_lock: holder, then waiters in order
    pc, mode,      \* where a handler is, and the mode it was asked for
    previous,      \* output_target before the request
    gen,           \* the generation the handler's intent was given
    snapshot,      \* the generation output_mode_action read under its lock
    playFor        \* the source output_mode_action started

intent == <<target, generation>>
routing == <<phase, session>>
locals == <<mode, previous, gen, snapshot, playFor>>
vars == <<intent, routing, saved, enabled, clientKnown, apiLock,
          transitionLock, pc, locals>>

None == [gen |-> NoSession, source |-> "none"]
Session(g, s) == [gen |-> g, source |-> s]

TypeOK ==
    /\ target \in Targets
    /\ generation \in Nat
    /\ phase \in Phases
    /\ session \in [gen : Nat \cup {NoSession}, source : Sources]
    /\ saved \in Targets
    /\ enabled \in SUBSET Publishers
    /\ clientKnown \in BOOLEAN
    /\ apiLock \in Seq(Requests)
    /\ transitionLock \in Seq(Handlers)
    /\ pc \in [Handlers -> Control]
    /\ mode \in [Handlers -> Targets]
    /\ previous \in [Handlers -> Targets]
    /\ gen \in [Handlers -> Nat]
    /\ snapshot \in [Handlers -> Nat]
    /\ playFor \in [Handlers -> Sources]

-----------------------------------------------------------------------------
(* Starting the daemon: the file is restored, the publisher follows it.    *)

EnabledAtStart(t) == IF t = "downstairs" THEN Publishers ELSE {}

Boot(t) ==
    /\ target = t
    /\ generation = 0
    /\ phase = "stable"
    /\ session = None
    /\ saved = t
    /\ enabled = EnabledAtStart(t)
    /\ clientKnown = FALSE
    /\ apiLock = <<>>
    /\ transitionLock = <<>>
    /\ pc = [h \in Handlers |-> "idle"]
    /\ mode = [h \in Handlers |-> "console"]
    /\ previous = [h \in Handlers |-> "console"]
    /\ gen = [h \in Handlers |-> 0]
    /\ snapshot = [h \in Handlers |-> 0]
    /\ playFor = [h \in Handlers |-> "none"]

Init == \E t \in Targets : Boot(t)

(* The process dies at any await and systemd starts it again: only the     *)
(* file survives.                                                          *)
Restart ==
    /\ target' = saved
    /\ generation' = 0
    /\ phase' = "stable"
    /\ session' = None
    /\ enabled' = EnabledAtStart(saved)
    /\ clientKnown' = FALSE
    /\ apiLock' = <<>>
    /\ transitionLock' = <<>>
    /\ pc' = [h \in Handlers |-> "idle"]
    /\ mode' = [h \in Handlers |-> "console"]
    /\ previous' = [h \in Handlers |-> "console"]
    /\ gen' = [h \in Handlers |-> 0]
    /\ snapshot' = [h \in Handlers |-> 0]
    /\ playFor' = [h \in Handlers |-> "none"]
    /\ UNCHANGED saved

(* publisher.client_id is set once, when the identity has been loaded.     *)
LearnClient ==
    /\ ~clientKnown
    /\ clientKnown' = TRUE
    /\ UNCHANGED <<intent, routing, saved, enabled, apiLock, transitionLock,
                   pc, locals>>

-----------------------------------------------------------------------------
(* Recording an intent.                                                    *)

(* Mutant: the target is stored in place of the phase.                      *)
PhaseIsTarget(t) == t

PhaseToward(t) == IF t = "downstairs" THEN "starting" ELSE "stopping"

set_output_target(t) ==
    /\ target' = t
    /\ generation' = generation + 1
    /\ phase' = PhaseToward(t)
    /\ UNCHANGED session

set_routing_state(p, s) == phase' = p /\ session' = s

Record(h, m) ==
    /\ pc[h] = "idle"
    /\ generation < MaxGeneration
    /\ set_output_target(m)
    /\ mode' = [mode EXCEPT ![h] = m]
    /\ previous' = [previous EXCEPT ![h] = target]
    /\ gen' = [gen EXCEPT ![h] = generation + 1]
    /\ UNCHANGED <<saved, enabled, clientKnown, snapshot, playFor>>

(* PUT /v1/output-mode and its compatibility forms.                        *)
Submit(r, m) ==
    /\ Record(r, m)
    /\ apiLock' = Append(apiLock, r)
    /\ pc' = [pc EXCEPT ![r] = "wait_api"]
    /\ UNCHANGED transitionLock

(* The press of the encoder on a phono route; the route that picks the     *)
(* direction is the last one published and may be any.                     *)
Press(m) ==
    /\ Record(Encoder, m)
    /\ transitionLock' = Append(transitionLock, Encoder)
    /\ pc' = [pc EXCEPT ![Encoder] = "wait_transition"]
    /\ UNCHANGED apiLock

Holds(lock, h) == lock # <<>> /\ Head(lock) = h

(* Mutant: the generation is not compared.                                  *)
IsCurrentUnchecked(h) == TRUE

IsCurrent(h) == gen[h] = generation

(* The request has _output_mode_lock: a newer intent supersedes it.        *)
Enter(r) ==
    /\ pc[r] = "wait_api"
    /\ Holds(apiLock, r)
    /\ IF IsCurrent(r)
         THEN /\ pc' = [pc EXCEPT ![r] = "wait_transition"]
              /\ transitionLock' = Append(transitionLock, r)
              /\ UNCHANGED apiLock
         ELSE /\ pc' = [pc EXCEPT ![r] = "idle"]
              /\ apiLock' = Tail(apiLock)
              /\ UNCHANGED transitionLock
    /\ UNCHANGED <<intent, routing, saved, enabled, clientKnown, locals>>

-----------------------------------------------------------------------------
(* output_mode_action: applying the intent under output_transition_lock.   *)

(* Mutant: the target is not compared under the lock.                       *)
StillWantedUnchecked(h) == TRUE

StillWanted(h) == mode[h] = target

(* Mutant: the transition is not serialized.                                *)
TurnUnlocked(h) == pc[h] = "wait_transition"

Turn(h) == pc[h] = "wait_transition" /\ Holds(transitionLock, h)

(* Mutant: an exit that does not release output_transition_lock.            *)
LeaveLocked(h) ==
    /\ pc' = [pc EXCEPT ![h] = "idle"]
    /\ apiLock' = IF h \in Requests THEN Tail(apiLock) ELSE apiLock
    /\ UNCHANGED transitionLock

(* Returning, or raising, out of the action releases both locks.           *)
Leave(h) ==
    /\ pc' = [pc EXCEPT ![h] = "idle"]
    /\ transitionLock' = Tail(transitionLock)
    /\ apiLock' = IF h \in Requests THEN Tail(apiLock) ELSE apiLock

Stay(h, at) ==
    /\ pc' = [pc EXCEPT ![h] = at]
    /\ UNCHANGED <<apiLock, transitionLock>>

Superseded(h) ==
    /\ Turn(h)
    /\ ~StillWanted(h)
    /\ Leave(h)
    /\ UNCHANGED <<intent, routing, saved, enabled, clientKnown, locals>>

(* Mutant: the file is not written.                                         *)
persist_nothing(h) == saved' = saved

persist_output_target(h) == saved' = mode[h]

StartConsole(h) ==
    /\ Turn(h)
    /\ StillWanted(h)
    /\ mode[h] = "console"
    /\ persist_output_target(h)
    /\ enabled' = enabled \ {"distribution"}
    /\ snapshot' = [snapshot EXCEPT ![h] = generation]
    /\ Stay(h, "disable_phono")
    /\ UNCHANGED <<intent, routing, clientKnown, mode, previous, gen, playFor>>

DisablePhono(h) ==
    /\ pc[h] = "disable_phono"
    /\ enabled' = enabled \ {"phono"}
    /\ Stay(h, "disable_bluetooth")
    /\ UNCHANGED <<intent, routing, saved, clientKnown, locals>>

(* Mutant: the same source is disabled twice.                               *)
DisablePhonoAgain(h) ==
    /\ pc[h] = "disable_bluetooth"
    /\ enabled' = enabled \ {"phono"}
    /\ Stay(h, "stop_players")
    /\ UNCHANGED <<intent, routing, saved, clientKnown, locals>>

DisableBluetooth(h) ==
    /\ pc[h] = "disable_bluetooth"
    /\ enabled' = enabled \ {"bluetooth"}
    /\ Stay(h, "stop_players")
    /\ UNCHANGED <<intent, routing, saved, clientKnown, locals>>

(* stop_players answered or failed, which is only reported.                *)
FinishConsole(h) ==
    /\ pc[h] = "stop_players"
    /\ set_routing_state("stable", None)
    /\ Leave(h)
    /\ UNCHANGED <<intent, saved, enabled, clientKnown, locals>>

(* A Downstairs request that returns before Music Assistant is asked.      *)
DownstairsUnconnected(h) ==
    /\ ~clientKnown
    /\ set_routing_state("degraded", None)
    /\ Leave(h)
    /\ UNCHANGED <<enabled, playFor>>

(* No source is active, or Bluetooth is and its samples do not flow.       *)
DownstairsWithoutSource(h, source) ==
    /\ clientKnown
    /\ enabled' = Publishers
    /\ \/ source = "none" /\ set_routing_state("stable", None)
       \/ source = "bluetooth" /\ set_routing_state("starting", None)
    /\ Leave(h)
    /\ UNCHANGED playFor

DownstairsWithSource(h, source) ==
    /\ clientKnown
    /\ source \in Physical
    /\ enabled' = Publishers
    /\ set_routing_state("starting", Session(generation, source))
    /\ playFor' = [playFor EXCEPT ![h] = source]
    /\ Stay(h, "playing")

StartDownstairs(h) ==
    /\ Turn(h)
    /\ StillWanted(h)
    /\ mode[h] = "downstairs"
    /\ persist_output_target(h)
    /\ snapshot' = [snapshot EXCEPT ![h] = generation]
    /\ \/ DownstairsUnconnected(h)
       \/ \E source \in Sources :
             \/ DownstairsWithoutSource(h, source)
             \/ DownstairsWithSource(h, source)
    /\ UNCHANGED <<intent, clientKnown, mode, previous, gen>>

SnapshotIsCurrent(h) == snapshot[h] = generation

Played(h, outcome) == pc[h] = "playing" /\ outcome \in PlayOutcomes

PlayStarted(h) ==
    /\ Played(h, "started")
    /\ Leave(h)
    /\ UNCHANGED <<intent, routing, saved, enabled, clientKnown, locals>>

(* Music Assistant has no player of the configured name.                   *)
PlayMissing(h) ==
    /\ Played(h, "missing")
    /\ IF SnapshotIsCurrent(h)
         THEN set_routing_state("degraded", Session(snapshot[h], playFor[h]))
         ELSE UNCHANGED routing
    /\ Leave(h)
    /\ UNCHANGED <<intent, saved, enabled, clientKnown, locals>>

(* The request's exception handler: the previous target, same generation.  *)
RollBack(h) ==
    IF IsCurrent(h)
      THEN /\ target' = previous[h]
           /\ phase' = PhaseToward(previous[h])
           /\ UNCHANGED <<generation, session>>
      ELSE UNCHANGED <<intent, routing>>

PlayRaised(h) ==
    /\ Played(h, "raised")
    /\ IF h \in Requests THEN RollBack(h) ELSE UNCHANGED <<intent, routing>>
    /\ Leave(h)
    /\ UNCHANGED <<saved, enabled, clientKnown, locals>>

(* The play request is shielded; cancelling it raises CancelledError here, *)
(* which no handler catches.  It ends an HTTP request; in the encoder's    *)
(* task it ends run_daemon.                                                *)
PlayCancelled(h) ==
    /\ Played(h, "cancelled")
    /\ h \in Requests
    /\ Leave(h)
    /\ UNCHANGED <<intent, routing, saved, enabled, clientKnown, locals>>

EncoderCancelled == Played(Encoder, "cancelled") /\ Restart

-----------------------------------------------------------------------------
Answer(h) ==
    \/ FinishConsole(h) \/ PlayStarted(h) \/ PlayMissing(h)
    \/ PlayRaised(h) \/ PlayCancelled(h)

Advance(h) ==
    \/ Superseded(h) \/ StartConsole(h) \/ StartDownstairs(h)
    \/ DisablePhono(h) \/ DisableBluetooth(h)

Next ==
    \/ \E r \in Requests, m \in Targets : Submit(r, m)
    \/ \E m \in Targets : Press(m)
    \/ \E r \in Requests : Enter(r)
    \/ \E h \in Handlers : Advance(h) \/ Answer(h)
    \/ EncoderCancelled
    \/ LearnClient
    \/ Restart

Spec == Init /\ [][Next]_vars

(* The event loop runs every task that can run. *)
Scheduled ==
    /\ \A r \in Requests : WF_vars(Enter(r))
    /\ \A h \in Handlers : WF_vars(Advance(h))

(* Music Assistant answers, or its connection is lost, which also answers. *)
Answered ==
    /\ \A h \in Handlers : WF_vars(Answer(h))
    /\ WF_vars(EncoderCancelled)

FairSpec == Spec /\ Scheduled /\ Answered

-----------------------------------------------------------------------------
(* Properties.                                                             *)

Settled == \A h \in Handlers : pc[h] = "idle"

(* Everything the choice decides follows it: the file, the publisher, and  *)
(* for Console the phase.  A Downstairs choice made before the publisher   *)
(* knew its identity is left degraded, with the flags as they were.        *)
Agreement ==
    /\ saved = target
    /\ target = "console" => enabled = {} /\ phase = "stable"
    /\ target = "downstairs" => enabled = Publishers \/ phase = "degraded"

(* However requests and presses interleave, once the last handler has      *)
(* returned the file and the publisher agree with the last intent: two     *)
(* locks, a generation test under the first and a target test under the    *)
(* second leave no winner half applied.                                    *)
SettledAgreement == Settled => Agreement

(* Once the last handler has returned, a Downstairs choice is the one a    *)
(* restart would restore, even after a start that failed and was rolled    *)
(* back.                                                                   *)
DownstairsDurable == Settled /\ target = "downstairs" => saved = "downstairs"

(* A start that was superseded while Music Assistant worked changes        *)
(* neither the intent nor the routing state when its answer comes.         *)
StaleStartHarmless ==
    [][\A h \in Handlers :
          (/\ pc[h] = "playing" /\ pc'[h] = "idle"
           /\ snapshot[h] # generation /\ generation' = generation)
          => UNCHANGED <<intent, routing>>]_vars

(* Every request and every press is eventually done with.                  *)
EveryHandlerReturns ==
    \A h \in Handlers : pc[h] # "idle" ~> pc[h] = "idle"

(* A Console choice silences the publisher, unless it is taken back.       *)
ConsoleEventuallyApplied ==
    target = "console" ~> enabled = {} \/ target # "console"

(* The handlers implement the choice they promise.                         *)
Choice == INSTANCE OutputChoice WITH
    choice <- target, file <- saved, published <- enabled

ImplementsChoice == Choice!Spec

----------------------------------------------------------------------------
(* What the documents say and the code does not do.  TLC finds each of     *)
(* these violated; the README says how.                                    *)

(* Once the last handler has returned, the one persisted intent is the one *)
(* in force.                                                               *)
OnePersistedIntent == Settled => saved = target

(* Once the last handler has returned and Downstairs is in force, a        *)
(* publisher that can reach the server is enabled.                         *)
DownstairsOpensPublisher ==
    Settled /\ target = "downstairs" /\ clientKnown => enabled = Publishers
=============================================================================
