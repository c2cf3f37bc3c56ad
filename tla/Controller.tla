----------------------------- MODULE Controller -----------------------------
(***************************************************************************)
(* The control loop: Controller.run calls tick for ever.  A tick samples   *)
(* the inputs, asks Music Assistant, decides on a route, starts or stops   *)
(* the distribution, drives the router and the amplifier, and publishes a  *)
(* status.  An action is the code between two awaits that can suspend, so  *)
(* that an output choice may fall into any of them.                        *)
(*                                                                         *)
(* The choice and its transition (api.py, output_mode_action of            *)
(* runtime.py) are here as far as they touch what a tick reads; their      *)
(* interleavings with each other are the subject of OutputIntent.          *)
(*                                                                         *)
(* Routing generations are only ever compared with the current one, so     *)
(* session is the source of a session of the current generation and "none" *)
(* for an older or absent one.  What the publisher and Music Assistant     *)
(* report is read afresh at each use and may have changed: it is chosen,   *)
(* not stored.  Durations are abstract: a delay may have elapsed or not.   *)
(* Modelled for sendspin.source_enabled, bluetooth.enabled and the         *)
(* timestamped backend.                                                    *)
(***************************************************************************)
EXTENDS RoutingPolicy

VARIABLES
    target,      \* StateStore.output_target
    owed,        \* an output_mode_action for the latest choice has yet to begin
    transition,  \* what output_mode_action waits for
    phase,       \* StateStore.routing_phase
    session,     \* source of a session that carries the current generation
    published,   \* the source the publisher has selected
    reported,    \* the active source of StateStore.status
    route,       \* Controller.route, "startup" for None
    phonoActive, \* detector.active
    btActive,    \* bluetooth_detector.active
    pending,     \* _distribution_pending_source and _since
    owner,       \* the player the router was last told to keep running
    pc, tick     \* where the loop is, and the local variables of the tick

intent == <<target, owed, transition>>
store == <<phase, session>>
detectors == <<phonoActive, btActive>>
vars == <<intent, store, published, reported, route, detectors, pending,
          owner, pc, tick>>

Levels == {"quiet", "held", "loud"}    \* "held": between the two thresholds
Links == {"down", "quiet", "healthy", "confirmed"}
NoPending == [source |-> "none", overdue |-> FALSE]

(***************************************************************************)
(* signal: phono_signal_present; phono: phono_active; ok: capture_ok;      *)
(* playing: bluetooth_transport_playing; pre, woken: local audio and       *)
(* output preactivated; ma: ma_playing; mode: output_mode; bt:             *)
(* bluetooth_active; ready: bluetooth_pcm_ready.                           *)
(***************************************************************************)
NoTick ==
    [signal |-> FALSE, phono |-> FALSE, ok |-> TRUE, playing |-> FALSE,
     pre |-> FALSE, woken |-> FALSE, ma |-> FALSE, mode |-> "console",
     bt |-> FALSE, ready |-> FALSE, selected |-> "none", available |-> FALSE,
     capable |-> FALSE, healthy |-> FALSE, desired |-> "idle"]

Ticks ==
    [signal : BOOLEAN, phono : BOOLEAN, ok : BOOLEAN, playing : BOOLEAN,
     pre : BOOLEAN, woken : BOOLEAN, ma : BOOLEAN, mode : Targets,
     bt : BOOLEAN, ready : BOOLEAN, selected : Sources, available : BOOLEAN,
     capable : BOOLEAN, healthy : BOOLEAN, desired : Routes]

Player(r) ==
    CASE r = "local_phono" -> "phono"
      [] r = "local_bluetooth" -> "bluetooth"
      [] r \in Distributed \cup {"ma_playback"} -> "ma"
      [] OTHER -> "none"

TypeOK ==
    /\ target \in Targets /\ owed \in BOOLEAN
    /\ transition \in {"none", "console", "superseded"} \cup Physical
    /\ phase \in Phases
    /\ {session, published, reported} \subseteq Sources
    /\ route \in Routes \cup {"startup"}
    /\ {phonoActive, btActive} \subseteq BOOLEAN
    /\ pending \in [source : Sources, overdue : BOOLEAN]
    /\ owner \in {"phono", "bluetooth", "ma", "none"}
    /\ pc \in {"sleep", "preactivate", "prewake", "ask_ma", "sample_bt",
               "preparing", "release", "prepare", "apply", "wake", "activate",
               "ended"}
    /\ tick \in Ticks

Init ==
    /\ target \in Targets /\ owed = FALSE /\ transition = "none"
    /\ phase = "stable" /\ session = "none"
    /\ published = "none" /\ reported = "none"
    /\ route = "startup" /\ phonoActive = FALSE /\ btActive = FALSE
    /\ pending = NoPending /\ owner = "none"
    /\ pc = "sleep" /\ tick = NoTick

----------------------------------------------------------------------------
(* The output choice and its transition.                                   *)

Set(p, s) == phase' = p /\ session' = s

set_output_target(t) ==
    /\ target' = t
    /\ phase' = IF t = "downstairs" THEN "starting" ELSE "stopping"

Choose(t) ==
    /\ set_output_target(t)
    /\ session' = "none"
    /\ owed' = TRUE
    /\ transition' = IF transition \in Physical THEN "superseded" ELSE transition
    /\ UNCHANGED <<published, reported, route, detectors, pending, owner, pc, tick>>

StartsNothing ==
    /\ transition' = "none"
    /\ UNCHANGED published
    /\ \/ Set("degraded", "none")                       \* no publisher identity
       \/ reported = "none" /\ Set("stable", "none")
       \/ reported = "bluetooth" /\ Set("starting", "none")  \* no fresh PCM

StartsSession ==
    /\ reported \in Physical
    /\ Set("starting", reported)
    /\ published' = reported
    /\ transition' = reported

BeginTransition ==
    /\ owed /\ transition = "none"
    /\ owed' = FALSE
    /\ \/ target = "console" /\ transition' = "console" /\ UNCHANGED <<store, published>>
       \/ target = "downstairs" /\ (StartsNothing \/ StartsSession)
    /\ UNCHANGED <<target, reported, route, detectors, pending, owner, pc, tick>>

ConsoleCommitted ==
    /\ transition = "console"
    /\ transition' = "none"
    /\ Set("stable", "none")
    /\ UNCHANGED <<target, owed, published, reported, route, detectors, pending,
                   owner, pc, tick>>

(* The start is answered: done, superseded, or the player is missing.      *)
StartAnswered ==
    /\ transition \in Physical \cup {"superseded"}
    /\ transition' = "none"
    /\ \/ UNCHANGED store
       \/ transition \in Physical /\ Set("degraded", transition)
    /\ UNCHANGED <<target, owed, published, reported, route, detectors, pending,
                   owner, pc, tick>>

(* An HTTP request whose start raises puts its previous target back, with  *)
(* the generation as it is.                                                *)
StartRaised ==
    /\ transition \in Physical
    /\ transition' = "none"
    /\ \E previous \in Targets : set_output_target(previous)
    /\ UNCHANGED <<owed, session, published, reported, route, detectors, pending,
                   owner, pc, tick>>

----------------------------------------------------------------------------
(* Activity detection: a level on the other side of the boundary flips the *)
(* detector once it has lasted long enough.                                *)

Above(level, active) == level = "loud" \/ (active /\ level = "held")
Update(active, level) ==
    IF Above(level, active) = active THEN {active} ELSE {active, ~active}

(* A peak of the impact of a needle only counts while nothing plays.       *)
MayWake(playing) == ~phonoActive /\ ~playing /\ route \in {"startup", "idle"}

Sample(level, playing, wake) ==
    /\ pc = "sleep"
    /\ wake => MayWake(playing)
    /\ \E active \in Update(phonoActive \/ wake, level) :
        LET signal == wake \/ Above(level, active) IN
        /\ phonoActive' = active
        /\ tick' = [NoTick EXCEPT !.signal = signal, !.phono = active, !.playing = playing]
        /\ pc' = IF signal /\ route \in {"startup", "idle"}
                 THEN "preactivate" ELSE "ask_ma"
    /\ UNCHANGED <<intent, store, published, reported, route, btActive, pending, owner>>

(* Mutant: a failed capture leaves the detector as it was.                 *)
SampleFailsHeld(playing) ==
    /\ pc = "sleep"
    /\ tick' = [NoTick EXCEPT !.ok = FALSE, !.playing = playing, !.phono = phonoActive]
    /\ pc' = "ask_ma"
    /\ UNCHANGED <<intent, store, published, reported, route, detectors, pending, owner>>

(* A failed or silent capture counts as inactive at once.                  *)
SampleFails(playing) ==
    /\ pc = "sleep"
    /\ phonoActive' = FALSE
    /\ tick' = [NoTick EXCEPT !.ok = FALSE, !.playing = playing, !.phono = phonoActive']
    /\ pc' = "ask_ma"
    /\ UNCHANGED <<intent, store, published, reported, route, btActive, pending, owner>>

(* The direct route is opened before Music Assistant is asked.             *)
Preactivate ==
    /\ pc = "preactivate"
    /\ \/ owner' = "phono" /\ pc' = "prewake" /\ tick' = [tick EXCEPT !.pre = TRUE]
       \/ owner' = "none" /\ pc' = "ask_ma" /\ UNCHANGED tick
    /\ UNCHANGED <<intent, store, published, reported, route, detectors, pending>>

PreactivateOutput ==
    /\ pc = "prewake"
    /\ pc' = "ask_ma"
    /\ \E woken \in BOOLEAN : tick' = [tick EXCEPT !.woken = woken]
    /\ UNCHANGED <<intent, store, published, reported, route, detectors, pending, owner>>

----------------------------------------------------------------------------
(* The callbacks of runtime.py.                                            *)

distribution_available(link, stopPending) ==
    /\ target = "downstairs"
    /\ \/ stopPending /\ route = "distributed_phono" /\ session # "none"
       \/ /\ link = "confirmed"
          /\ reported \in Physical
          /\ published = reported /\ session = reported

distribution_capable(source, link, stopPending) ==
    /\ target = "downstairs"
    /\ source = "bluetooth" \/ (source = "phono" /\ ~stopPending)
    /\ link \in {"quiet", "healthy", "confirmed"}

CanStart(t) == t.selected # "bluetooth" \/ t.ready

selected_source(t) ==
    CASE t.signal \/ (t.phono /\ ~t.bt) -> "phono"
      [] ~t.signal /\ t.bt -> "bluetooth"
      [] OTHER -> "none"

Observation(t) ==
    [active |-> t.selected, selected |-> t.selected,
     signals |-> IF t.available THEN Signals ELSE {},
     consolePlaying |-> IF t.selected = "none" THEN t.ma ELSE t.available,
     capable |-> t.capable, currentSession |-> t.available]

(* Mutant: the latch holds Bluetooth although a record plays.              *)
LatchedOverPhono(t) ==
    CASE /\ route = "distributed_bluetooth"
         /\ t.bt /\ t.capable /\ t.healthy -> route
      [] /\ route = "distributed_phono"
         /\ t.available /\ t.selected = "phono" -> route
      [] OTHER -> reduce_routing(t.mode, Observation(t), route \in Distributed).route

(* Mutant: the latch asks only whether the stream is healthy.              *)
LatchedWithoutCapability(t) ==
    CASE /\ route = "distributed_bluetooth"
         /\ t.bt /\ ~t.phono /\ t.healthy -> route
      [] /\ route = "distributed_phono"
         /\ t.available /\ t.selected = "phono" -> route
      [] OTHER -> reduce_routing(t.mode, Observation(t), route \in Distributed).route

(* A confirmed route is kept through a short gap in the telemetry.         *)
Latched(t) ==
    CASE /\ route = "distributed_bluetooth"
         /\ t.bt /\ ~t.phono /\ t.capable /\ t.healthy -> route
      [] /\ route = "distributed_phono"
         /\ t.available /\ t.selected = "phono" -> route
      [] OTHER -> reduce_routing(t.mode, Observation(t), route \in Distributed).route

Leaving(t) == route \in Distributed /\ Latched(t) \notin Distributed

Desired(t) ==
    IF Leaving(t) /\ Latched(t) = "ma_playback" THEN "idle" ELSE Latched(t)

(* Mutant: a distribution that is confirmed needs no preparation.          *)
PreparingUnlessConfirmed(t) ==
    Desired(t) \in Distributed \ {route} /\ CanStart(t) /\ ~t.available

(* Mutant: any new route is prepared like a distributed one.               *)
PreparingAnyRoute(t) == Desired(t) # route /\ CanStart(t)

Preparing(t) == Desired(t) \in Distributed \ {route} /\ CanStart(t)

(* What follows the decision, with the variables that are still read.      *)
Proceed(t) ==
    /\ pc' = CASE Leaving(t) -> "release"
               [] ~Leaving(t) /\ Preparing(t) -> "prepare"
               [] OTHER -> "apply"
    /\ tick' = [NoTick EXCEPT
            !.desired = Desired(t), !.selected = t.selected, !.available = t.available,
            !.mode = t.mode, !.phono = t.phono, !.bt = t.bt, !.ready = t.ready,
            !.ok = t.ok, !.pre = t.pre, !.woken = t.woken, !.ma = t.ma /\ pc' = "prepare"]

Decide(t) ==
    LET required == t.selected # "none" /\ t.mode = "downstairs"
        mayStart == required /\ ~t.available /\ t.capable /\ CanStart(t)
        due == pending.source # t.selected \/ pending.overdue
    IN  \/ /\ mayStart
           /\ pending' = [source |-> t.selected, overdue |-> FALSE]
           /\ Set("starting", t.selected)
           /\ pc' = "preparing" /\ tick' = t
        \/ /\ mayStart /\ ~due
           /\ UNCHANGED <<store, pending>>
           /\ Proceed(t)
        \/ /\ ~mayStart /\ required /\ ~t.available
           /\ Set("degraded", t.selected)
           /\ UNCHANGED pending
           /\ Proceed(t)
        \/ /\ t.available \/ ~required
           /\ pending' = IF t.available \/ t.selected = "none" THEN NoPending ELSE pending
           /\ UNCHANGED store
           /\ Proceed(t)

(* The publisher and Music Assistant are read, then it is decided.         *)
Seen(source) ==
    {[available |-> distribution_available(link, stopPending),
      capable |-> distribution_capable(source, link, stopPending),
      healthy |-> link \in {"healthy", "confirmed"}] :
        link \in Links, stopPending \in BOOLEAN}

Observe(t) ==
    LET source == selected_source(t) IN
    \E seen \in Seen(source) :
        Decide([t EXCEPT !.selected = source, !.available = seen.available,
                         !.capable = seen.capable, !.healthy = seen.healthy])

(* After an hour of Downstairs without a record one tick decides as for    *)
(* Console; nothing makes that choice permanent.                           *)
OutputMode ==
    {target} \cup (IF tick.phono THEN {} ELSE {"console"})

(* Music Assistant answers, or two seconds pass and it counts as playing.  *)
HearMusicAssistant(playing) ==
    /\ pc = "ask_ma"
    /\ \E mode \in OutputMode :
        LET t == [tick EXCEPT !.ma = playing, !.mode = mode] IN
        \/ /\ ~t.signal
           /\ tick' = t /\ pc' = "sample_bt"
           /\ UNCHANGED <<btActive, store, pending>>
        \/ /\ t.signal
           /\ btActive' = FALSE
           /\ Observe([t EXCEPT !.bt = t.playing])
    /\ UNCHANGED <<intent, published, reported, route, phonoActive, owner>>

HearBluetooth(ok, playing) ==
    /\ pc = "sample_bt"
    /\ \E active \in IF ok THEN UNION {Update(btActive, level) : level \in Levels} ELSE {FALSE} :
        /\ btActive' = (active \/ tick.playing)
        /\ Observe([tick EXCEPT !.bt = active \/ tick.playing,
                                !.ready = ok /\ playing])
    /\ UNCHANGED <<intent, published, reported, route, phonoActive, owner>>

----------------------------------------------------------------------------
(* prepare_distribution: refused, or the source is selected and a start    *)
(* submitted if one is needed.                                             *)
prepare_distribution(source, prepared) ==
    \/ ~prepared /\ UNCHANGED published
    \/ published' = source

(* The first attempt of a tick: only an exception has a consequence.       *)
StartAttempted(raised) ==
    /\ pc = "preparing"
    /\ prepare_distribution(tick.selected, FALSE)
    /\ pending' = [pending EXCEPT !.overdue = raised]
    /\ Proceed(tick)
    /\ UNCHANGED <<intent, store, reported, route, detectors, owner>>

Released ==
    /\ pc = "release"
    /\ pc' = "apply"
    /\ UNCHANGED <<intent, store, published, reported, route, detectors,
                   pending, owner, tick>>

(* The attempt that precedes a distributed route.                          *)
Prepared(ready) ==
    /\ pc = "prepare"
    /\ prepare_distribution(route_source(tick.desired), ready)
    /\ pc' = "apply"
    /\ tick' = IF ready THEN tick
               ELSE [tick EXCEPT !.desired =
                        choose_route(tick.selected = "phono", tick.selected = "bluetooth",
                                     tick.ma, FALSE, tick.mode)]
    /\ UNCHANGED <<intent, store, reported, route, detectors, pending, owner>>

(* stop_players, of a Console transition, of a press that stops or of the  *)
(* API, invalidates the start in flight: CancelledError is no Exception,   *)
(* so it leaves tick and run, which closes the router.                     *)
StartCancelled ==
    /\ pc \in {"preparing", "prepare"}
    /\ pc' = "ended"
    /\ owner' = "none"
    /\ tick' = NoTick
    /\ UNCHANGED <<intent, store, published, reported, route, detectors, pending>>

----------------------------------------------------------------------------
(* The route is applied and published.                                     *)

Finish(final) ==
    /\ route' = final
    /\ reported' = CASE tick.phono -> "phono"
                     [] ~tick.phono /\ tick.bt -> "bluetooth"
                     [] OTHER -> "none"
    /\ CASE final \in Distributed -> Set("stable", route_source(final))
         [] final \notin Distributed /\ tick.mode = "console" -> Set("stable", "none")
         [] OTHER -> UNCHANGED store
    /\ pc' = "sleep"
    /\ tick' = NoTick

(* Mutant: a preactivated player counts for every route.                   *)
AlreadyOpenForAll == tick.pre /\ tick.desired # route

(* The router is left alone when it already plays what is wanted.          *)
AlreadyOpen == tick.pre /\ tick.desired = "local_phono" /\ tick.desired # route

Activating ==
    /\ tick.desired # "idle" /\ route \in {"startup", "idle"}
    /\ ~tick.woken

Applied ==
    /\ pc = "apply"
    /\ owner' = IF AlreadyOpen THEN owner ELSE Player(tick.desired)
    /\ IF tick.desired = route
       THEN Finish(route)
       ELSE /\ pc' = IF Activating THEN "wake" ELSE "activate"
            /\ tick' = [NoTick EXCEPT !.desired = tick.desired, !.mode = tick.mode,
                                      !.phono = tick.phono, !.bt = tick.bt]
            /\ UNCHANGED <<store, route, reported>>
    /\ UNCHANGED <<intent, published, detectors, pending>>

(* A player that does not start: the route becomes idle, and idle is       *)
(* applied.                                                                *)
ApplyFailed ==
    /\ pc = "apply"
    /\ ~AlreadyOpen /\ tick.desired # "idle"
    /\ owner' = "none"
    /\ Finish("idle")
    /\ UNCHANGED <<intent, published, detectors, pending>>

(* The amplifier is woken; a failure is only reported.                     *)
Woken ==
    /\ pc = "wake"
    /\ pc' = "activate"
    /\ UNCHANGED <<intent, store, published, reported, route, detectors,
                   pending, owner, tick>>

RouteActivated ==
    /\ pc = "activate"
    /\ Finish(tick.desired)
    /\ UNCHANGED <<intent, published, detectors, pending, owner>>

----------------------------------------------------------------------------
Transition ==
    \/ BeginTransition \/ ConsoleCommitted \/ StartAnswered \/ StartRaised

Step ==
    \/ \E playing, wake \in BOOLEAN, level \in Levels : Sample(level, playing, wake)
    \/ \E playing \in BOOLEAN : SampleFails(playing)
    \/ Preactivate \/ PreactivateOutput
    \/ \E playing \in BOOLEAN : HearMusicAssistant(playing)
    \/ \E ok, playing \in BOOLEAN : HearBluetooth(ok, playing)
    \/ \E raised \in BOOLEAN : StartAttempted(raised)
    \/ Released
    \/ \E ready \in BOOLEAN : Prepared(ready)
    \/ Applied \/ ApplyFailed \/ Woken \/ RouteActivated

Next ==
    \/ \E t \in Targets : Choose(t)
    \/ Transition
    \/ Step
    \/ StartCancelled

Spec == Init /\ [][Next]_vars

(* Every wait of a tick is bounded by a timeout or by the life of the      *)
(* connection it waits for: weak fairness of Step, said of pc, which keeps *)
(* the tableau small.                                                      *)
FairSpec == Spec /\ []<>(pc \in {"sleep", "ended"}) /\ []<>(pc # "sleep")

----------------------------------------------------------------------------
ApplyStep == pc = "apply" /\ pc' # "apply"

(* A detected record or phone that a tick selects is heard: its own player *)
(* plays, or Music Assistant for its own distributed route, and never      *)
(* another source's.  Only a player that fails to start leaves silence.    *)
(* The latch, an early start of the direct route and a failed preparation  *)
(* all meet here.                                                          *)
SelectedSourceIsHeard ==
    [][ApplyStep /\ ~ApplyFailed =>
        /\ tick.selected = "phono" /\ tick.phono =>
              \/ owner' = "phono"
              \/ owner' = "ma" /\ tick.desired = "distributed_phono"
        /\ tick.selected = "bluetooth" =>
              \/ owner' = "bluetooth"
              \/ owner' = "ma" /\ tick.desired = "distributed_bluetooth"]_vars

TurnsToApply == pc # "apply" /\ pc' = "apply"
NewlyDistributed(t) == t.desired \in Distributed \ {route}

(* A tick never turns to a distributed route on the confirmation of        *)
(* another source, which the status of the previous tick may name: the     *)
(* publisher carries the source of the route when the tick turns to it.    *)
(* Only Bluetooth without fresh PCM, which cannot be started, is excepted. *)
DistributedSourceIsPublished ==
    [][TurnsToApply /\ CanStart(tick') /\ NewlyDistributed(tick') =>
          published' = route_source(tick'.desired)]_vars

(* A dead capture silences the direct route in the same tick, whatever the *)
(* detector held before.                                                   *)
DeadCaptureIsSilent == [][ApplyStep /\ ~tick.ok => owner' # "phono"]_vars

(* Between two ticks the router keeps the player of the published route,   *)
(* also after an early start whose tick then decided otherwise, or after a *)
(* failed one.                                                             *)
PlayerMatchesRoute == pc = "sleep" => owner = Player(route)

(* Whoever chooses Console and leaves it there gets rid of the distributed *)
(* route, whatever publisher, Music Assistant, latch and late transitions  *)
(* do.                                                                     *)
ConsoleEventuallyLocal ==
    <>[](target = "console") => <>[](pc = "ended" \/ route \notin Distributed)

----------------------------------------------------------------------------
(* What the documents say and the code does not do.  TLC finds each of     *)
(* these violated; the README says how.                                    *)

(* The status calls the distribution confirmed only while it is the        *)
(* requested output.                                                       *)
ConfirmedIsRequested ==
    route \in Distributed /\ phase = "stable" => target = "downstairs"

(* A distribution is confirmed only for the active source.                 *)
ConfirmedSourceIsPublished ==
    [][TurnsToApply /\ NewlyDistributed(tick') =>
          published' = route_source(tick'.desired)]_vars

(* The control loop outlives every start it waits for.                     *)
LoopOutlivesStarts == pc # "ended"
=============================================================================
