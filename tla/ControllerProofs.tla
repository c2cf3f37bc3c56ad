-------------------------- MODULE ControllerProofs --------------------------
(***************************************************************************)
(* Proofs about Controller: which player the router keeps while a tick is  *)
(* under way, and what a tick may decide on.                               *)
(*                                                                         *)
(* The router keeps the player of the published route until a tick applies *)
(* another one; an early start is the exception, and the tick remembers    *)
(* it.  From the decision on, the route a tick wants follows from the      *)
(* source it selected.                                                     *)
(***************************************************************************)
EXTENDS Controller, TLAPS

(* The player the router keeps, at each place of the loop.                 *)
Deciding == {"prewake", "ask_ma", "sample_bt", "preparing", "release", "prepare", "apply"}

Kept ==
    /\ pc \in {"sleep", "preactivate"} => owner = Player(route)
    /\ pc \in Deciding => owner = IF tick.pre THEN "phono" ELSE Player(route)
    /\ pc \in {"wake", "activate"} => owner = Player(tick.desired)

Early ==
    /\ pc = "preactivate" => route \in {"startup", "idle"} /\ ~tick.pre /\ tick.ok
    /\ pc = "prewake" => tick.pre

(* A dead capture selects nothing of the record player.                    *)
Dead(t) == ~t.ok => ~t.signal /\ ~t.phono /\ ~t.pre /\ t.selected # "phono"

(* What a route may be, given the source that was selected.                *)
Fits(t, r) ==
    /\ t.selected = "phono" /\ t.phono => r \in {"local_phono", "distributed_phono"}
    /\ t.selected = "bluetooth" => r \in {"local_bluetooth", "distributed_bluetooth"}
    /\ r = "local_phono" => t.selected = "phono"

Decided ==
    /\ pc \in {"release", "prepare", "apply"} => Fits(tick, tick.desired)
    /\ pc = "prepare" => tick.desired \in Distributed
    /\ pc = "release" => tick.desired \notin Distributed

TickParts == tick \in Ticks /\ Kept /\ Early /\ Dead(tick) /\ Decided

Consistent == TypeOK /\ TickParts

-----------------------------------------------------------------------------
(* The routing policy.                                                     *)

LEMMA SourcesAndRoutes ==
  /\ Physical = {"phono", "bluetooth"} /\ Sources = {"phono", "bluetooth", "none"}
  /\ Distributed = {"distributed_phono", "distributed_bluetooth"}
  /\ Routes = {"distributed_phono", "distributed_bluetooth", "local_phono",
               "local_bluetooth", "idle", "ma_playback"}
  BY DEF Physical, Sources, Distributed, Routes, Locals

(* No source, no physical route; a source is local unless it is confirmed. *)
LEMMA ReducedRoute ==
  ASSUME NEW goal \in Targets, NEW o, o.active \in Sources, NEW inSession
  PROVE  LET r == reduce_routing(goal, o, inSession).route IN
         /\ o.active = "none" => r \in {"ma_playback", "idle"}
         /\ o.active # "none" =>
              \/ r = LocalRoute(o.active)
              \/ /\ r = DistributedRoute(o.active)
                 /\ goal = "downstairs" /\ distribution_confirmed(o)
  <1> DEFINE d == reduce_routing(goal, o, inSession)
  <1>1. CASE o.active = "none"
    <2>1. d = Decision(IF o.consolePlaying THEN "ma_playback" ELSE "idle", "stable",
                       IF inSession THEN "stop" ELSE "none", FALSE)
      BY <1>1 DEF reduce_routing
    <2> QED BY <1>1, <2>1 DEF Decision
  <1>2. CASE o.active # "none" /\ goal = "console"
    <2>1. d = Decision(LocalRoute(o.active), IF inSession THEN "stopping" ELSE "stable",
                       IF inSession THEN "stop" ELSE "none", FALSE)
      BY <1>2 DEF reduce_routing
    <2> QED BY <1>2, <2>1 DEF Decision
  <1>3. CASE o.active # "none" /\ goal # "console" /\ distribution_confirmed(o)
    <2>1. d = Decision(DistributedRoute(o.active), "stable", "none", TRUE)
      BY <1>3 DEF reduce_routing
    <2> QED BY <1>3, <2>1 DEF Decision, Targets
  <1>4. CASE o.active # "none" /\ goal # "console" /\ ~distribution_confirmed(o)
    <2>1. d = Decision(LocalRoute(o.active), IF o.capable THEN "starting" ELSE "degraded",
                       IF o.capable THEN "start" ELSE "none", FALSE)
      BY <1>4 DEF reduce_routing
    <2> QED BY <1>4, <2>1 DEF Decision
  <1> QED BY <1>1, <1>2, <1>3, <1>4

LEMMA Players ==
  /\ Player("idle") = "none" /\ Player("startup") = "none"
  /\ Player("local_phono") = "phono" /\ Player("local_bluetooth") = "bluetooth"
  /\ Player("ma_playback") = "ma" /\ \A r \in Distributed : Player(r) = "ma"
  BY DEF Player, Distributed

-----------------------------------------------------------------------------
(* What a tick may want.                                                   *)

LEMMA ReducedFits ==
  ASSUME NEW t \in Ticks
  PROVE  LET r == reduce_routing(t.mode, Observation(t), route \in Distributed).route IN
         /\ t.selected = "none" => r \in {"ma_playback", "idle"}
         /\ t.selected # "none" =>
              \/ r = LocalRoute(t.selected)
              \/ r = DistributedRoute(t.selected) /\ t.available
  <1> DEFINE o == Observation(t)
  <1>1. t.mode \in Targets /\ t.selected \in Sources
    BY DEF Ticks
  <1>2. o.active = t.selected /\ o.signals = (IF t.available THEN Signals ELSE {})
    BY DEF Observation
  <1>3. distribution_confirmed(o) => t.available
    BY <1>2 DEF distribution_confirmed, Signals
  <1> DEFINE inSession == route \in Distributed
             r == reduce_routing(t.mode, o, inSession).route
  <1>4. /\ t.selected = "none" => r \in {"ma_playback", "idle"}
        /\ t.selected # "none" =>
             r = LocalRoute(t.selected) \/ (r = DistributedRoute(t.selected) /\ t.available)
    <2> HIDE DEF o, inSession
    <2> QED BY <1>1, <1>2, <1>3, ReducedRoute
  <1> QED BY <1>4

LEMMA LatchedFits ==
  ASSUME NEW t \in Ticks
  PROVE  Latched(t) \in Routes /\ Fits(t, Latched(t))
  <1> DEFINE r == reduce_routing(t.mode, Observation(t), route \in Distributed).route
  <1>1. t.selected \in Sources
    BY DEF Ticks
  <1>2. r \in Routes /\ Fits(t, r)
    BY <1>1, ReducedFits, SourcesAndRoutes DEF Fits, LocalRoute, DistributedRoute
  <1>3. CASE route = "distributed_bluetooth" /\ t.bt /\ ~t.phono /\ t.capable /\ t.healthy
    BY <1>3, SourcesAndRoutes DEF Latched, Fits
  <1>4. CASE /\ ~(route = "distributed_bluetooth" /\ t.bt /\ ~t.phono /\ t.capable /\ t.healthy)
             /\ route = "distributed_phono" /\ t.available /\ t.selected = "phono"
    BY <1>4, SourcesAndRoutes DEF Latched, Fits
  <1>5. CASE /\ ~(route = "distributed_bluetooth" /\ t.bt /\ ~t.phono /\ t.capable /\ t.healthy)
             /\ ~(route = "distributed_phono" /\ t.available /\ t.selected = "phono")
    <2>1. Latched(t) = r
      BY <1>5 DEF Latched
    <2> QED BY <1>2, <2>1
  <1> QED BY <1>3, <1>4, <1>5

LEMMA DesiredFits ==
  ASSUME NEW t \in Ticks
  PROVE  Desired(t) \in Routes /\ Fits(t, Desired(t))
  <1>1. CASE Leaving(t) /\ Latched(t) = "ma_playback"
    <2>1. Desired(t) = "idle"
      BY <1>1 DEF Desired
    <2>2. Fits(t, "idle")
      BY <1>1, LatchedFits, SourcesAndRoutes DEF Fits
    <2> QED BY <2>1, <2>2, SourcesAndRoutes
  <1>2. CASE ~(Leaving(t) /\ Latched(t) = "ma_playback")
    BY <1>2, LatchedFits DEF Desired
  <1> QED BY <1>1, <1>2

LEMMA ChosenFits ==
  ASSUME NEW t \in Ticks,
         NEW r, r = choose_route(t.selected = "phono", t.selected = "bluetooth",
                                 t.ma, FALSE, t.mode)
  PROVE  r \in Routes \ Distributed /\ Fits(t, r)
  <1>1. t.selected \in Sources
    BY DEF Ticks
  <1>2. CASE t.selected = "phono"
    BY <1>2, SourcesAndRoutes DEF choose_route, Fits
  <1>3. CASE t.selected = "bluetooth"
    BY <1>3, SourcesAndRoutes DEF choose_route, Fits
  <1>4. CASE t.selected = "none"
    BY <1>4, SourcesAndRoutes DEF choose_route, Fits
  <1> QED BY <1>1, <1>2, <1>3, <1>4, SourcesAndRoutes

-----------------------------------------------------------------------------
(* The decision.                                                           *)

(* What a tick knows before and after it decided.                          *)
Knows(t) ==
    /\ t \in Ticks /\ Dead(t)
    /\ owner = IF t.pre THEN "phono" ELSE Player(route)

LEMMA ProceedDecides ==
  ASSUME NEW t \in Ticks, Knows(t), Proceed(t), UNCHANGED <<owner, route>>
  PROVE  TickParts' /\ pc' \in {"release", "prepare", "apply"}
  <1>1. /\ pc' \in {"release", "prepare", "apply"}
        /\ pc' = "prepare" => Preparing(t)
        /\ pc' = "release" => Leaving(t)
    <2>1. CASE Leaving(t)
      BY <2>1 DEF Proceed
    <2>2. CASE ~Leaving(t) /\ Preparing(t)
      BY <2>2 DEF Proceed
    <2>3. CASE ~Leaving(t) /\ ~Preparing(t)
      BY <2>3 DEF Proceed
    <2> QED BY <2>1, <2>2, <2>3
  <1>2. NoTick \in Ticks
    BY DEF NoTick, Ticks, Targets, Sources, Routes
  <1>3. /\ t.selected \in Sources /\ t.mode \in Targets
        /\ {t.available, t.phono, t.bt, t.ready, t.ok, t.pre, t.woken, t.ma} \subseteq BOOLEAN
    BY DEF Ticks
  <1>4. Desired(t) \in Routes /\ Fits(t, Desired(t))
    BY DesiredFits
  <1>5. tick' = [NoTick EXCEPT
            !.desired = Desired(t), !.selected = t.selected, !.available = t.available,
            !.mode = t.mode, !.phono = t.phono, !.bt = t.bt, !.ready = t.ready,
            !.ok = t.ok, !.pre = t.pre, !.woken = t.woken, !.ma = t.ma /\ pc' = "prepare"]
    BY DEF Proceed
  <1>6. tick' \in Ticks
    <2> DEFINE asks == t.ma /\ pc' = "prepare"
    <2>1. asks \in BOOLEAN
      OBVIOUS
    <2>2. tick' = [signal |-> FALSE, phono |-> t.phono, ok |-> t.ok, playing |-> FALSE,
                   pre |-> t.pre, woken |-> t.woken, ma |-> asks, mode |-> t.mode,
                   bt |-> t.bt, ready |-> t.ready, selected |-> t.selected,
                   available |-> t.available, capable |-> FALSE, healthy |-> FALSE,
                   desired |-> Desired(t)]
      BY <1>5 DEF NoTick
    <2> HIDE DEF asks
    <2> QED BY <1>3, <1>4, <2>1, <2>2 DEF Ticks
  <1>7. /\ tick'.desired = Desired(t) /\ tick'.selected = t.selected
        /\ tick'.available = t.available /\ tick'.phono = t.phono /\ tick'.ok = t.ok
        /\ tick'.pre = t.pre /\ tick'.signal = FALSE
    BY <1>5 DEF NoTick
  <1>8. Decided'
    <2>1. pc' = "release" => Desired(t) \notin Distributed
      BY <1>1, SourcesAndRoutes DEF Leaving, Desired
    <2> QED BY <1>1, <1>4, <1>7, <2>1 DEF Decided, Fits, Preparing
  <1>9. Kept' /\ Early' /\ Dead(tick)'
    BY <1>1, <1>7 DEF Kept, Deciding, Early, Dead, Knows
  <1> QED BY <1>1, <1>6, <1>8, <1>9 DEF TickParts

LEMMA DecideDecides ==
  ASSUME TypeOK, NEW t \in Ticks, Knows(t), Decide(t), UNCHANGED <<owner, route>>
  PROVE  /\ TickParts' /\ pc' \in {"preparing", "release", "prepare", "apply"}
         /\ phase' \in Phases /\ session' \in Sources
         /\ pending' \in [source : Sources, overdue : BOOLEAN]
  <1>1. t.selected \in Sources
    BY DEF Ticks
  <1>2. /\ phase' \in Phases /\ session' \in Sources
        /\ pending' \in [source : Sources, overdue : BOOLEAN]
    <2>1. /\ phase \in Phases /\ session \in Sources
          /\ pending \in [source : Sources, overdue : BOOLEAN]
          /\ "starting" \in Phases /\ "degraded" \in Phases
          /\ NoPending \in [source : Sources, overdue : BOOLEAN]
          /\ [source |-> t.selected, overdue |-> FALSE] \in [source : Sources, overdue : BOOLEAN]
      BY <1>1 DEF TypeOK, Phases, NoPending, Sources
    <2> QED BY <1>1, <2>1 DEF Decide, Set, store
  <1>3. CASE Proceed(t)
    BY <1>2, <1>3, ProceedDecides
  <1>4. CASE pc' = "preparing" /\ tick' = t
    BY <1>2, <1>4 DEF TickParts, Kept, Deciding, Early, Decided, Knows
  <1> QED BY <1>3, <1>4 DEF Decide

(* The source is selected from the inputs the tick gathered.               *)
LEMMA ObserveDecides ==
  ASSUME TypeOK, NEW t \in Ticks, Knows(t), Observe(t), UNCHANGED <<owner, route>>
  PROVE  /\ TickParts' /\ pc' \in {"preparing", "release", "prepare", "apply"}
         /\ phase' \in Phases /\ session' \in Sources
         /\ pending' \in [source : Sources, overdue : BOOLEAN]
  <1> DEFINE source == selected_source(t)
  <1>1. PICK seen \in Seen(source) :
          Decide([t EXCEPT !.selected = source, !.available = seen.available,
                           !.capable = seen.capable, !.healthy = seen.healthy])
    BY DEF Observe
  <1> DEFINE u == [t EXCEPT !.selected = source, !.available = seen.available,
                            !.capable = seen.capable, !.healthy = seen.healthy]
  <1>2. /\ seen.available \in BOOLEAN /\ seen.capable \in BOOLEAN
        /\ seen.healthy \in BOOLEAN
    <2>1. PICK link \in Links, stopPending \in BOOLEAN :
            seen = [available |-> distribution_available(link, stopPending),
                    capable |-> distribution_capable(source, link, stopPending),
                    healthy |-> link \in {"healthy", "confirmed"}]
      BY DEF Seen
    <2>2. /\ distribution_available(link, stopPending) \in BOOLEAN
          /\ distribution_capable(source, link, stopPending) \in BOOLEAN
      BY DEF distribution_available, distribution_capable
    <2>3. (link \in {"healthy", "confirmed"}) \in BOOLEAN
      OBVIOUS
    <2> QED BY <2>1, <2>2, <2>3
  <1>3. source \in Sources /\ (source = "phono" => t.signal \/ t.phono)
    BY DEF selected_source, Sources, Physical
  <1>4. u \in Ticks
    BY <1>2, <1>3 DEF Ticks
  <1>5. /\ u.selected = source /\ u.ok = t.ok /\ u.signal = t.signal /\ u.phono = t.phono
        /\ u.pre = t.pre
    BY DEF Ticks
  <1>6. Knows(u)
    BY <1>3, <1>4, <1>5 DEF Knows, Dead
  <1> HIDE DEF u
  <1> QED BY <1>1, <1>4, <1>6, DecideDecides DEF u

-----------------------------------------------------------------------------
(* The steps.                                                              *)

LEMMA FreshTick ==
  /\ NoTick \in Ticks /\ Dead(NoTick) /\ ~NoTick.pre /\ NoTick.ok
  /\ \A signal, phono, playing \in BOOLEAN :
        LET t == [NoTick EXCEPT !.signal = signal, !.phono = phono, !.playing = playing] IN
        t \in Ticks /\ Dead(t) /\ ~t.pre /\ t.ok
  /\ \A playing \in BOOLEAN :
        LET t == [NoTick EXCEPT !.ok = FALSE, !.playing = playing, !.phono = FALSE] IN
        t \in Ticks /\ Dead(t) /\ ~t.pre
  <1>1. NoTick \in Ticks
    BY SourcesAndRoutes DEF NoTick, Ticks, Targets
  <1>2. ASSUME NEW signal \in BOOLEAN, NEW phono \in BOOLEAN, NEW playing \in BOOLEAN
        PROVE  LET t == [NoTick EXCEPT !.signal = signal, !.phono = phono,
                                       !.playing = playing] IN
               t \in Ticks /\ t.ok /\ ~t.pre
    BY SourcesAndRoutes DEF NoTick, Ticks, Targets
  <1>3. ASSUME NEW playing \in BOOLEAN
        PROVE  LET t == [NoTick EXCEPT !.ok = FALSE, !.playing = playing, !.phono = FALSE] IN
               /\ t \in Ticks /\ ~t.pre
               /\ ~t.signal /\ ~t.phono /\ t.selected = "none"
    BY SourcesAndRoutes DEF NoTick, Ticks, Targets
  <1>4. Dead(NoTick) /\ ~NoTick.pre /\ NoTick.ok
    BY DEF NoTick, Dead
  <1> QED BY ZenonT(40), <1>1, <1>2, <1>3, <1>4 DEF Dead

LEMMA InitConsistent == Init => Consistent
  <1> SUFFICES ASSUME Init PROVE Consistent
    OBVIOUS
  <1>1. TypeOK
    BY FreshTick DEF Init, TypeOK, Phases, Sources, NoPending
  <1>2. TickParts
    BY FreshTick, Players DEF Init, TickParts, Kept, Deciding, Early, Decided
  <1> QED BY <1>1, <1>2 DEF Consistent

(* Choices and transitions touch nothing a tick has decided.               *)
LEMMA ChoicesConsistent ==
  ASSUME Consistent, Transition \/ \E t \in Targets : Choose(t)
  PROVE  Consistent'
  <1>1. UNCHANGED <<pc, tick, owner, route>>
    BY DEF Transition, Choose, BeginTransition, ConsoleCommitted, StartAnswered, StartRaised
  <1>2. TickParts'
    BY <1>1 DEF Consistent, TickParts, Kept, Early, Decided, Fits
  <1>3. \A t \in Targets : set_output_target(t) => target' \in Targets /\ phase' \in Phases
    BY DEF set_output_target, Phases
  <1>4. /\ {"stable", "starting", "degraded"} \subseteq Phases
        /\ Physical \subseteq Sources /\ "none" \in Sources
    BY DEF Phases, Sources
  <1>5. /\ target' \in Targets /\ owed' \in BOOLEAN /\ phase' \in Phases
        /\ transition' \in {"none", "console", "superseded"} \cup Physical
        /\ session' \in Sources /\ published' \in Sources
        /\ UNCHANGED <<reported, route, phonoActive, btActive, pending, owner, pc, tick>>
    <2> USE DEF Consistent, TypeOK
    <2>1. CASE \E t \in Targets : Choose(t)
      BY <1>3, <1>4, <2>1 DEF Choose, detectors
    <2>2. CASE BeginTransition
      <3>1. CASE target = "console" /\ transition' = "console" /\ UNCHANGED <<store, published>>
        BY <2>2, <3>1 DEF BeginTransition, store, detectors
      <3>2. CASE StartsNothing
        BY <1>4, <2>2, <3>2 DEF BeginTransition, StartsNothing, Set, detectors
      <3>3. CASE StartsSession
        BY <1>4, <2>2, <3>3 DEF BeginTransition, StartsSession, Set, detectors
      <3> QED BY <2>2, <3>1, <3>2, <3>3 DEF BeginTransition
    <2>3. CASE ConsoleCommitted
      BY <1>4, <2>3 DEF ConsoleCommitted, Set, detectors
    <2>4. CASE StartAnswered
      BY <1>4, <2>4 DEF StartAnswered, Set, store, detectors
    <2>5. CASE StartRaised
      BY <1>3, <2>5 DEF StartRaised, detectors
    <2> QED BY <2>1, <2>2, <2>3, <2>4, <2>5 DEF Transition
  <1>6. TypeOK'
    BY <1>5 DEF Consistent, TypeOK
  <1> QED BY <1>2, <1>6 DEF Consistent

LEMMA DetectorsTyped ==
  ASSUME NEW active \in BOOLEAN, NEW level
  PROVE  Update(active, level) \subseteq BOOLEAN /\ Above(level, active) \in BOOLEAN
  BY DEF Update, Above

LEMMA SampleConsistent ==
  ASSUME Consistent, NEW playing \in BOOLEAN, NEW wake \in BOOLEAN, NEW level \in Levels,
         Sample(level, playing, wake) \/ SampleFails(playing)
  PROVE  Consistent'
  <1> USE DEF Consistent, TypeOK
  <1>1. CASE Sample(level, playing, wake)
    <2>1. PICK active \in Update(phonoActive \/ wake, level) :
            LET signal == wake \/ Above(level, active) IN
            /\ phonoActive' = active
            /\ tick' = [NoTick EXCEPT !.signal = signal, !.phono = active, !.playing = playing]
            /\ pc' = IF signal /\ route \in {"startup", "idle"}
                     THEN "preactivate" ELSE "ask_ma"
      BY <1>1 DEF Sample
    <2> DEFINE before == phonoActive \/ wake
               signal == wake \/ Above(level, active)
    <2>2. active \in BOOLEAN
      <3>1. before \in BOOLEAN
        OBVIOUS
      <3>2. active \in Update(before, level)
        BY <2>1
      <3> HIDE DEF before
      <3> QED BY <3>1, <3>2, DetectorsTyped
    <2>3. signal \in BOOLEAN
      OBVIOUS
    <2>4. tick' \in Ticks /\ Dead(tick') /\ ~tick'.pre /\ tick'.ok
      <3>1. tick' = [NoTick EXCEPT !.signal = signal, !.phono = active, !.playing = playing]
        BY <2>1
      <3> HIDE DEF signal
      <3> QED BY <2>2, <2>3, <3>1, FreshTick
    <2>5. pc = "sleep" /\ UNCHANGED <<owner, route>>
      BY <1>1 DEF Sample
    <2>6. \/ pc' = "preactivate" /\ route \in {"startup", "idle"}
          \/ pc' = "ask_ma"
      BY <2>1
    <2>7. TickParts'
      BY <2>4, <2>5, <2>6 DEF TickParts, Kept, Deciding, Early, Decided
    <2> QED BY <1>1, <2>1, <2>2, <2>4, <2>6, <2>7 DEF Sample, intent, store
  <1>2. CASE SampleFails(playing)
    <2>1. /\ tick' = [NoTick EXCEPT !.ok = FALSE, !.playing = playing, !.phono = FALSE]
          /\ pc = "sleep" /\ pc' = "ask_ma" /\ UNCHANGED <<owner, route>>
      BY <1>2 DEF SampleFails
    <2>2. tick' \in Ticks /\ Dead(tick') /\ ~tick'.pre
      BY <2>1, FreshTick
    <2>3. TickParts'
      BY <2>1, <2>2 DEF TickParts, Kept, Deciding, Early, Decided
    <2> QED BY <1>2, <2>2, <2>3 DEF SampleFails, intent, store
  <1> QED BY <1>1, <1>2

LEMMA PreactivateConsistent ==
  ASSUME Consistent, Preactivate \/ PreactivateOutput
  PROVE  Consistent'
  <1> USE DEF Consistent, TypeOK
  <1>1. CASE Preactivate
    <2>1. CASE owner' = "phono" /\ pc' = "prewake" /\ tick' = [tick EXCEPT !.pre = TRUE]
      <3>1. tick' \in Ticks /\ tick'.pre /\ tick'.ok = tick.ok /\ tick'.signal = tick.signal
            /\ tick'.phono = tick.phono /\ tick'.selected = tick.selected
        BY <2>1 DEF Ticks
      <3>2. TickParts'
        BY <1>1, <2>1, <3>1 DEF TickParts, Kept, Deciding, Early, Decided, Dead, Preactivate
      <3> QED BY <1>1, <2>1, <3>1, <3>2 DEF Preactivate, intent, store, detectors
    <2>2. CASE owner' = "none" /\ pc' = "ask_ma" /\ UNCHANGED tick
      <3>1. TickParts'
        BY <1>1, <2>2, Players
        DEF TickParts, Kept, Deciding, Early, Decided, Dead, Preactivate
      <3> QED BY <1>1, <2>2, <3>1 DEF Preactivate, intent, store, detectors
    <2> QED BY <1>1, <2>1, <2>2 DEF Preactivate
  <1>2. CASE PreactivateOutput
    <2>1. PICK woken \in BOOLEAN : tick' = [tick EXCEPT !.woken = woken]
      BY <1>2 DEF PreactivateOutput
    <2>2. tick' \in Ticks /\ tick'.pre = tick.pre /\ tick'.ok = tick.ok
          /\ tick'.signal = tick.signal
          /\ tick'.phono = tick.phono /\ tick'.selected = tick.selected
      BY <2>1 DEF Ticks
    <2>3. TickParts'
      BY <1>2, <2>2 DEF TickParts, Kept, Deciding, Early, Decided, Dead, PreactivateOutput
    <2> QED BY <1>2, <2>2, <2>3 DEF PreactivateOutput, intent, store, detectors
  <1> QED BY <1>1, <1>2

LEMMA HearConsistent ==
  ASSUME Consistent,
         \/ \E playing \in BOOLEAN : HearMusicAssistant(playing)
         \/ \E ok, playing \in BOOLEAN : HearBluetooth(ok, playing)
  PROVE  Consistent'
  <1> USE DEF Consistent
  <1>1. ASSUME pc \in Deciding
        PROVE  Knows(tick)
    BY <1>1 DEF Knows, TickParts, Kept
  <1>2. ASSUME NEW playing \in BOOLEAN, HearMusicAssistant(playing)
        PROVE  Consistent'
    <2>1. pc = "ask_ma" /\ UNCHANGED <<intent, published, reported, route, phonoActive, owner>>
      BY <1>2 DEF HearMusicAssistant
    <2>2. PICK mode \in OutputMode :
            LET t == [tick EXCEPT !.ma = playing, !.mode = mode] IN
            \/ /\ ~t.signal
               /\ tick' = t /\ pc' = "sample_bt"
               /\ UNCHANGED <<btActive, store, pending>>
            \/ /\ t.signal
               /\ btActive' = FALSE
               /\ Observe([t EXCEPT !.bt = t.playing])
      BY <1>2 DEF HearMusicAssistant
    <2> DEFINE t == [tick EXCEPT !.ma = playing, !.mode = mode]
               u == [t EXCEPT !.bt = t.playing]
    <2>3. mode \in Targets
      BY DEF OutputMode, TypeOK, Targets
    <2>4. t \in Ticks /\ u \in Ticks
      BY <2>3 DEF TypeOK, Ticks
    <2>5. /\ t.ok = tick.ok /\ t.signal = tick.signal /\ t.phono = tick.phono
          /\ t.pre = tick.pre /\ t.selected = tick.selected
          /\ u.ok = tick.ok /\ u.signal = tick.signal /\ u.phono = tick.phono
          /\ u.pre = tick.pre /\ u.selected = tick.selected
      BY DEF TypeOK, Ticks
    <2>6. Knows(t) /\ Knows(u)
      BY <1>1, <2>1, <2>4, <2>5 DEF Deciding, Knows, Dead
    <2>7. CASE tick' = t /\ pc' = "sample_bt" /\ UNCHANGED <<btActive, store, pending>>
      <3> HIDE DEF t
      <3>1. TickParts'
        BY <2>1, <2>6, <2>7 DEF TickParts, Kept, Deciding, Early, Decided, Knows
      <3> QED BY <2>1, <2>4, <2>7, <3>1 DEF TypeOK, intent, store
    <2>8. CASE btActive' = FALSE /\ Observe(u)
      <3> HIDE DEF u
      <3>1. /\ TickParts' /\ pc' \in {"preparing", "release", "prepare", "apply"}
            /\ phase' \in Phases /\ session' \in Sources
            /\ pending' \in [source : Sources, overdue : BOOLEAN]
        BY <2>1, <2>4, <2>6, <2>8, ObserveDecides
      <3> QED BY <2>1, <2>8, <3>1 DEF TypeOK, TickParts, intent
    <2> QED BY <2>2, <2>7, <2>8
  <1>3. ASSUME NEW ok \in BOOLEAN, NEW playing \in BOOLEAN, HearBluetooth(ok, playing)
        PROVE  Consistent'
    <2>1. pc = "sample_bt" /\ UNCHANGED <<intent, published, reported, route, phonoActive, owner>>
      BY <1>3 DEF HearBluetooth
    <2>2. PICK active \in IF ok THEN UNION {Update(btActive, level) : level \in Levels}
                          ELSE {FALSE} :
            /\ btActive' = (active \/ tick.playing)
            /\ Observe([tick EXCEPT !.bt = active \/ tick.playing, !.ready = ok /\ playing])
      BY <1>3 DEF HearBluetooth
    <2> DEFINE bt == active \/ tick.playing
               ready == ok /\ playing
               u == [tick EXCEPT !.bt = bt, !.ready = ready]
    <2>3. bt \in BOOLEAN /\ ready \in BOOLEAN
      OBVIOUS
    <2>4. btActive' = bt /\ Observe(u)
      BY <2>2
    <2> HIDE DEF bt, ready
    <2>5. /\ u \in Ticks
          /\ u.ok = tick.ok /\ u.signal = tick.signal /\ u.phono = tick.phono
          /\ u.pre = tick.pre /\ u.selected = tick.selected
      BY <2>3 DEF TypeOK, Ticks
    <2>6. Knows(u)
      BY <1>1, <2>1, <2>5 DEF Deciding, Knows, Dead
    <2> HIDE DEF u
    <2>7. /\ TickParts' /\ pc' \in {"preparing", "release", "prepare", "apply"}
          /\ phase' \in Phases /\ session' \in Sources
          /\ pending' \in [source : Sources, overdue : BOOLEAN]
      BY <2>1, <2>4, <2>5, <2>6, ObserveDecides
    <2> QED BY <2>1, <2>3, <2>4, <2>7 DEF TypeOK, TickParts, intent
  <1> QED BY <1>2, <1>3

LEMMA PrepareConsistent ==
  ASSUME Consistent,
         \/ \E raised \in BOOLEAN : StartAttempted(raised)
         \/ \E ready \in BOOLEAN : Prepared(ready)
         \/ Released \/ StartCancelled
  PROVE  Consistent'
  <1> USE DEF Consistent
  <1>1. ASSUME NEW raised \in BOOLEAN, StartAttempted(raised)
        PROVE  Consistent'
    <2>1. /\ pc = "preparing" /\ Proceed(tick) /\ tick \in Ticks
          /\ UNCHANGED <<intent, store, reported, route, detectors, owner>>
          /\ pending' = [pending EXCEPT !.overdue = raised]
      BY <1>1 DEF StartAttempted, TypeOK
    <2>2. Knows(tick)
      BY <2>1 DEF Knows, TickParts, Kept, Deciding
    <2>3. TickParts' /\ pc' \in {"release", "prepare", "apply"}
      BY <2>1, <2>2, ProceedDecides
    <2>4. published' \in Sources
      BY <1>1 DEF StartAttempted, prepare_distribution, TypeOK, Ticks
    <2>5. pending' \in [source : Sources, overdue : BOOLEAN]
      BY <2>1 DEF TypeOK
    <2> QED BY <2>1, <2>3, <2>4, <2>5 DEF TypeOK, TickParts, intent, store, detectors
  <1>2. ASSUME NEW ready \in BOOLEAN, Prepared(ready)
        PROVE  Consistent'
    <2>1. /\ pc = "prepare" /\ pc' = "apply" /\ tick \in Ticks /\ tick.desired \in Distributed
          /\ UNCHANGED <<intent, store, reported, route, detectors, pending, owner>>
      BY <1>2 DEF Prepared, TypeOK, TickParts, Decided
    <2>2. published' \in Sources
      <3>1. route_source(tick.desired) \in Sources
        BY <2>1 DEF route_source, Distributed, Sources, Physical
      <3> QED BY <1>2, <3>1 DEF Prepared, prepare_distribution, TypeOK
    <2>3. tick' \in Ticks /\ Knows(tick') /\ Fits(tick', tick'.desired)
      <3>1. Knows(tick) /\ Fits(tick, tick.desired)
        BY <2>1 DEF Knows, TickParts, Kept, Deciding, Decided
      <3>2. CASE ready
        BY <1>2, <2>1, <3>1, <3>2 DEF Prepared
      <3>3. CASE ~ready
        <4> DEFINE r == choose_route(tick.selected = "phono", tick.selected = "bluetooth",
                                     tick.ma, FALSE, tick.mode)
        <4>1. tick' = [tick EXCEPT !.desired = r]
          BY <1>2, <3>3 DEF Prepared
        <4>2. r \in Routes /\ Fits(tick, r)
          BY <2>1, ChosenFits
        <4> HIDE DEF r
        <4>3. /\ tick' \in Ticks /\ tick'.desired = r /\ tick'.selected = tick.selected
              /\ tick'.phono = tick.phono /\ tick'.available = tick.available
              /\ tick'.ok = tick.ok /\ tick'.signal = tick.signal /\ tick'.pre = tick.pre
          BY <2>1, <4>1, <4>2 DEF Ticks
        <4> QED BY <3>1, <4>2, <4>3 DEF Knows, Dead, Fits
      <3> QED BY <3>2, <3>3
    <2>4. TickParts'
      BY <2>1, <2>3 DEF TickParts, Kept, Deciding, Early, Decided, Knows, Fits
    <2> QED BY <2>1, <2>2, <2>3, <2>4 DEF TypeOK, intent, store, detectors
  <1>3. CASE Released
    <2>1. TickParts'
      BY <1>3 DEF Released, TickParts, Kept, Deciding, Early, Decided, Fits
    <2> QED BY <1>3, <2>1 DEF Released, TypeOK, intent, store, detectors
  <1>4. CASE StartCancelled
    <2>1. TickParts'
      BY <1>4, FreshTick DEF StartCancelled, TickParts, Kept, Deciding, Early, Decided
    <2> QED BY <1>4, <2>1 DEF StartCancelled, TypeOK, TickParts, intent, store, detectors
  <1> QED BY <1>1, <1>2, <1>3, <1>4

(* A tick ends with the player of the route it publishes.                  *)
LEMMA FinishConsistent ==
  ASSUME Consistent, NEW final \in Routes, Finish(final), owner' = Player(final),
         UNCHANGED <<intent, published, detectors, pending>>
  PROVE  Consistent'
  <1>1. route' = final /\ pc' = "sleep" /\ tick' = NoTick
    BY DEF Finish
  <1>2. reported' \in Sources
    <2>1. tick.phono \in BOOLEAN /\ tick.bt \in BOOLEAN
      BY DEF Consistent, TypeOK, Ticks
    <2>2. reported' = IF tick.phono THEN "phono" ELSE IF tick.bt THEN "bluetooth" ELSE "none"
      BY <2>1 DEF Finish
    <2> QED BY <2>2, SourcesAndRoutes
  <1>3. phase' \in Phases /\ session' \in Sources
    <2>1. CASE final \in Distributed
      <3>1. Set("stable", route_source(final))
        BY <2>1 DEF Finish
      <3>2. route_source(final) \in Sources
        BY <2>1, SourcesAndRoutes DEF route_source
      <3> QED BY <3>1, <3>2 DEF Set, Phases
    <2>2. CASE final \notin Distributed /\ tick.mode = "console"
      <3>1. Set("stable", "none")
        BY <2>2 DEF Finish
      <3> QED BY <3>1, SourcesAndRoutes DEF Set, Phases
    <2>3. CASE final \notin Distributed /\ tick.mode # "console"
      <3>1. UNCHANGED store
        BY <2>3 DEF Finish
      <3> QED BY <3>1 DEF store, Consistent, TypeOK
    <2> QED BY <2>1, <2>2, <2>3
  <1>4. TickParts'
    BY <1>1, FreshTick DEF TickParts, Kept, Deciding, Early, Decided
  <1>5. owner' \in {"phono", "bluetooth", "ma", "none"}
    BY Players, SourcesAndRoutes
  <1> QED BY <1>1, <1>2, <1>3, <1>4, <1>5 DEF Consistent, TypeOK, TickParts, intent, detectors

(* The router keeps the player of the route that is applied, whether it    *)
(* was told so now or earlier in the tick.                                 *)
LEMMA AppliedPlayer ==
  ASSUME Consistent, Applied
  PROVE  owner' = Player(tick.desired) /\ tick.desired \in Routes
  <1>1. tick.desired \in Routes
    BY DEF Consistent, TypeOK, Ticks
  <1>2. CASE AlreadyOpen
    <2>1. owner' = owner /\ owner = "phono" /\ tick.desired = "local_phono"
      BY <1>2 DEF Applied, AlreadyOpen, Consistent, TickParts, Kept, Deciding
    <2> QED BY <1>1, <2>1, Players
  <1>3. CASE ~AlreadyOpen
    BY <1>1, <1>3 DEF Applied
  <1> QED BY <1>2, <1>3

LEMMA ApplyConsistent ==
  ASSUME Consistent, Applied \/ ApplyFailed \/ Woken \/ RouteActivated
  PROVE  Consistent'
  <1>1. CASE Applied
    <2>1. owner' = Player(tick.desired) /\ tick.desired \in Routes
      BY <1>1, AppliedPlayer
    <2>2. CASE tick.desired = route
      BY <1>1, <2>1, <2>2, FinishConsistent DEF Applied
    <2>3. CASE tick.desired # route
      <3> DEFINE t == [NoTick EXCEPT !.desired = tick.desired, !.mode = tick.mode,
                                     !.phono = tick.phono, !.bt = tick.bt]
      <3>1. /\ pc' \in {"wake", "activate"} /\ tick' = t
            /\ UNCHANGED <<store, route, reported, intent, published, detectors, pending>>
        BY <1>1, <2>3 DEF Applied
      <3>2. tick' = [signal |-> FALSE, phono |-> tick.phono, ok |-> TRUE, playing |-> FALSE,
                     pre |-> FALSE, woken |-> FALSE, ma |-> FALSE, mode |-> tick.mode,
                     bt |-> tick.bt, ready |-> FALSE, selected |-> "none",
                     available |-> FALSE, capable |-> FALSE, healthy |-> FALSE,
                     desired |-> tick.desired]
        BY <3>1 DEF NoTick
      <3>3. tick' \in Ticks /\ tick'.ok /\ tick'.desired = tick.desired
        <4>1. /\ tick.phono \in BOOLEAN /\ tick.mode \in Targets /\ tick.bt \in BOOLEAN
              /\ tick.desired \in Routes /\ "none" \in Sources
          BY SourcesAndRoutes DEF Consistent, TypeOK, Ticks
        <4> HIDE DEF t
        <4> QED BY <3>2, <4>1 DEF Ticks
      <3> HIDE DEF t
      <3>4. TickParts'
        BY <2>1, <3>1, <3>3 DEF TickParts, Kept, Deciding, Early, Decided, Dead
      <3>5. owner' \in {"phono", "bluetooth", "ma", "none"}
        BY <2>1, Players, SourcesAndRoutes
      <3> QED
        BY <3>1, <3>3, <3>4, <3>5 DEF Consistent, TypeOK, intent, store, detectors
    <2> QED BY <2>2, <2>3
  <1>2. CASE ApplyFailed
    BY <1>2, FinishConsistent, Players, SourcesAndRoutes DEF ApplyFailed
  <1>3. CASE Woken
    <2>1. TickParts'
      BY <1>3 DEF Consistent, Woken, TickParts, Kept, Deciding, Early, Decided
    <2> QED BY <1>3, <2>1 DEF Consistent, Woken, TypeOK, intent, store, detectors
  <1>4. CASE RouteActivated
    <2>1. owner' = Player(tick.desired) /\ tick.desired \in Routes
      BY <1>4 DEF RouteActivated, Consistent, TickParts, Kept, TypeOK, Ticks
    <2> QED BY <1>4, <2>1, FinishConsistent DEF RouteActivated
  <1> QED BY <1>1, <1>2, <1>3, <1>4

LEMMA StepConsistent == Consistent /\ [Next]_vars => Consistent'
  <1> SUFFICES ASSUME Consistent, [Next]_vars PROVE Consistent'
    OBVIOUS
  <1>1. CASE UNCHANGED vars
    <2>1. TickParts'
      BY <1>1 DEF Consistent, TickParts, Kept, Early, Decided, Fits, vars
    <2> QED BY <1>1, <2>1 DEF Consistent, TypeOK, vars, intent, store, detectors
  <1>2. CASE Transition \/ \E t \in Targets : Choose(t)
    BY <1>2, ChoicesConsistent
  <1>3. CASE \/ \E playing, wake \in BOOLEAN, level \in Levels : Sample(level, playing, wake)
             \/ \E playing \in BOOLEAN : SampleFails(playing)
    <2>1. "quiet" \in Levels
      BY DEF Levels
    <2> QED BY <1>3, <2>1, SampleConsistent
  <1>4. CASE Preactivate \/ PreactivateOutput
    BY <1>4, PreactivateConsistent
  <1>5. CASE \/ \E playing \in BOOLEAN : HearMusicAssistant(playing)
             \/ \E ok, playing \in BOOLEAN : HearBluetooth(ok, playing)
    BY <1>5, HearConsistent
  <1>6. CASE \/ \E raised \in BOOLEAN : StartAttempted(raised)
             \/ \E ready \in BOOLEAN : Prepared(ready)
             \/ Released \/ StartCancelled
    BY <1>6, PrepareConsistent
  <1>7. CASE Applied \/ ApplyFailed \/ Woken \/ RouteActivated
    BY <1>7, ApplyConsistent
  <1> QED
    BY <1>1, <1>2, <1>3, <1>4, <1>5, <1>6, <1>7 DEF Next, Step

LEMMA StaysConsistent == Spec => []Consistent
  <1>1. Init => Consistent
    BY InitConsistent
  <1>2. Consistent /\ [Next]_vars => Consistent'
    BY StepConsistent
  <1> QED
    BY <1>1, <1>2, PTL DEF Spec

(* Every variable of the loop keeps its type.                              *)
THEOREM TypeCorrect == Spec => []TypeOK
  <1>1. Consistent => TypeOK
    BY DEF Consistent
  <1> QED BY <1>1, StaysConsistent, PTL

(* Between two ticks the player is that of the published route.            *)
THEOREM PlayerIsPublished == Spec => []PlayerMatchesRoute
  <1>1. Consistent => PlayerMatchesRoute
    BY DEF Consistent, TickParts, Kept, PlayerMatchesRoute
  <1> QED BY <1>1, StaysConsistent, PTL

-----------------------------------------------------------------------------
(* What a tick applies.                                                    *)

LEMMA ApplyingSteps ==
  ASSUME [Next]_vars, ApplyStep
  PROVE  Applied \/ ApplyFailed
  BY DEF ApplyStep, Next, Transition, Choose, BeginTransition, ConsoleCommitted,
     StartAnswered, StartRaised, Step, Sample, SampleFails, Preactivate, PreactivateOutput,
     HearMusicAssistant, HearBluetooth, StartAttempted, Released, Prepared, Woken,
     RouteActivated, StartCancelled, vars

Heard ==
    ApplyStep /\ ~ApplyFailed =>
        /\ tick.selected = "phono" /\ tick.phono =>
              \/ owner' = "phono"
              \/ owner' = "ma" /\ tick.desired = "distributed_phono"
        /\ tick.selected = "bluetooth" =>
              \/ owner' = "bluetooth"
              \/ owner' = "ma" /\ tick.desired = "distributed_bluetooth"

LEMMA HeardStep == Consistent /\ [Next]_vars => Heard
  <1> SUFFICES ASSUME Consistent, [Next]_vars, ApplyStep, ~ApplyFailed PROVE Heard
    BY DEF Heard
  <1>1. Fits(tick, tick.desired)
    BY DEF ApplyStep, Consistent, TickParts, Decided
  <1>2. owner' = Player(tick.desired)
    BY ApplyingSteps, AppliedPlayer
  <1> QED BY <1>1, <1>2, Players, SourcesAndRoutes DEF Fits, Heard

(* What a tick selects is heard, whatever its detectors, its telemetry and *)
(* its attempts say; only a player that fails to start leaves silence.     *)
THEOREM SelectionIsHeard == Spec => SelectedSourceIsHeard
  <1>1. Consistent /\ [Next]_vars => [Heard]_vars
    BY HeardStep
  <1>2. Spec => [][Heard]_vars
    BY <1>1, StaysConsistent, PTL DEF Spec
  <1> QED BY <1>2 DEF SelectedSourceIsHeard, Heard

Published ==
    TurnsToApply /\ CanStart(tick') /\ NewlyDistributed(tick') =>
        published' = route_source(tick'.desired)

LEMMA TurningSteps ==
  ASSUME [Next]_vars, TurnsToApply
  PROVE  \/ \E playing \in BOOLEAN : HearMusicAssistant(playing)
         \/ \E ok, playing \in BOOLEAN : HearBluetooth(ok, playing)
         \/ \E raised \in BOOLEAN : StartAttempted(raised)
         \/ Released
         \/ \E ready \in BOOLEAN : Prepared(ready)
  BY DEF TurnsToApply, Next, Transition, Choose, BeginTransition, ConsoleCommitted,
     StartAnswered, StartRaised, Step, Sample, SampleFails, Preactivate, PreactivateOutput,
     Applied, ApplyFailed, Finish, Woken, RouteActivated, StartCancelled, vars

(* A decision that can start its source turns to a new distributed route   *)
(* by way of the preparation.                                              *)
LEMMA ProceedPrepares ==
  ASSUME NEW t, Proceed(t), pc' = "apply"
  PROVE  ~(CanStart(tick') /\ NewlyDistributed(tick'))
  <1>1. ~Leaving(t) /\ ~Preparing(t)
    BY DEF Proceed
  <1>2. /\ tick'.desired = Desired(t) /\ tick'.selected = t.selected
        /\ tick'.ready = t.ready
    BY DEF Proceed, NoTick
  <1> QED BY <1>1, <1>2 DEF Preparing, CanStart, NewlyDistributed

LEMMA ObservePrepares ==
  ASSUME NEW t, Observe(t), pc' = "apply"
  PROVE  ~(CanStart(tick') /\ NewlyDistributed(tick'))
  <1>1. PICK u : Decide(u)
    BY DEF Observe
  <1>2. Proceed(u)
    BY <1>1 DEF Decide
  <1> QED BY <1>2, ProceedPrepares

LEMMA PublishedStep == Consistent /\ [Next]_vars => Published
  <1> SUFFICES ASSUME Consistent, [Next]_vars, TurnsToApply,
                      CanStart(tick'), NewlyDistributed(tick')
               PROVE  published' = route_source(tick'.desired)
    BY DEF Published
  <1> USE DEF TurnsToApply
  <1>1. ASSUME NEW playing \in BOOLEAN, HearMusicAssistant(playing)
        PROVE  FALSE
    <2>1. \E t : Observe(t) \/ pc' = "sample_bt"
      BY <1>1 DEF HearMusicAssistant
    <2> QED BY <2>1, ObservePrepares
  <1>2. ASSUME NEW ok \in BOOLEAN, NEW playing \in BOOLEAN, HearBluetooth(ok, playing)
        PROVE  FALSE
    <2>1. \E t : Observe(t)
      BY <1>2 DEF HearBluetooth
    <2> QED BY <2>1, ObservePrepares
  <1>3. ASSUME NEW raised \in BOOLEAN, StartAttempted(raised)
        PROVE  FALSE
    BY <1>3, ProceedPrepares DEF StartAttempted
  <1>4. CASE Released
    <2>1. tick.desired \notin Distributed /\ tick' = tick
      BY <1>4 DEF Released, Consistent, TickParts, Decided
    <2> QED BY <2>1 DEF NewlyDistributed
  <1>5. ASSUME NEW ready \in BOOLEAN, Prepared(ready)
        PROVE  published' = route_source(tick'.desired)
    <2>1. CASE ready
      BY <1>5, <2>1 DEF Prepared, prepare_distribution
    <2>2. CASE ~ready
      <3> DEFINE r == choose_route(tick.selected = "phono", tick.selected = "bluetooth",
                                   tick.ma, FALSE, tick.mode)
      <3>1. tick \in Ticks
        BY DEF Consistent, TickParts
      <3>2. r \notin Distributed
        BY <3>1, ChosenFits
      <3>3. tick'.desired = r
        BY <1>5, <2>2, <3>1 DEF Prepared, Ticks
      <3> HIDE DEF r
      <3> QED BY <3>2, <3>3 DEF NewlyDistributed
    <2> QED BY <2>1, <2>2
  <1> QED BY <1>1, <1>2, <1>3, <1>4, <1>5, TurningSteps

(* When a tick turns to a distributed route, the publisher carries the     *)
(* source of the route, whichever source the confirmation was of.          *)
THEOREM DistributionIsPublished == Spec => DistributedSourceIsPublished
  <1>1. Consistent /\ [Next]_vars => [Published]_vars
    BY PublishedStep
  <1>2. Spec => [][Published]_vars
    BY <1>1, StaysConsistent, PTL DEF Spec
  <1> QED BY <1>2 DEF DistributedSourceIsPublished, Published

DeadIsSilent == ApplyStep /\ ~tick.ok => owner' # "phono"

LEMMA DeadStep == Consistent /\ [Next]_vars => DeadIsSilent
  <1> SUFFICES ASSUME Consistent, [Next]_vars, ApplyStep, ~tick.ok PROVE owner' # "phono"
    BY DEF DeadIsSilent
  <1>1. tick.selected # "phono" /\ Fits(tick, tick.desired)
    BY DEF ApplyStep, Consistent, TickParts, Dead, Decided
  <1>2. tick.desired # "local_phono"
    BY <1>1 DEF Fits
  <1>3. CASE ApplyFailed
    BY <1>3 DEF ApplyFailed
  <1>4. CASE Applied
    BY <1>2, <1>4, AppliedPlayer, Players, SourcesAndRoutes
  <1> QED BY <1>3, <1>4, ApplyingSteps

(* A dead capture silences the direct route in the tick that finds it.     *)
THEOREM DeadCapturesAreSilent == Spec => DeadCaptureIsSilent
  <1>1. Consistent /\ [Next]_vars => [DeadIsSilent]_vars
    BY DeadStep
  <1>2. Spec => [][DeadIsSilent]_vars
    BY <1>1, StaysConsistent, PTL DEF Spec
  <1> QED BY <1>2 DEF DeadCaptureIsSilent, DeadIsSilent

-----------------------------------------------------------------------------
(* The routing policy on its own.                                          *)

(* A distributed route is only decided for a confirmed session of the      *)
(* active source while Downstairs is requested, and then says so.          *)
THEOREM DistributedIsConfirmed ==
  ASSUME NEW goal \in Targets, NEW o, o.active \in Sources, NEW inSession,
         reduce_routing(goal, o, inSession).route \in Distributed
  PROVE  /\ goal = "downstairs" /\ distribution_confirmed(o)
         /\ reduce_routing(goal, o, inSession).route = DistributedRoute(o.active)
  BY ReducedRoute, SourcesAndRoutes DEF LocalRoute

-----------------------------------------------------------------------------
(* While Console is requested, a decision is for a local route, whatever   *)
(* mode the tick read before: no latch, no session and no attempt brings a *)
(* distributed one.                                                        *)
LocalDecision ==
    target = "console" /\ pc \in {"ask_ma", "sample_bt"} /\ pc' \notin {"sample_bt", "ask_ma"}
        => pc' \in {"release", "apply"} /\ tick'.desired \notin Distributed

LEMMA UnseenIsLocal ==
  ASSUME NEW t \in Ticks, ~t.available, ~t.capable
  PROVE  Desired(t) \notin Distributed
  <1> DEFINE r == reduce_routing(t.mode, Observation(t), route \in Distributed).route
  <1>1. Latched(t) = r
    BY DEF Latched
  <1>2. r \notin Distributed
    <2>1. t.selected \in Sources
      BY DEF Ticks
    <2> QED BY <2>1, ReducedFits, SourcesAndRoutes DEF LocalRoute
  <1> HIDE DEF r
  <1> QED BY <1>1, <1>2, SourcesAndRoutes DEF Desired

LEMMA ObservedIsLocal ==
  ASSUME target = "console", NEW t \in Ticks, Observe(t)
  PROVE  pc' \in {"release", "apply"} /\ tick'.desired \notin Distributed
  <1> DEFINE source == selected_source(t)
  <1>1. PICK seen \in Seen(source) :
          Decide([t EXCEPT !.selected = source, !.available = seen.available,
                           !.capable = seen.capable, !.healthy = seen.healthy])
    BY DEF Observe
  <1> DEFINE u == [t EXCEPT !.selected = source, !.available = seen.available,
                            !.capable = seen.capable, !.healthy = seen.healthy]
  <1>2. PICK link \in Links, stopPending \in BOOLEAN :
          seen = [available |-> distribution_available(link, stopPending),
                  capable |-> distribution_capable(source, link, stopPending),
                  healthy |-> link \in {"healthy", "confirmed"}]
    BY <1>1 DEF Seen
  <1>3. /\ ~distribution_available(link, stopPending)
        /\ ~distribution_capable(source, link, stopPending)
    BY DEF distribution_available, distribution_capable
  <1>4. /\ ~seen.available /\ ~seen.capable
        /\ seen.available \in BOOLEAN /\ seen.capable \in BOOLEAN /\ seen.healthy \in BOOLEAN
    <2>1. /\ distribution_available(link, stopPending) = FALSE
          /\ distribution_capable(source, link, stopPending) = FALSE
          /\ (link \in {"healthy", "confirmed"}) \in BOOLEAN
      BY <1>3 DEF distribution_available, distribution_capable
    <2> QED BY <1>2, <2>1
  <1>5. source \in Sources
    BY DEF selected_source, Sources, Physical
  <1>6. u \in Ticks /\ ~u.available /\ ~u.capable
    BY <1>4, <1>5 DEF Ticks
  <1> HIDE DEF u
  <1>7. Proceed(u)
    BY <1>1, <1>6 DEF Decide, u
  <1>8. Desired(u) \notin Distributed
    BY <1>6, UnseenIsLocal
  <1>9. pc' \in {"release", "apply"}
    <2>1. ~Preparing(u)
      BY <1>8 DEF Preparing
    <2>2. CASE Leaving(u)
      BY <1>7, <2>2 DEF Proceed
    <2>3. CASE ~Leaving(u)
      BY <1>7, <2>1, <2>3 DEF Proceed
    <2> QED BY <2>2, <2>3
  <1>10. tick'.desired = Desired(u)
    BY <1>7 DEF Proceed, NoTick
  <1> QED BY <1>8, <1>9, <1>10

LEMMA HearingSteps ==
  ASSUME [Next]_vars, pc \in {"ask_ma", "sample_bt"}, pc' # pc
  PROVE  \/ \E playing \in BOOLEAN : HearMusicAssistant(playing)
         \/ \E ok, playing \in BOOLEAN : HearBluetooth(ok, playing)
  BY DEF Next, Transition, Choose, BeginTransition, ConsoleCommitted,
     StartAnswered, StartRaised, Step, Sample, SampleFails, Preactivate, PreactivateOutput,
     StartAttempted, Released, Prepared, Applied, ApplyFailed, Woken,
     RouteActivated, StartCancelled, vars

LEMMA LocalStep == Consistent /\ [Next]_vars => LocalDecision
  <1> SUFFICES ASSUME Consistent, [Next]_vars, target = "console",
                      pc \in {"ask_ma", "sample_bt"}, pc' \notin {"sample_bt", "ask_ma"}
               PROVE  pc' \in {"release", "apply"} /\ tick'.desired \notin Distributed
    BY DEF LocalDecision
  <1> USE DEF Consistent
  <1>1. ASSUME NEW playing \in BOOLEAN, HearMusicAssistant(playing)
        PROVE  pc' \in {"release", "apply"} /\ tick'.desired \notin Distributed
    <2>1. PICK mode \in OutputMode :
            Observe([[tick EXCEPT !.ma = playing, !.mode = mode]
                        EXCEPT !.bt = [tick EXCEPT !.ma = playing, !.mode = mode].playing])
      BY <1>1 DEF HearMusicAssistant
    <2> DEFINE u == [[tick EXCEPT !.ma = playing, !.mode = mode]
                        EXCEPT !.bt = [tick EXCEPT !.ma = playing, !.mode = mode].playing]
    <2>2. mode \in Targets
      BY DEF OutputMode, TypeOK, Targets
    <2>3. u \in Ticks
      BY <2>2 DEF TypeOK, Ticks
    <2> HIDE DEF u
    <2> QED BY <2>1, <2>3, ObservedIsLocal DEF u
  <1>2. ASSUME NEW ok \in BOOLEAN, NEW playing \in BOOLEAN, HearBluetooth(ok, playing)
        PROVE  pc' \in {"release", "apply"} /\ tick'.desired \notin Distributed
    <2>1. PICK active : Observe([tick EXCEPT !.bt = active \/ tick.playing,
                                             !.ready = ok /\ playing])
      BY <1>2 DEF HearBluetooth
    <2> DEFINE bt == active \/ tick.playing
               ready == ok /\ playing
               u == [tick EXCEPT !.bt = bt, !.ready = ready]
    <2>2. bt \in BOOLEAN /\ ready \in BOOLEAN
      OBVIOUS
    <2>3. Observe(u)
      BY <2>1
    <2> HIDE DEF bt, ready
    <2>4. u \in Ticks
      BY <2>2 DEF TypeOK, Ticks
    <2> HIDE DEF u
    <2> QED BY <2>3, <2>4, ObservedIsLocal
  <1> QED BY <1>1, <1>2, HearingSteps

(* Console is obeyed by the next decision: the core, without fairness, of  *)
(* its eventual end of the distribution.                                   *)
THEOREM ConsoleDecidesLocal == Spec => [][LocalDecision]_vars
  <1>1. Consistent /\ [Next]_vars => [LocalDecision]_vars
    BY LocalStep
  <1> QED BY <1>1, StaysConsistent, PTL DEF Spec
=============================================================================
