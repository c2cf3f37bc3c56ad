---------------------------- MODULE RoutingPolicy ----------------------------
(***************************************************************************)
(* The pure routing functions of policy.py.  Sources, targets and routes   *)
(* are the values of the enumerations of the code.                         *)
(***************************************************************************)

Physical == {"phono", "bluetooth"}
Sources == Physical \cup {"none"}
Targets == {"console", "downstairs"}
Distributed == {"distributed_phono", "distributed_bluetooth"}
Locals == {"local_phono", "local_bluetooth"}
Routes == Distributed \cup Locals \cup {"idle", "ma_playback"}
Phases == {"stable", "starting", "stopping", "degraded"}
Commands == {"none", "start", "stop"}

LocalRoute(source) ==
    IF source = "phono" THEN "local_phono" ELSE "local_bluetooth"
DistributedRoute(source) ==
    IF source = "phono" THEN "distributed_phono" ELSE "distributed_bluetooth"

route_source(route) ==
    CASE route \in {"local_phono", "distributed_phono"} -> "phono"
      [] route \in {"local_bluetooth", "distributed_bluetooth"} -> "bluetooth"
      [] route = "ma_playback" -> "music_assistant"
      [] OTHER -> "none"

(***************************************************************************)
(* An observation: the active and the selected source, whether the Console *)
(* player plays, the signals of publisher and Music Assistant that must    *)
(* all hold, whether a session may be started, and whether the session     *)
(* carries the current generation.                                         *)
(***************************************************************************)
Signals == {"connected", "stream_requested", "streaming", "stream_healthy",
            "ma_connected", "ma_target_playing"}

distribution_confirmed(o) ==
    /\ o.active \in Physical
    /\ o.selected = o.active
    /\ o.signals = Signals
    /\ o.consolePlaying
    /\ o.currentSession

Decision(route, phase, command, confirmed) ==
    [route |-> route, phase |-> phase, command |-> command, confirmed |-> confirmed]

reduce_routing(target, o, inSession) ==
    CASE o.active = "none" ->
            Decision(IF o.consolePlaying THEN "ma_playback" ELSE "idle", "stable",
                     IF inSession THEN "stop" ELSE "none", FALSE)
      [] o.active # "none" /\ target = "console" ->
            Decision(LocalRoute(o.active),
                     IF inSession THEN "stopping" ELSE "stable",
                     IF inSession THEN "stop" ELSE "none", FALSE)
      [] o.active # "none" /\ target # "console" /\ distribution_confirmed(o) ->
            Decision(DistributedRoute(o.active), "stable", "none", TRUE)
      [] OTHER ->
            Decision(LocalRoute(o.active),
                     IF o.capable THEN "starting" ELSE "degraded",
                     IF o.capable THEN "start" ELSE "none", FALSE)

choose_route(phono, bluetooth, playing, available, target) ==
    CASE phono /\ available /\ target = "downstairs" -> "distributed_phono"
      [] phono /\ ~(available /\ target = "downstairs") -> "local_phono"
      [] ~phono /\ bluetooth ->
            IF available THEN "distributed_bluetooth" ELSE "local_bluetooth"
      [] ~phono /\ ~bluetooth /\ playing -> "ma_playback"
      [] OTHER -> "idle"
=============================================================================
