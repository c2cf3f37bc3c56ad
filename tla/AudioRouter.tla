----------------------------- MODULE AudioRouter -----------------------------
(***************************************************************************)
(* ProcessAudioRouter and the players it owns: two ManagedProcess children *)
(* (phono and Music Assistant loopback) and TimestampedLocalPlayback (the  *)
(* Bluetooth player, a child fed by a pump task).  All open the same       *)
(* exclusive device.                                                       *)
(*                                                                         *)
(* The controller is the only caller and waits for every call: each tick   *)
(* applies the desired player, a call that raised is followed by one for   *)
(* silence, and the loop ends with close.  Routes that use the same player *)
(* are one here.  Children die, hang when told to stop and fail to start;  *)
(* a child started by asyncio with a pipe always has it, so the branch for *)
(* a child without stdin is left out.  Delays double up to MaxDelay steps. *)
(***************************************************************************)
EXTENDS Naturals, Sequences

CONSTANT MaxDelay    \* steps from the shortest to the longest restart delay

ASSUME RouterAssumption == MaxDelay \in Nat

Managed == {"phono", "ma"}
Players == Managed \cup {"bluetooth"}
NoPlayer == "none"

VARIABLES
    desired,  \* the player the controller wants, or "none"
    want,     \* the player of the call in progress, or of the last call
    stops,    \* players the call has yet to stop
    pc,       \* "rest", "stops", "start"; "closing", "closed" for close
    child,    \* _process of each player and how it is doing
    pump,     \* _pump_task of the Bluetooth player
    waiting,  \* _next_retry_at lies ahead
    delay     \* _retry_seconds, in doublings

call == <<want, stops, pc>>
backoff == <<waiting, delay>>
vars == <<desired, call, child, pump, backoff>>

(* "stopping" was told to terminate, "killed" was killed.                  *)
Living == {"running", "stopping", "killed"}
Alive == {p \in Players : child[p] \in Living}

TypeOK ==
    /\ {desired, want} \subseteq Players \cup {NoPlayer}
    /\ stops \in Seq(Players) /\ Len(stops) <= 3
    /\ pc \in {"rest", "stops", "start", "closing", "closed"}
    /\ child \in [Players -> Living \cup {"none", "exited"}]
    /\ pump \in {"none", "running", "cancelled", "done"}
    /\ waiting \in [Managed -> BOOLEAN]
    /\ delay \in [Managed -> 0 .. MaxDelay]

Init ==
    /\ desired = NoPlayer /\ want = NoPlayer
    /\ stops = <<>> /\ pc = "rest"
    /\ child = [p \in Players |-> "none"] /\ pump = "none"
    /\ waiting = [p \in Managed |-> FALSE] /\ delay = [p \in Managed |-> 0]

----------------------------------------------------------------------------
(* The environment: the controller's wish, time, and the children.         *)

Desire(p) ==
    /\ pc # "closed"
    /\ desired' = p
    /\ UNCHANGED <<call, child, pump, backoff>>

Elapse(p) ==
    /\ waiting[p]
    /\ waiting' = [waiting EXCEPT ![p] = FALSE]
    /\ UNCHANGED <<desired, call, child, pump, delay>>

Become(p, state) == child' = [child EXCEPT ![p] = state]

(* A child ends by itself, or because it was told to.                      *)
Exit(p) ==
    /\ child[p] \in Living
    /\ Become(p, "exited")
    /\ UNCHANGED <<desired, call, pump, backoff>>

(* The pump fails on a frame, on an output that stalls, or runs dry.       *)
PumpEnds ==
    /\ pump \in {"running", "cancelled"}
    /\ pump' = "done"
    /\ UNCHANGED <<desired, call, child, backoff>>

----------------------------------------------------------------------------
(* apply: the players that are not wanted are stopped, in this order.      *)

Order == <<"phono", "bluetooth", "ma">>

(* Mutant: players are stopped for silence only.                           *)
StopsForSilence(p) == IF p = NoPlayer THEN Order ELSE <<>>

Stops(p) ==
    CASE p = "phono" -> <<"bluetooth", "ma">>
      [] p = "bluetooth" -> <<"phono", "ma">>
      [] p = "ma" -> <<"phono", "bluetooth">>
      [] OTHER -> Order

Call(p) ==
    /\ want' = p
    /\ stops' = Stops(p)
    /\ pc' = "stops"

Apply ==
    /\ pc = "rest"
    /\ Call(desired)
    /\ UNCHANGED <<desired, child, pump, backoff>>

Close ==
    /\ pc = "rest"
    /\ want' = NoPlayer
    /\ stops' = Order
    /\ pc' = "closing"
    /\ UNCHANGED <<desired, child, pump, backoff>>

----------------------------------------------------------------------------
(* stop of the first player of stops.                                      *)

Stopping(p) == pc \in {"stops", "closing"} /\ stops # <<>> /\ Head(stops) = p

(* The pump is cancelled and awaited before the child is told to stop.     *)
PumpGone(p) == p = "bluetooth" => pump = "none"

CancelPump ==
    /\ Stopping("bluetooth") /\ pump \in {"running", "done"}
    /\ pump' = IF pump = "running" THEN "cancelled" ELSE "none"
    /\ UNCHANGED <<desired, call, child, backoff>>

Terminate(p) ==
    /\ Stopping(p) /\ PumpGone(p)
    /\ child[p] = "running"
    /\ Become(p, "stopping")
    /\ UNCHANGED <<desired, call, pump, backoff>>

(* Mutant: a child is waited for as long as it takes.                      *)
KillNever(p) == FALSE

(* The child has not ended after three seconds.                            *)
Kill(p) ==
    /\ Stopping(p) /\ child[p] = "stopping"
    /\ Become(p, "killed")
    /\ UNCHANGED <<desired, call, pump, backoff>>

(* A player that had a child also forgets its restart delay.               *)
StopReturns(p) ==
    /\ Stopping(p) /\ PumpGone(p)
    /\ child[p] \in {"none", "exited"}
    /\ stops' = Tail(stops)
    /\ Become(p, "none")
    /\ IF p \in Managed /\ child[p] = "exited"
       THEN /\ waiting' = [waiting EXCEPT ![p] = FALSE]
            /\ delay' = [delay EXCEPT ![p] = 0]
       ELSE UNCHANGED backoff
    /\ UNCHANGED <<desired, want, pc, pump>>

AllStopped ==
    /\ pc \in {"stops", "closing"} /\ stops = <<>>
    /\ pc' = CASE pc = "closing" -> "closed"
               [] pc = "stops" /\ want = NoPlayer -> "rest"
               [] OTHER -> "start"
    /\ UNCHANGED <<desired, want, stops, child, pump, backoff>>

----------------------------------------------------------------------------
(* start of the player that is wanted.                                     *)

Starting(p) == pc = "start" /\ want = p

Running(p) == child[p] = "running" /\ (p = "bluetooth" => pump = "running")

(* Mutant: a child without its pump counts as a player.                    *)
AlreadyRunningChild(p) ==
    /\ Starting(p) /\ child[p] = "running"
    /\ pc' = "rest"
    /\ UNCHANGED <<desired, want, stops, child, pump, backoff>>

AlreadyRunning(p) ==
    /\ Starting(p) /\ Running(p)
    /\ pc' = "rest"
    /\ UNCHANGED <<desired, want, stops, child, pump, backoff>>

(* The call raises; the controller then applies silence.                   *)
Raise == Call(NoPlayer)

(* Mutant: the delay doubles without end.                                  *)
PostponeEver(p) ==
    /\ waiting' = [waiting EXCEPT ![p] = TRUE]
    /\ delay' = [delay EXCEPT ![p] = @ + 1]

Postpone(p) ==
    /\ waiting' = [waiting EXCEPT ![p] = TRUE]
    /\ delay' = [delay EXCEPT ![p] = IF @ < MaxDelay THEN @ + 1 ELSE @]

(* A child that died is noticed here and not restarted at once.            *)
FindDead(p) ==
    /\ Starting(p) /\ p \in Managed
    /\ child[p] = "exited"
    /\ Become(p, "none")
    /\ Postpone(p)
    /\ Raise
    /\ UNCHANGED <<desired, pump>>

RefuseToStart(p) ==
    /\ Starting(p) /\ p \in Managed
    /\ child[p] = "none" /\ waiting[p]
    /\ Raise
    /\ UNCHANGED <<desired, child, pump, backoff>>

MayLaunch(p) == child[p] = "none" /\ (p \in Managed => ~waiting[p])

Launch(p) ==
    /\ Starting(p) /\ MayLaunch(p)
    /\ p = "bluetooth" => pump = "none"
    /\ Become(p, "running")
    /\ pump' = IF p = "bluetooth" THEN "running" ELSE pump
    /\ IF p \in Managed THEN delay' = [delay EXCEPT ![p] = 0] ELSE UNCHANGED delay
    /\ pc' = "rest"
    /\ UNCHANGED <<desired, want, stops, waiting>>

LaunchFails(p) ==
    /\ Starting(p) /\ MayLaunch(p)
    /\ p = "bluetooth" => pump = "none"
    /\ IF p \in Managed THEN Postpone(p) ELSE UNCHANGED backoff
    /\ Raise
    /\ UNCHANGED <<desired, child, pump>>

(* Mutant: a Bluetooth player that plays is replaced like a dead one.      *)
ReplaceAny ==
    /\ Starting("bluetooth")
    /\ child["bluetooth"] # "none" \/ pump # "none"
    /\ stops' = <<"bluetooth">>
    /\ pc' = "stops"
    /\ UNCHANGED <<desired, want, child, pump, backoff>>

(* The Bluetooth player stops what is left of itself before it starts.     *)
Replace ==
    /\ Starting("bluetooth") /\ ~Running("bluetooth")
    /\ child["bluetooth"] # "none" \/ pump # "none"
    /\ stops' = <<"bluetooth">>
    /\ pc' = "stops"
    /\ UNCHANGED <<desired, want, child, pump, backoff>>

----------------------------------------------------------------------------
Step(p) ==
    \/ Terminate(p) \/ Kill(p) \/ StopReturns(p)
    \/ AlreadyRunning(p) \/ FindDead(p) \/ RefuseToStart(p)

Next ==
    \/ \E p \in Players \cup {NoPlayer} : Desire(p)
    \/ \E p \in Managed : Elapse(p)
    \/ Apply \/ Close \/ CancelPump \/ AllStopped \/ Replace \/ PumpEnds
    \/ \E p \in Players : Exit(p) \/ Step(p) \/ Launch(p) \/ LaunchFails(p)

Spec == Init /\ [][Next]_vars

(* The loop runs, a cancelled pump ends, a killed child ends, time passes. *)
Scheduled ==
    /\ WF_vars(Apply) /\ WF_vars(CancelPump) /\ WF_vars(AllStopped) /\ WF_vars(Replace)
    /\ WF_vars(pump = "cancelled" /\ PumpEnds)
    /\ \A p \in Players :
        /\ WF_vars(Step(p)) /\ WF_vars(Launch(p) \/ LaunchFails(p))
        /\ WF_vars(child[p] = "killed" /\ Exit(p))
    /\ \A p \in Managed : WF_vars(Elapse(p))

(* A player that is tried again and again starts in the end.               *)
StartsRecover == \A p \in Players : SF_vars(Launch(p))

FairSpec == Spec /\ Scheduled /\ StartsRecover

----------------------------------------------------------------------------
(* The children that may have the device, as one owner while they are one. *)
Owner ==
    CASE Alive = {} -> NoPlayer
      [] \E p \in Players : Alive = {p} -> CHOOSE p \in Players : Alive = {p}
      [] OTHER -> "contended"

Exclusive == INSTANCE ExclusiveOutput WITH owner <- Owner

(* The router implements the abstract output: no two children are alive at *)
(* once, whatever dies, hangs or fails between the stop of one and the     *)
(* start of the next; the device passes from one player to another through *)
(* silence, and only to the player of the call.                            *)
ImplementsExclusive == Exclusive!Spec

(* What first ends a player that plays: its child is told to stop or, of   *)
(* the Bluetooth player, its pump is cancelled.                            *)
Interrupted(p) ==
    /\ Running(p)
    /\ child'[p] = "stopping" \/ (p = "bluetooth" /\ pump' = "cancelled")

(* A call for the player that plays does not touch it, although the player *)
(* may die at any step and a call may stop what is left of it: reconciling *)
(* every tick is not a transition.                                         *)
PlayingIsLeftAlone == [][\A p \in Players : Interrupted(p) => want # p]_vars

(* A player that stays wanted plays again and again, after every death of  *)
(* child or pump and every failed start, unless the router is closed.      *)
WantedPlayerPlays ==
    \A p \in Players :
        <>[](desired = p) => []<>(Running(p) \/ pc = "closed")

(* The end of the daemon is reached and leaves the device free for good,   *)
(* also when a child or the pump ignores what it is told.                  *)
ClosesInSilence == pc = "closing" ~> [](pc = "closed" /\ Alive = {})
=============================================================================
