-------------------------- MODULE AudioRouterProofs --------------------------
(***************************************************************************)
(* Proofs about AudioRouter, for any number of doublings of the delay.     *)
(*                                                                         *)
(* The device has one owner: at most one child is alive, and while a call  *)
(* is under way a living child is the one that is wanted or is still to be *)
(* stopped.  So nothing else is alive when the wanted player is launched.  *)
(***************************************************************************)
EXTENDS AudioRouter, SequenceTheorems, TLAPS

ToStop(p) == \E i \in 1 .. Len(stops) : stops[i] = p

(* The players that the call in progress lets live.                        *)
Spared == CASE pc = "stops" -> {p \in Players : p = want \/ ToStop(p)}
            [] pc = "start" -> {want}
            [] pc = "closing" -> {p \in Players : ToStop(p)}
            [] pc = "closed" -> {}
            [] OTHER -> Players

OneAlive == \A p, q \in Alive : p = q

(* A call stops the player it wants only to replace what is left of the    *)
(* Bluetooth player, which was found not to play.                          *)
WantedIsSpared ==
    pc = "stops" /\ ToStop(want) => want = "bluetooth" /\ ~Running("bluetooth")

Discipline ==
    /\ TypeOK
    /\ OneAlive
    /\ Alive \subseteq Spared
    /\ WantedIsSpared
    /\ pc = "start" => want # NoPlayer
    /\ pc \in {"closing", "closed"} => want = NoPlayer

-----------------------------------------------------------------------------
(* Type correctness.                                                       *)

LEMMA OrdersAreTyped ==
  /\ Order \in Seq(Players) /\ Len(Order) = 3
  /\ \A p \in Players \cup {NoPlayer} : Stops(p) \in Seq(Players) /\ Len(Stops(p)) <= 3
  /\ <<"bluetooth">> \in Seq(Players) /\ Len(<<"bluetooth">>) = 1
  BY DEF Order, Stops, Players, Managed, NoPlayer

LEMMA StopsTail ==
  ASSUME TypeOK, stops # <<>>
  PROVE  /\ Tail(stops) \in Seq(Players) /\ Len(Tail(stops)) = Len(stops) - 1
         /\ Len(Tail(stops)) \in Nat
         /\ Head(stops) = stops[1] /\ Head(stops) \in Players
         /\ \A i \in 1 .. Len(Tail(stops)) : Tail(stops)[i] = stops[i + 1]
  <1>1. stops \in Seq(Players)
    BY DEF TypeOK
  <1> QED
    BY <1>1, HeadTailProperties, EmptySeq

LEMMA InitTyped == Init => TypeOK
  BY RouterAssumption, EmptySeq DEF Init, TypeOK, Managed, Players, NoPlayer, Living

(* A call, of the controller or after a failure, has a typed order.        *)
LEMMA CallTyped ==
  ASSUME NEW p \in Players \cup {NoPlayer}, Call(p)
  PROVE  /\ want' \in Players \cup {NoPlayer}
         /\ stops' \in Seq(Players) /\ Len(stops') <= 3 /\ pc' = "stops"
  BY OrdersAreTyped DEF Call

LEMMA BackoffTyped ==
  ASSUME TypeOK, NEW p \in Managed, Postpone(p)
  PROVE  waiting' \in [Managed -> BOOLEAN] /\ delay' \in [Managed -> 0 .. MaxDelay]
  BY RouterAssumption DEF TypeOK, Postpone

LEMMA StopTyped ==
  ASSUME TypeOK, NEW p \in Players,
         Terminate(p) \/ Kill(p) \/ StopReturns(p) \/ CancelPump \/ AllStopped
  PROVE  TypeOK'
  <1>1. CASE Terminate(p) \/ Kill(p) \/ CancelPump \/ AllStopped
    BY <1>1 DEF TypeOK, Terminate, Kill, CancelPump, AllStopped, Become, Living,
       call, backoff
  <1>2. CASE StopReturns(p)
    <2>1. /\ stops' \in Seq(Players) /\ Len(stops') <= 3
          /\ child' \in [Players -> Living \cup {"none", "exited"}]
          /\ UNCHANGED <<desired, want, pc, pump>>
      BY <1>2, StopsTail DEF TypeOK, StopReturns, Stopping, Become
    <2>2. /\ waiting' \in [Managed -> BOOLEAN]
          /\ delay' \in [Managed -> 0 .. MaxDelay]
      <3>1. CASE p \in Managed /\ child[p] = "exited"
        <4>1. /\ waiting' = [waiting EXCEPT ![p] = FALSE]
              /\ delay' = [delay EXCEPT ![p] = 0]
          BY <1>2, <3>1 DEF StopReturns
        <4>2. 0 \in 0 .. MaxDelay
          BY RouterAssumption
        <4> QED BY <4>1, <4>2 DEF TypeOK
      <3>2. CASE ~(p \in Managed /\ child[p] = "exited")
        BY <1>2, <3>2 DEF TypeOK, StopReturns, backoff
      <3> QED BY <3>1, <3>2
    <2> QED BY <2>1, <2>2 DEF TypeOK
  <1> QED BY <1>1, <1>2

LEMMA StartTyped ==
  ASSUME TypeOK, NEW p \in Players,
         AlreadyRunning(p) \/ FindDead(p) \/ RefuseToStart(p) \/ Launch(p)
         \/ LaunchFails(p) \/ Replace
  PROVE  TypeOK'
  <1> USE DEF TypeOK
  <1>1. CASE AlreadyRunning(p)
    BY <1>1 DEF AlreadyRunning, backoff
  <1>2. CASE FindDead(p)
    BY <1>2, BackoffTyped, CallTyped DEF FindDead, Raise, Become
  <1>3. CASE RefuseToStart(p)
    BY <1>3, CallTyped DEF RefuseToStart, Raise, backoff
  <1>4. CASE Launch(p)
    BY <1>4, RouterAssumption DEF Launch, Become, Living
  <1>5. CASE LaunchFails(p)
    BY <1>5, BackoffTyped, CallTyped DEF LaunchFails, Raise, backoff
  <1>6. CASE Replace
    BY <1>6, OrdersAreTyped DEF Replace, backoff
  <1> QED BY <1>1, <1>2, <1>3, <1>4, <1>5, <1>6

LEMMA StepTyped == TypeOK /\ [Next]_vars => TypeOK'
  <1> SUFFICES ASSUME TypeOK, [Next]_vars PROVE TypeOK'
    OBVIOUS
  <1> USE DEF TypeOK
  <1>1. CASE \E p \in Players \cup {NoPlayer} : Desire(p)
    BY <1>1 DEF Desire, call, backoff
  <1>2. CASE \E p \in Managed : Elapse(p)
    BY <1>2 DEF Elapse, call
  <1>3. CASE Apply
    BY <1>3, CallTyped DEF Apply, backoff
  <1>4. CASE Close
    BY <1>4, OrdersAreTyped DEF Close, backoff
  <1>5. CASE PumpEnds
    BY <1>5 DEF PumpEnds, call, backoff
  <1>6. ASSUME NEW p \in Players, Exit(p) PROVE TypeOK'
    BY <1>6 DEF Exit, Become, call, backoff
  <1>7. CASE UNCHANGED vars
    BY <1>7 DEF vars, call, backoff
  <1>8. Next => \/ \E p \in Players \cup {NoPlayer} : Desire(p)
                \/ \E p \in Managed : Elapse(p)
                \/ Apply \/ Close \/ PumpEnds
                \/ \E p \in Players : Exit(p)
                \/ CancelPump \/ AllStopped \/ Replace
                \/ \E p \in Players : Terminate(p) \/ Kill(p) \/ StopReturns(p)
                \/ \E p \in Players : \/ AlreadyRunning(p) \/ FindDead(p)
                                      \/ RefuseToStart(p) \/ Launch(p) \/ LaunchFails(p)
    BY DEF Next, Step
  <1>9. "bluetooth" \in Players
    BY DEF Players
  <1> QED
    BY <1>1, <1>2, <1>3, <1>4, <1>5, <1>6, <1>7, <1>8, <1>9, StopTyped, StartTyped

(* Every variable keeps its type, for any number of doublings.             *)
THEOREM TypeCorrect == Spec => []TypeOK
  <1>1. Init => TypeOK
    BY InitTyped
  <1>2. TypeOK /\ [Next]_vars => TypeOK'
    BY StepTyped
  <1> QED
    BY <1>1, <1>2, PTL DEF Spec

-----------------------------------------------------------------------------
(* One owner.                                                              *)

LEMMA InitDisciplined == Init => Discipline
  <1> SUFFICES ASSUME Init PROVE Discipline
    OBVIOUS
  <1>1. Alive = {}
    BY DEF Init, Alive, Living
  <1> QED
    BY <1>1, InitTyped DEF Discipline, OneAlive, WantedIsSpared, Init

(* A call for p stops every player but p.                                  *)
LEMMA OthersAreStopped ==
  ASSUME NEW p \in Players \cup {NoPlayer}, NEW q \in Players
  PROVE  (\E i \in 1 .. Len(Stops(p)) : Stops(p)[i] = q) <=> q # p
  <1>1. CASE p = "phono"
    <2>1. Stops(p) = <<"bluetooth", "ma">>
      BY <1>1 DEF Stops
    <2> QED BY <1>1, <2>1 DEF Players, Managed
  <1>2. CASE p = "bluetooth"
    <2>1. Stops(p) = <<"phono", "ma">>
      BY <1>2 DEF Stops
    <2> QED BY <1>2, <2>1 DEF Players, Managed
  <1>3. CASE p = "ma"
    <2>1. Stops(p) = <<"phono", "bluetooth">>
      BY <1>3 DEF Stops
    <2> QED BY <1>3, <2>1 DEF Players, Managed
  <1>4. CASE p = NoPlayer
    <2>1. Stops(p) = <<"phono", "bluetooth", "ma">>
      BY <1>4 DEF Stops, NoPlayer, Order
    <2> QED BY <1>4, <2>1 DEF Players, Managed, NoPlayer
  <1> QED
    BY <1>1, <1>2, <1>3, <1>4 DEF Players, Managed

(* A call begins while no child but one is alive, and starts none.         *)
LEMMA CallDisciplined ==
  ASSUME Discipline, NEW p \in Players \cup {NoPlayer}, Call(p), Alive' \subseteq Alive,
         TypeOK'
  PROVE  Discipline'
  <1>1. pc' = "stops" /\ want' = p /\ stops' = Stops(p)
    BY DEF Call
  <1>2. \A q \in Players : ToStop(q)' <=> q # p
    BY <1>1, OthersAreStopped DEF ToStop
  <1>3. (Alive \subseteq Spared)'
    BY <1>1, <1>2 DEF Spared, Alive
  <1>4. OneAlive'
    BY DEF Discipline, OneAlive
  <1>5. WantedIsSpared'
    <2>1. CASE p \in Players
      BY <1>1, <1>2, <2>1 DEF WantedIsSpared
    <2>2. CASE p = NoPlayer
      <3>1. \A i \in 1 .. Len(stops') : stops'[i] \in Players
        BY ElementOfSeq DEF TypeOK
      <3> QED BY <1>1, <2>2, <3>1 DEF WantedIsSpared, ToStop, NoPlayer, Players, Managed
    <2> QED BY <2>1, <2>2
  <1> QED
    BY <1>1, <1>3, <1>4, <1>5 DEF Discipline

(* Steps that start no player and leave the call as it is.                 *)
Ends == /\ Alive' \subseteq Alive
        /\ Running("bluetooth")' => Running("bluetooth")
        /\ UNCHANGED call

LEMMA EndsDisciplined ==
  ASSUME Discipline, Ends, TypeOK'
  PROVE  Discipline'
  BY DEF Discipline, OneAlive, Spared, ToStop, WantedIsSpared, call, Ends

LEMMA StopDisciplined ==
  ASSUME Discipline, NEW p \in Players, StopReturns(p), TypeOK'
  PROVE  Discipline'
  <1>1. Alive' \subseteq Alive /\ p \notin Alive' /\ UNCHANGED <<want, pc>>
    BY DEF StopReturns, Become, Alive, Living, Discipline, TypeOK
  <1>2. \A q \in Players \cup {want} : ToStop(q)' => ToStop(q)
    BY StopsTail DEF StopReturns, Stopping, ToStop, Discipline
  <1>3. \A q \in Players : q # p /\ ToStop(q) => ToStop(q)'
    <2> SUFFICES ASSUME NEW q \in Players, q # p, NEW i \in 1 .. Len(stops), stops[i] = q
                 PROVE  ToStop(q)'
      BY DEF ToStop
    <2>1. stops # <<>> /\ stops[1] = p /\ stops' = Tail(stops) /\ Len(stops) \in Nat
      BY StopsTail, LenProperties DEF StopReturns, Stopping, Discipline, TypeOK
    <2>2. i - 1 \in 1 .. Len(stops') /\ stops'[i - 1] = stops[i]
      BY <2>1, StopsTail DEF Discipline
    <2> QED BY <2>2 DEF ToStop
  <1>4. pc \in {"stops", "closing"}
    BY DEF StopReturns, Stopping
  <1>5. Running("bluetooth")' => Running("bluetooth")
    BY DEF StopReturns, Become, Running, Discipline, TypeOK, Players
  <1>6. (Alive \subseteq Spared)'
    BY <1>1, <1>3, <1>4 DEF Discipline, Spared, Alive
  <1> QED
    BY <1>1, <1>2, <1>5, <1>6 DEF Discipline, OneAlive, WantedIsSpared

LEMMA LaunchDisciplined ==
  ASSUME Discipline, NEW p \in Players, Launch(p), TypeOK'
  PROVE  Discipline' /\ Alive = {} /\ Alive' = {p}
  <1>1. pc = "start" /\ want = p /\ child[p] = "none"
    BY DEF Launch, Starting, MayLaunch
  <1>2. Alive = {}
    BY <1>1 DEF Discipline, Spared, Alive, Living
  <1>3. Alive' = {p}
    BY <1>2 DEF Launch, Become, Alive, Living, Discipline, TypeOK
  <1> QED
    BY <1>2, <1>3 DEF Discipline, OneAlive, Spared, WantedIsSpared, Launch

LEMMA StartDisciplined ==
  ASSUME Discipline, NEW p \in Players,
         AlreadyRunning(p) \/ FindDead(p) \/ RefuseToStart(p) \/ LaunchFails(p),
         TypeOK'
  PROVE  Discipline' /\ Alive' = Alive
  <1>1. CASE AlreadyRunning(p)
    BY <1>1 DEF AlreadyRunning, Starting, Discipline, OneAlive, Spared, WantedIsSpared,
       Alive
  <1>2. CASE FindDead(p) \/ RefuseToStart(p) \/ LaunchFails(p)
    <2>1. Alive' = Alive /\ Call(NoPlayer)
      BY <1>2 DEF FindDead, RefuseToStart, LaunchFails, Raise, Become, Alive, Living,
         Discipline, TypeOK
    <2> QED BY <2>1, CallDisciplined
  <1> QED BY <1>1, <1>2

LEMMA AllStoppedDisciplined ==
  ASSUME Discipline, AllStopped, TypeOK'
  PROVE  Discipline'
  <1>1. \A q : ~ToStop(q)
    BY DEF AllStopped, ToStop
  <1>2. Alive' = Alive /\ UNCHANGED <<want, stops>>
    BY DEF AllStopped, Alive
  <1>3. Alive \subseteq {want} /\ (pc = "closing" => Alive = {})
    BY <1>1 DEF AllStopped, Discipline, Spared
  <1> QED
    BY <1>2, <1>3 DEF AllStopped, Discipline, OneAlive, Spared, WantedIsSpared, Alive

LEMMA ReplaceDisciplined ==
  ASSUME Discipline, Replace, TypeOK'
  PROVE  Discipline'
  <1>1. /\ pc = "start" /\ want = "bluetooth" /\ want' = want
        /\ pc' = "stops" /\ stops' = <<"bluetooth">> /\ Alive' = Alive
        /\ ~Running("bluetooth")'
    BY DEF Replace, Starting, Alive, Running
  <1> QED
    BY <1>1, OrdersAreTyped DEF Discipline, OneAlive, Spared, WantedIsSpared, ToStop,
       Players, NoPlayer, Alive

LEMMA CloseDisciplined ==
  ASSUME Discipline, Close, TypeOK'
  PROVE  Discipline'
  <1>1. /\ pc' = "closing" /\ want' = NoPlayer
        /\ stops' = <<"phono", "bluetooth", "ma">> /\ Alive' = Alive
    BY DEF Close, Alive, Order
  <1>2. \A p \in Players : ToStop(p)'
    BY <1>1 DEF ToStop, Players, Managed
  <1> QED
    BY <1>1, <1>2 DEF Discipline, OneAlive, Spared, WantedIsSpared, Alive

LEMMA QuietSteps ==
  ASSUME TypeOK
  PROVE  /\ \A p \in Players \cup {NoPlayer} : Desire(p) => Ends
         /\ \A p \in Managed : Elapse(p) => Ends
         /\ \A p \in Players : Exit(p) \/ Terminate(p) \/ Kill(p) => Ends
         /\ PumpEnds \/ CancelPump \/ UNCHANGED vars => Ends
  BY DEF Ends, Desire, Elapse, Exit, Terminate, Kill, PumpEnds, CancelPump, vars, call,
     Alive, Living, Become, TypeOK, Stopping, Running, Players

LEMMA StepDisciplined == Discipline /\ [Next]_vars => Discipline'
  <1> SUFFICES ASSUME Discipline, [Next]_vars PROVE Discipline'
    OBVIOUS
  <1>0. TypeOK /\ TypeOK'
    BY StepTyped DEF Discipline
  <1>1. CASE Ends
    BY <1>0, <1>1, EndsDisciplined DEF Ends
  <1>2. CASE Apply
    BY <1>0, <1>2, CallDisciplined DEF Apply, Alive, TypeOK
  <1>3. CASE Close \/ AllStopped \/ Replace
    BY <1>0, <1>3, CloseDisciplined, AllStoppedDisciplined, ReplaceDisciplined
  <1>4. ASSUME NEW p \in Players, StopReturns(p) \/ Launch(p)
        PROVE  Discipline'
    BY <1>0, <1>4, StopDisciplined, LaunchDisciplined
  <1>5. ASSUME NEW p \in Players,
               AlreadyRunning(p) \/ FindDead(p) \/ RefuseToStart(p) \/ LaunchFails(p)
        PROVE  Discipline'
    BY <1>0, <1>5, StartDisciplined
  <1> QED
    BY <1>0, <1>1, <1>2, <1>3, <1>4, <1>5, QuietSteps DEF Next, Step

LEMMA Disciplined == Spec => []Discipline
  <1>1. Init => Discipline
    BY InitDisciplined
  <1>2. Discipline /\ [Next]_vars => Discipline'
    BY StepDisciplined
  <1> QED
    BY <1>1, <1>2, PTL DEF Spec

-----------------------------------------------------------------------------
(* Refinement: a launch takes the device, an exit leaves it, a call asks   *)
(* for it, and everything else is invisible.                               *)

OwnerVars == <<want, Owner>>

LEMMA OwnerIsAlive ==
  ASSUME OneAlive
  PROVE  /\ Alive = {} => Owner = NoPlayer
         /\ \A p \in Players : Alive = {p} => Owner = p
         /\ Alive = {} \/ \E p \in Players : Alive = {p}
  <1>1. Alive = {} \/ \E p \in Players : Alive = {p}
    BY DEF OneAlive, Alive
  <1>2. ASSUME NEW p \in Players, Alive = {p}
        PROVE  Owner = p
    <2>1. \A q : Alive = {q} => q = p
      BY <1>2
    <2>2. (CHOOSE q \in Players : Alive = {q}) = p
      BY <1>2, <2>1
    <2> QED BY <1>2, <2>2 DEF Owner
  <1> QED
    BY <1>1, <1>2 DEF Owner

(* The device is given up, or stays with its owner.                        *)
LEMMA EndsLeaves ==
  ASSUME OneAlive, OneAlive', Alive' \subseteq Alive
  PROVE  Owner' = Owner \/ (Owner # NoPlayer /\ Owner' = NoPlayer)
  <1>1. CASE Alive = {}
    BY <1>1 DEF Owner
  <1>2. ASSUME NEW p \in Players, Alive = {p}
        PROVE  Owner' = Owner \/ (Owner # NoPlayer /\ Owner' = NoPlayer)
    <2>1. Owner = p /\ p # NoPlayer
      BY <1>2, OwnerIsAlive DEF NoPlayer, Players, Managed
    <2>2. Alive' = {} \/ Alive' = Alive
      BY <1>2
    <2>3. Alive' = {} => Owner' = NoPlayer
      BY DEF Owner
    <2>4. Alive' = Alive => Owner' = Owner
      BY DEF Owner
    <2> QED BY <2>1, <2>2, <2>3, <2>4
  <1> QED
    BY <1>1, <1>2, OwnerIsAlive

LEMMA ExclusiveStep ==
  Discipline /\ Discipline' /\ [Next]_vars => Exclusive!Next \/ UNCHANGED OwnerVars
  <1> SUFFICES ASSUME Discipline, Discipline', [Next]_vars
               PROVE  Exclusive!Next \/ UNCHANGED OwnerVars
    OBVIOUS
  <1> USE DEF Discipline
  <1>1. CASE Ends
    BY <1>1, EndsLeaves DEF Ends, call, OwnerVars, Exclusive!Next, Exclusive!Leave
  <1>2. ASSUME Alive' = Alive
        PROVE  Exclusive!Next \/ UNCHANGED OwnerVars
    <2>1. Owner' = Owner
      BY <1>2 DEF Owner
    <2> QED
      BY <2>1 DEF TypeOK, Exclusive!Next, Exclusive!Ask
  <1>3. CASE Apply \/ Close \/ AllStopped \/ Replace
    BY <1>2, <1>3 DEF Apply, Close, AllStopped, Replace, Alive
  <1>4. ASSUME NEW p \in Players, StopReturns(p)
        PROVE  Exclusive!Next \/ UNCHANGED OwnerVars
    <2>1. Alive' = Alive
      BY <1>4 DEF StopReturns, Become, Alive, Living, TypeOK
    <2> QED BY <1>2, <2>1
  <1>5. ASSUME NEW p \in Players, Launch(p)
        PROVE  Exclusive!Next \/ UNCHANGED OwnerVars
    <2>1. Alive = {} /\ Alive' = {p} /\ want = p /\ want' = p
      BY <1>5, LaunchDisciplined DEF Launch, Starting
    <2>2. Owner = NoPlayer /\ Owner' = p /\ p # NoPlayer
      <3>1. Owner' = p
        <4>1. (CHOOSE q \in Players : Alive' = {q}) = p
          BY <2>1
        <4> QED BY <2>1, <4>1 DEF Owner
      <3> QED BY <2>1, <3>1 DEF Owner, NoPlayer, Players, Managed
    <2> QED BY <2>1, <2>2 DEF Exclusive!Next, Exclusive!Take
  <1>6. ASSUME NEW p \in Players,
               AlreadyRunning(p) \/ FindDead(p) \/ RefuseToStart(p) \/ LaunchFails(p)
        PROVE  Exclusive!Next \/ UNCHANGED OwnerVars
    BY <1>2, <1>6, StartDisciplined
  <1> QED
    BY <1>1, <1>3, <1>4, <1>5, <1>6, QuietSteps DEF Next, Step

(* Whatever dies, hangs or fails to start, the players use the device one  *)
(* at a time and hand it over through silence.                             *)
THEOREM RouterIsExclusive == Spec => ImplementsExclusive
  <1>1. Init => Exclusive!Init
    <2> SUFFICES ASSUME Init PROVE Exclusive!Init
      OBVIOUS
    <2>1. Alive = {}
      BY DEF Init, Alive, Living
    <2> QED BY <2>1 DEF Init, Exclusive!Init, Owner
  <1>2. Discipline /\ Discipline' /\ [Next]_vars => [Exclusive!Next]_(Exclusive!vars)
    BY ExclusiveStep DEF OwnerVars, Exclusive!vars
  <1> QED
    BY <1>1, <1>2, Disciplined, PTL DEF Spec, ImplementsExclusive, Exclusive!Spec

(* Nobody has the device once the router is closed.                        *)
THEOREM ClosedIsSilent == Spec => [](pc = "closed" => Alive = {})
  <1>1. Discipline => (pc = "closed" => Alive = {})
    BY DEF Discipline, Spared
  <1> QED
    BY <1>1, Disciplined, PTL

-----------------------------------------------------------------------------
(* A player that plays is interrupted by a call for another player only.   *)
LeftAlone == \A p \in Players : Interrupted(p) => want # p

(* Stopping the player that is wanted is left to a player that ended.      *)
LEMMA WantedIsNotStopped ==
  ASSUME Discipline, NEW p \in Players, Stopping(p), Running(p)
  PROVE  want # p
  <1> SUFFICES ASSUME want = p PROVE FALSE
    OBVIOUS
  <1>1. ToStop(p)
    BY StopsTail, LenProperties DEF Stopping, ToStop, Discipline, TypeOK
  <1>2. pc = "stops"
    BY DEF Stopping, Discipline, NoPlayer, Players, Managed
  <1>3. p = "bluetooth" /\ ~Running("bluetooth")
    BY <1>1, <1>2 DEF Discipline, WantedIsSpared
  <1> QED BY <1>3

LEMMA LeftAloneStep == Discipline /\ [Next]_vars => [LeftAlone]_vars
  <1> SUFFICES ASSUME Discipline, Next, NEW p \in Players, Interrupted(p)
               PROVE  want # p
    BY DEF LeftAlone
  <1>1. /\ child \in [Players -> Living \cup {"none", "exited"}]
        /\ Running(p) /\ child[p] = "running" /\ "bluetooth" \in Players
    BY DEF Discipline, TypeOK, Running, Interrupted, Players
  <1>2. CASE p = "bluetooth" /\ pump' = "cancelled"
    <2>1. pump = "running"
      BY <1>1, <1>2 DEF Running
    <2>2. CancelPump
      BY <1>2, <2>1 DEF Next, Step, Desire, Elapse, Apply, Close, AllStopped, Replace,
         PumpEnds, Exit, Terminate, Kill, StopReturns, AlreadyRunning, FindDead,
         RefuseToStart, Launch, LaunchFails
    <2> QED BY <1>1, <1>2, <2>2, WantedIsNotStopped DEF CancelPump
  <1>3. CASE child'[p] = "stopping"
    <2>1. ASSUME NEW q \in Players, Terminate(q)
          PROVE  want # p
      <3>1. q = p
        BY <1>1, <1>3, <2>1 DEF Terminate, Become
      <3> QED BY <1>1, <2>1, <3>1, WantedIsNotStopped DEF Terminate
    <2>2. ASSUME NEW q \in Players, ~Terminate(q),
                 Exit(q) \/ Step(q) \/ Launch(q) \/ LaunchFails(q)
          PROVE  FALSE
      BY <1>1, <1>3, <2>2 DEF Exit, Step, Kill, StopReturns, AlreadyRunning, FindDead,
         RefuseToStart, Launch, LaunchFails, Become
    <2>3. CASE \/ \E q \in Players \cup {NoPlayer} : Desire(q)
               \/ \E q \in Managed : Elapse(q)
               \/ Apply \/ Close \/ CancelPump \/ AllStopped \/ Replace \/ PumpEnds
      BY <1>1, <1>3, <2>3 DEF Desire, Elapse, Apply, Close, CancelPump, AllStopped,
         Replace, PumpEnds
    <2> QED BY <2>1, <2>2, <2>3 DEF Next
  <1> QED
    BY <1>2, <1>3 DEF Interrupted

(* Reconciling every tick never interrupts the player that is wanted: a    *)
(* call that stops the Bluetooth player it wants found it ended before.    *)
THEOREM WantedIsLeftAlone == Spec => PlayingIsLeftAlone
  <1>1. Discipline /\ [Next]_vars => [LeftAlone]_vars
    BY LeftAloneStep
  <1>2. Spec => [][LeftAlone]_vars
    BY <1>1, Disciplined, PTL DEF Spec
  <1> QED
    BY <1>2 DEF PlayingIsLeftAlone, LeftAlone
=============================================================================
