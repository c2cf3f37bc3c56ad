-------------------------- MODULE OutputIntentProofs --------------------------
(***************************************************************************)
(* Proofs about OutputIntent for any set of request handlers, any bound    *)
(* and any set of outcomes.                                                *)
(***************************************************************************)
EXTENDS OutputIntent, SequenceTheorems, TLAPS

-----------------------------------------------------------------------------
(* The inductive invariant.                                                *)

(* A request past Enter still holds _output_mode_lock.                     *)
ApiExclusive == \A r \in Requests : pc[r] \in Inside => Holds(apiLock, r)

(* A handler applying its mode holds output_transition_lock.               *)
TransitionExclusive ==
    \A h \in Handlers : pc[h] \in Critical => Holds(transitionLock, h)

(* How far the handler that applies its mode has come.                     *)
Applied ==
    \A h \in Handlers :
        /\ pc[h] \in Critical => saved = mode[h]
        /\ pc[h] = "disable_phono" => enabled \subseteq {"phono", "bluetooth"}
        /\ pc[h] = "disable_bluetooth" => enabled \subseteq {"bluetooth"}
        /\ pc[h] = "stop_players" => enabled = {}
        /\ pc[h] \in Critical \ {"playing"} => mode[h] = "console"
        /\ pc[h] = "playing" => mode[h] = "downstairs" /\ enabled = Publishers

Numbered ==
    \A h \in Handlers :
        /\ gen[h] <= generation
        /\ snapshot[h] <= generation
        /\ pc[h] # "idle" => 0 < gen[h]
        /\ pc[h] \in Critical => gen[h] <= snapshot[h]

(* The handler will apply the current choice before it returns.            *)
Owes(h) ==
    /\ pc[h] # "idle"
    /\ mode[h] = target
    /\ pc[h] = "wait_api" => IsCurrent(h)

Owed(P) == P \/ \E h \in Handlers : Owes(h)

Durable == target = "downstairs" => saved = "downstairs"

LockInv == TypeOK /\ ApiExclusive /\ TransitionExclusive

WorkInv == LockInv /\ Applied /\ Numbered

DurableInv == WorkInv /\ Owed(Durable)

AgreementInv == WorkInv /\ Owed(Agreement)

-----------------------------------------------------------------------------
(* Lemmas about the locks.                                                 *)

LEMMA CriticalInside == Critical \subseteq Inside /\ Inside \subseteq Control
  BY DEF Critical, Inside, Control

(* Queueing behind others keeps the type and the holder of a lock.         *)
LEMMA QueueUp ==
    ASSUME NEW S, NEW q \in Seq(S), NEW x \in S, NEW h
    PROVE  /\ Append(q, x) \in Seq(S)
           /\ Holds(q, h) => Holds(Append(q, x), h)
  BY AppendProperties, HeadTailAppend DEF Holds

(* The holder leaves a lock that keeps its type.                           *)
LEMMA Release ==
    ASSUME NEW S, NEW q \in Seq(S), NEW h, Holds(q, h)
    PROVE  Tail(q) \in Seq(S)
  BY HeadTailProperties DEF Holds

(* A handler that leaves a critical section, or its turn, was the holder   *)
(* of every lock it held, and so nobody else is critical.                  *)
LEMMA LeaveLocks ==
    ASSUME LockInv, NEW h \in Handlers, pc[h] \in Inside,
           Holds(transitionLock, h), Leave(h)
    PROVE  /\ apiLock' \in Seq(Requests)
           /\ transitionLock' \in Seq(Handlers)
           /\ pc' \in [Handlers -> Control]
           /\ ApiExclusive'
           /\ TransitionExclusive'
<1> USE DEF LockInv
<1>1. transitionLock' \in Seq(Handlers)
  BY Release DEF TypeOK, Leave
<1>2. apiLock' \in Seq(Requests)
  BY Release DEF TypeOK, Leave, ApiExclusive
<1>3. pc' \in [Handlers -> Control] /\ pc' = [pc EXCEPT ![h] = "idle"]
  BY DEF TypeOK, Leave, Control
<1>4. "idle" \notin Inside /\ Critical \subseteq Inside
  BY DEF Inside, Critical
<1>5. ApiExclusive'
  <2> SUFFICES ASSUME NEW r \in Requests, pc'[r] \in Inside
               PROVE  Holds(apiLock', r)
    BY DEF ApiExclusive, Holds
  <2>1. r # h /\ pc[r] \in Inside /\ r \in Handlers
    BY <1>3, <1>4 DEF Handlers, TypeOK
  <2>2. Holds(apiLock, r)
    BY <2>1 DEF ApiExclusive
  <2>3. h \notin Requests
    BY <2>1, <2>2 DEF ApiExclusive, Holds
  <2> QED BY <2>2, <2>3 DEF Leave
<1>6. TransitionExclusive'
  <2> SUFFICES ASSUME NEW k \in Handlers, pc'[k] \in Critical PROVE FALSE
    BY DEF TransitionExclusive, Holds
  <2>1. k # h /\ pc[k] \in Critical
    BY <1>3, <1>4 DEF TypeOK
  <2> QED BY <2>1 DEF TransitionExclusive, Holds
<1> QED BY <1>1, <1>2, <1>3, <1>5, <1>6

(* A holder that suspends again keeps what it holds.                       *)
LEMMA StayLocks ==
    ASSUME LockInv, NEW h \in Handlers, pc[h] \in Inside,
           Holds(transitionLock, h), NEW at \in Critical, Stay(h, at)
    PROVE  /\ apiLock' \in Seq(Requests)
           /\ transitionLock' \in Seq(Handlers)
           /\ pc' \in [Handlers -> Control]
           /\ ApiExclusive'
           /\ TransitionExclusive'
<1> USE DEF LockInv
<1>1. pc' \in [Handlers -> Control] /\ pc' = [pc EXCEPT ![h] = at]
  BY CriticalInside DEF TypeOK, Stay
<1>2. ApiExclusive'
  BY <1>1 DEF ApiExclusive, Stay, Holds, TypeOK, Handlers
<1>3. TransitionExclusive'
  BY <1>1 DEF TransitionExclusive, Stay, Holds, TypeOK
<1> QED BY <1>1, <1>2, <1>3 DEF TypeOK, Stay

-----------------------------------------------------------------------------
(* A handler at work holds output_transition_lock and, when it is a        *)
(* request, _output_mode_lock: the two facts every step of it rests on.    *)
LEMMA AtWork ==
    ASSUME LockInv, NEW h \in Handlers, Turn(h) \/ pc[h] \in Critical
    PROVE  pc[h] \in Inside /\ Holds(transitionLock, h)
  BY DEF Turn, Inside, LockInv, TransitionExclusive

LEMMA BootLocks == Init => LockInv
<1> SUFFICES ASSUME NEW t \in Targets, Boot(t) PROVE LockInv
  BY DEF Init
<1>1. TypeOK
  BY IntentAssumption, EmptySeq
  DEF Boot, TypeOK, EnabledAtStart, None, Targets, Phases, Sources, Control
<1>2. ApiExclusive /\ TransitionExclusive
  BY DEF Boot, ApiExclusive, TransitionExclusive, Inside, Critical, Handlers
<1> QED BY <1>1, <1>2 DEF LockInv

LEMMA RestartLocks == LockInv /\ Restart => LockInv'
<1> SUFFICES ASSUME LockInv, Restart PROVE LockInv'
  OBVIOUS
<1>1. TypeOK'
  BY IntentAssumption, EmptySeq
  DEF LockInv, Restart, TypeOK, EnabledAtStart, None, Targets, Phases, Sources,
      Control
<1>2. ApiExclusive' /\ TransitionExclusive'
  BY DEF Restart, ApiExclusive, TransitionExclusive, Inside, Critical, Handlers
<1> QED BY <1>1, <1>2 DEF LockInv

(* Recording an intent leaves everything but the queues typed.             *)
LEMMA SubmitLocks ==
    ASSUME LockInv, NEW r \in Requests, NEW m \in Targets, Submit(r, m)
    PROVE  LockInv'
<1> USE DEF LockInv
<1>1. pc' = [pc EXCEPT ![r] = "wait_api"] /\ apiLock' = Append(apiLock, r)
  BY DEF Submit
<1>2. apiLock' \in Seq(Requests)
  BY <1>1, QueueUp DEF TypeOK
<1>3. TypeOK'
  BY <1>1, <1>2 DEF TypeOK, Submit, Record, set_output_target, PhaseToward,
     Phases, Control, Handlers
<1>4. ApiExclusive'
  <2> SUFFICES ASSUME NEW k \in Requests, pc'[k] \in Inside
               PROVE  Holds(apiLock', k)
    BY DEF ApiExclusive, Holds
  <2>1. pc[k] \in Inside
    BY <1>1 DEF Inside, Critical, TypeOK, Handlers
  <2> QED BY <1>1, <2>1, QueueUp DEF ApiExclusive, TypeOK
<1>5. TransitionExclusive'
  BY <1>1 DEF TransitionExclusive, Submit, Holds, Critical, TypeOK, Handlers
<1> QED BY <1>3, <1>4, <1>5

LEMMA PressLocks ==
    ASSUME LockInv, NEW m \in Targets, Press(m) PROVE LockInv'
<1> USE DEF LockInv
<1>1. /\ pc' = [pc EXCEPT ![Encoder] = "wait_transition"]
      /\ transitionLock' = Append(transitionLock, Encoder)
      /\ Encoder \in Handlers /\ Encoder \notin Requests
  BY IntentAssumption DEF Press, Handlers
<1>2. transitionLock' \in Seq(Handlers)
  BY <1>1, QueueUp DEF TypeOK
<1>3. TypeOK'
  BY <1>1, <1>2 DEF TypeOK, Press, Record, set_output_target, PhaseToward,
     Phases, Control, Inside
<1>4. ApiExclusive'
  BY <1>1 DEF ApiExclusive, Press, Holds, TypeOK, Handlers
<1>5. TransitionExclusive'
  <2> SUFFICES ASSUME NEW k \in Handlers, pc'[k] \in Critical
               PROVE  Holds(transitionLock', k)
    BY DEF TransitionExclusive, Holds
  <2>1. pc[k] \in Critical
    BY <1>1 DEF Critical, TypeOK
  <2> QED BY <1>1, <2>1, QueueUp DEF TransitionExclusive, TypeOK
<1> QED BY <1>3, <1>4, <1>5

LEMMA EnterLocks ==
    ASSUME LockInv, NEW r \in Requests, Enter(r) PROVE LockInv'
<1> USE DEF LockInv
<1>0. r \in Handlers /\ pc[r] = "wait_api" /\ Holds(apiLock, r)
  BY DEF Enter, Handlers
<1>1. CASE IsCurrent(r)
  <2>1. /\ pc' = [pc EXCEPT ![r] = "wait_transition"]
        /\ transitionLock' = Append(transitionLock, r)
        /\ apiLock' = apiLock
    BY <1>1 DEF Enter
  <2>2. transitionLock' \in Seq(Handlers)
    BY <1>0, <2>1, QueueUp DEF TypeOK
  <2>3. TypeOK'
    BY <2>1, <2>2 DEF TypeOK, Enter, intent, routing, locals, Control, Inside
  <2>4. ApiExclusive'
    BY <1>0, <2>1 DEF ApiExclusive, Holds, TypeOK
  <2>5. TransitionExclusive'
    <3> SUFFICES ASSUME NEW k \in Handlers, pc'[k] \in Critical
                 PROVE  Holds(transitionLock', k)
      BY DEF TransitionExclusive, Holds
    <3>1. pc[k] \in Critical
      BY <2>1 DEF Critical, TypeOK
    <3> QED BY <1>0, <2>1, <3>1, QueueUp DEF TransitionExclusive, TypeOK
  <2> QED BY <2>3, <2>4, <2>5
<1>2. CASE ~IsCurrent(r)
  <2>1. /\ pc' = [pc EXCEPT ![r] = "idle"]
        /\ apiLock' = Tail(apiLock)
        /\ transitionLock' = transitionLock
    BY <1>2 DEF Enter
  <2>2. apiLock' \in Seq(Requests)
    BY <1>0, <2>1, Release DEF TypeOK
  <2>3. TypeOK'
    BY <2>1, <2>2 DEF TypeOK, Enter, intent, routing, locals, Control
  <2>4. ApiExclusive'
    <3> SUFFICES ASSUME NEW k \in Requests, pc'[k] \in Inside PROVE FALSE
      BY DEF ApiExclusive, Holds
    <3>1. pc[k] \in Inside /\ k # r
      BY <1>0, <2>1 DEF Inside, Critical, TypeOK, Handlers
    <3> QED BY <1>0, <3>1 DEF ApiExclusive, Holds
  <2>5. TransitionExclusive'
    BY <2>1 DEF TransitionExclusive, Holds, Critical, TypeOK
  <2> QED BY <2>3, <2>4, <2>5
<1> QED BY <1>1, <1>2

(* Every step under output_transition_lock ends in Leave or in Stay.       *)
LEMMA AdvanceLocks ==
    ASSUME LockInv, NEW h \in Handlers, Advance(h) PROVE LockInv'
<1> USE DEF LockInv
<1>1. CASE Superseded(h)
  <2>1. pc[h] \in Inside /\ Holds(transitionLock, h) /\ Leave(h)
    BY <1>1, AtWork DEF Superseded
  <2> QED BY <1>1, <2>1, LeaveLocks
      DEF Superseded, TypeOK, intent, routing, locals
<1>2. CASE StartConsole(h)
  <2>1. /\ pc[h] \in Inside /\ Holds(transitionLock, h)
        /\ Stay(h, "disable_phono") /\ "disable_phono" \in Critical
    BY <1>2, AtWork DEF StartConsole, Critical
  <2> QED BY <1>2, <2>1, StayLocks
      DEF StartConsole, TypeOK, intent, routing, persist_output_target
<1>3. CASE StartDownstairs(h)
  <2>0. pc[h] \in Inside /\ Holds(transitionLock, h)
    BY <1>3, AtWork DEF StartDownstairs
  <2>1. saved' \in Targets /\ snapshot' \in [Handlers -> Nat]
    BY <1>3 DEF StartDownstairs, TypeOK, persist_output_target
  <2>2. CASE DownstairsUnconnected(h)
    BY <1>3, <2>0, <2>1, <2>2, LeaveLocks, IntentAssumption
    DEF DownstairsUnconnected, set_routing_state, None, Phases, Sources,
        StartDownstairs, TypeOK, intent
  <2>3. CASE \E source \in Sources : DownstairsWithoutSource(h, source)
    BY <1>3, <2>0, <2>1, <2>3, LeaveLocks, IntentAssumption
    DEF DownstairsWithoutSource, set_routing_state, None, Phases, Sources,
        StartDownstairs, TypeOK, intent
  <2>4. CASE \E source \in Sources : DownstairsWithSource(h, source)
    <3>1. PICK source \in Sources : DownstairsWithSource(h, source)
      BY <2>4
    <3>2. Stay(h, "playing") /\ "playing" \in Critical
      BY <3>1 DEF DownstairsWithSource, Critical
    <3>3. /\ phase' \in Phases
          /\ session' \in [gen : Nat \cup {NoSession}, source : Sources]
          /\ enabled' \in SUBSET Publishers
          /\ playFor' \in [Handlers -> Sources]
      BY <3>1 DEF DownstairsWithSource, set_routing_state, Session, Phases,
         TypeOK
    <3> QED BY <1>3, <2>0, <2>1, <3>2, <3>3, StayLocks
        DEF StartDownstairs, TypeOK, intent
  <2> QED BY <1>3, <2>2, <2>3, <2>4 DEF StartDownstairs
<1>4. CASE DisablePhono(h)
  <2>1. /\ pc[h] \in Inside /\ Holds(transitionLock, h)
        /\ Stay(h, "disable_bluetooth") /\ "disable_bluetooth" \in Critical
    BY <1>4, AtWork DEF DisablePhono, Critical
  <2> QED BY <1>4, <2>1, StayLocks
      DEF DisablePhono, TypeOK, intent, routing, locals
<1>5. CASE DisableBluetooth(h)
  <2>1. /\ pc[h] \in Inside /\ Holds(transitionLock, h)
        /\ Stay(h, "stop_players") /\ "stop_players" \in Critical
    BY <1>5, AtWork DEF DisableBluetooth, Critical
  <2> QED BY <1>5, <2>1, StayLocks
      DEF DisableBluetooth, TypeOK, intent, routing, locals
<1> QED BY <1>1, <1>2, <1>3, <1>4, <1>5 DEF Advance

LEMMA AnswerLocks ==
    ASSUME LockInv, NEW h \in Handlers, Answer(h) PROVE LockInv'
<1> USE DEF LockInv
<1>1. pc[h] \in Inside /\ Holds(transitionLock, h) /\ Leave(h)
  BY AtWork DEF Answer, FinishConsole, PlayStarted, PlayMissing, PlayRaised,
     PlayCancelled, Played, Critical
<1>2. /\ apiLock' \in Seq(Requests) /\ transitionLock' \in Seq(Handlers)
      /\ pc' \in [Handlers -> Control] /\ ApiExclusive'
      /\ TransitionExclusive'
  BY <1>1, LeaveLocks
<1>3. CASE FinishConsole(h)
  BY <1>2, <1>3, IntentAssumption
  DEF FinishConsole, set_routing_state, None, Phases, Sources, TypeOK, intent,
      locals
<1>4. CASE PlayMissing(h)
  BY <1>2, <1>4
  DEF PlayMissing, set_routing_state, Session, Phases, TypeOK, intent, routing,
      locals
<1>5. CASE PlayRaised(h)
  BY <1>2, <1>5
  DEF PlayRaised, RollBack, PhaseToward, Phases, TypeOK, intent, routing, locals
<1>6. CASE PlayStarted(h) \/ PlayCancelled(h)
  BY <1>2, <1>6 DEF PlayStarted, PlayCancelled, TypeOK, intent, routing, locals
<1> QED BY <1>3, <1>4, <1>5, <1>6 DEF Answer

LEMMA LockStep == LockInv /\ [Next]_vars => LockInv'
<1> SUFFICES ASSUME LockInv, [Next]_vars PROVE LockInv'
  OBVIOUS
<1>1. CASE \E r \in Requests, m \in Targets : Submit(r, m)
  BY <1>1, SubmitLocks
<1>2. CASE \E m \in Targets : Press(m)
  BY <1>2, PressLocks
<1>3. CASE \E r \in Requests : Enter(r)
  BY <1>3, EnterLocks
<1>4. CASE \E h \in Handlers : Advance(h) \/ Answer(h)
  BY <1>4, AdvanceLocks, AnswerLocks
<1>5. CASE Restart \/ EncoderCancelled
  BY <1>5, RestartLocks DEF EncoderCancelled
<1>6. CASE LearnClient
  BY <1>6 DEF LearnClient, LockInv, TypeOK, ApiExclusive, TransitionExclusive,
     Holds, intent, routing, locals
<1>7. CASE UNCHANGED vars
  BY <1>7 DEF vars, LockInv, TypeOK, ApiExclusive, TransitionExclusive, Holds,
     intent, routing, locals
<1> QED BY <1>1, <1>2, <1>3, <1>4, <1>5, <1>6, <1>7 DEF Next

(* Every variable keeps its type, and the two locks exclude.               *)
THEOREM LocksHold == Spec => []LockInv
<1>1. Init => LockInv
  BY BootLocks
<1>2. LockInv /\ [Next]_vars => LockInv'
  BY LockStep
<1> QED BY <1>1, <1>2, PTL DEF Spec

(* Every variable keeps its type in every behaviour.                       *)
THEOREM TypeCorrect == Spec => []TypeOK
<1>1. LockInv => TypeOK
  BY DEF LockInv
<1> QED BY <1>1, LocksHold, PTL

-----------------------------------------------------------------------------
(* What a handler that applies its mode has done so far.                   *)

(* While a handler is critical, no other one is.                           *)
LEMMA Alone ==
    ASSUME LockInv, NEW h \in Handlers, NEW k \in Handlers,
           Turn(h) \/ pc[h] \in Critical, pc[k] \in Critical
    PROVE  h = k
  BY AtWork DEF LockInv, TransitionExclusive, Holds

(* Steps of a handler that is not at work leave those at work alone.       *)
LEMMA AppliedOutside ==
    ASSUME LockInv, Applied, NEW h \in Handlers, NEW at \in Control \ Critical,
           pc' = [pc EXCEPT ![h] = at],
           UNCHANGED <<saved, enabled>>,
           \A k \in Handlers \ {h} : mode'[k] = mode[k]
    PROVE  Applied'
  BY DEF Applied, LockInv, TypeOK, Critical, Control, Inside

LEMMA AppliedStep == WorkInv /\ [Next]_vars => Applied'
<1> SUFFICES ASSUME WorkInv, [Next]_vars PROVE Applied'
  OBVIOUS
<1> USE DEF WorkInv
<1>0. mode \in [Handlers -> Targets] /\ pc \in [Handlers -> Control]
  BY DEF LockInv, TypeOK
<1>1. ASSUME NEW r \in Requests, NEW m \in Targets, Submit(r, m)
      PROVE  Applied'
  <2>1. "wait_api" \in Control \ Critical
    BY DEF Control, Critical, Inside
  <2> QED BY <1>0, <1>1, <2>1, AppliedOutside DEF Submit, Record, Handlers
<1>2. ASSUME NEW m \in Targets, Press(m) PROVE Applied'
  <2>1. "wait_transition" \in Control \ Critical /\ Encoder \in Handlers
    BY DEF Control, Critical, Inside, Handlers
  <2> QED BY <1>0, <1>2, <2>1, AppliedOutside DEF Press, Record
<1>3. ASSUME NEW r \in Requests, Enter(r) PROVE Applied'
  <2>1. {"wait_transition", "idle"} \subseteq Control \ Critical
    BY DEF Control, Critical, Inside
  <2> QED BY <1>0, <1>3, <2>1, AppliedOutside DEF Enter, locals, Handlers
<1>4. ASSUME NEW h \in Handlers, Advance(h) PROVE Applied'
  <2>1. CASE Superseded(h)
    BY <1>0, <2>1, AppliedOutside
    DEF Superseded, Leave, locals, Control, Critical, Inside
  <2>2. \A k \in Handlers : pc[k] \in Critical => k = h
    BY <1>4, <2>1, Alone, AppliedOutside
    DEF Advance, StartConsole, StartDownstairs, DisablePhono, DisableBluetooth,
        Superseded, Critical
  <2>3. CASE StartConsole(h)
    BY <1>0, <2>2, <2>3
    DEF StartConsole, Stay, Applied, Critical, Publishers, persist_output_target,
        LockInv, TypeOK
  <2>4. CASE StartDownstairs(h)
    <3>1. CASE pc' = [pc EXCEPT ![h] = "idle"]
      BY <1>0, <2>2, <3>1 DEF Applied, Critical
    <3>2. CASE \E source \in Sources : DownstairsWithSource(h, source)
      BY <1>0, <2>2, <2>4, <3>2
      DEF StartDownstairs, DownstairsWithSource, Stay, Applied, Critical,
          persist_output_target
    <3> QED BY <2>4, <3>1, <3>2
        DEF StartDownstairs, DownstairsUnconnected, DownstairsWithoutSource, Leave
  <2>5. CASE DisablePhono(h)
    BY <1>0, <2>2, <2>5 DEF DisablePhono, Stay, Applied, Critical, locals
  <2>6. CASE DisableBluetooth(h)
    BY <1>0, <2>2, <2>6 DEF DisableBluetooth, Stay, Applied, Critical, locals
  <2> QED BY <1>4, <2>1, <2>3, <2>4, <2>5, <2>6 DEF Advance
<1>5. ASSUME NEW h \in Handlers, Answer(h) PROVE Applied'
  <2>1. "idle" \in Control \ Critical
    BY DEF Control, Critical
  <2> QED BY <1>0, <1>5, <2>1, AppliedOutside
      DEF Answer, FinishConsole, PlayStarted, PlayMissing, PlayRaised,
          PlayCancelled, Leave, locals
<1>6. CASE Restart \/ EncoderCancelled
  BY <1>6 DEF Restart, EncoderCancelled, Applied, Critical
<1>7. CASE LearnClient \/ UNCHANGED vars
  BY <1>7 DEF LearnClient, vars, Applied, locals
<1> QED BY <1>1, <1>2, <1>3, <1>4, <1>5, <1>6, <1>7 DEF Next

LEMMA NumberedStep == WorkInv /\ [Next]_vars => Numbered'
<1> SUFFICES ASSUME WorkInv, [Next]_vars PROVE Numbered'
  OBVIOUS
<1> USE DEF WorkInv
<1>0. /\ gen \in [Handlers -> Nat] /\ snapshot \in [Handlers -> Nat]
      /\ generation \in Nat /\ pc \in [Handlers -> Control]
  BY DEF LockInv, TypeOK
<1>1. ASSUME NEW h \in Handlers, NEW m \in Targets, Record(h, m),
             NEW at \in {"wait_api", "wait_transition"},
             pc' = [pc EXCEPT ![h] = at]
      PROVE  Numbered'
  BY <1>0, <1>1 DEF Record, set_output_target, Numbered, Critical
<1>2. ASSUME NEW h \in Handlers, NEW at \in Control,
             pc[h] # "idle", pc' = [pc EXCEPT ![h] = at],
             at \in Critical => pc[h] \in Critical,
             UNCHANGED <<generation, gen, snapshot>>
      PROVE  Numbered'
  BY <1>0, <1>2 DEF Numbered
<1>3. ASSUME NEW h \in Handlers, Turn(h), NEW at \in Control,
             pc' = [pc EXCEPT ![h] = at],
             snapshot' = [snapshot EXCEPT ![h] = generation],
             UNCHANGED <<generation, gen>>
      PROVE  Numbered'
  BY <1>0, <1>3 DEF Numbered, Turn, Critical
<1>4. CASE \E r \in Requests, m \in Targets : Submit(r, m)
  BY <1>1, <1>4 DEF Submit, Handlers
<1>5. CASE \E m \in Targets : Press(m)
  BY <1>1, <1>5 DEF Press, Handlers
<1>6. CASE \E r \in Requests : Enter(r)
  BY <1>2, <1>6 DEF Enter, Handlers, intent, locals, Control, Inside, Critical
<1>7. ASSUME NEW h \in Handlers, Advance(h) PROVE Numbered'
  <2>1. CASE Superseded(h) \/ DisablePhono(h) \/ DisableBluetooth(h)
    BY <1>2, <2>1
    DEF Superseded, DisablePhono, DisableBluetooth, Turn, Stay, Leave, intent,
        locals, Control, Inside, Critical
  <2>2. CASE StartConsole(h)
    BY <1>3, <2>2 DEF StartConsole, Stay, intent, Control, Inside, Critical
  <2>3. CASE StartDownstairs(h)
    BY <1>3, <2>3
    DEF StartDownstairs, DownstairsUnconnected, DownstairsWithoutSource,
        DownstairsWithSource, Stay, Leave, intent, Control, Inside, Critical
  <2> QED BY <1>7, <2>1, <2>2, <2>3 DEF Advance
<1>8. CASE \E h \in Handlers : Answer(h)
  BY <1>2, <1>8
  DEF Answer, FinishConsole, PlayStarted, PlayMissing, PlayRaised, RollBack,
      PlayCancelled, Played, Leave, intent, locals, Control, Critical
<1>9. CASE Restart \/ EncoderCancelled
  BY <1>9 DEF Restart, EncoderCancelled, Numbered, Critical
<1>10. CASE LearnClient \/ UNCHANGED vars
  BY <1>10 DEF LearnClient, vars, Numbered, intent, locals
<1> QED BY <1>4, <1>5, <1>6, <1>7, <1>8, <1>9, <1>10 DEF Next

LEMMA WorkBoot == Init => WorkInv
<1>1. Init => Applied /\ Numbered
  BY DEF Init, Boot, Applied, Numbered, Critical
<1> QED BY <1>1, BootLocks DEF WorkInv

LEMMA WorkStep == WorkInv /\ [Next]_vars => WorkInv'
  BY LockStep, AppliedStep, NumberedStep DEF WorkInv

-----------------------------------------------------------------------------
(* Someone owes the current choice until it is in force.                   *)

(* A step of h under an unchanged intent does not pay the debt of another. *)
LEMMA DebtStays ==
    ASSUME NEW h \in Handlers, NEW k \in Handlers, k # h, Owes(k),
           pc \in [Handlers -> Control], NEW at, pc' = [pc EXCEPT ![h] = at],
           UNCHANGED <<target, generation, mode, gen>>
    PROVE  Owes(k)'
  BY DEF Owes, IsCurrent

(* The handler that has just recorded an intent owes it.                   *)
LEMMA RecorderOwes ==
    ASSUME WorkInv, NEW h \in Handlers, NEW m \in Targets, Record(h, m),
           NEW at \in {"wait_api", "wait_transition"},
           pc' = [pc EXCEPT ![h] = at]
    PROVE  Owes(h)'
  BY DEF Record, set_output_target, Owes, IsCurrent, WorkInv, LockInv, TypeOK

(* Neither recording an intent, nor being turned away, nor disabling the   *)
(* publisher leaves a choice that nobody owes.                             *)
LEMMA DebtBeforeWork ==
    ASSUME WorkInv, NEW h \in Handlers,
           \/ \E m \in Targets : h \in Requests /\ Submit(h, m)
           \/ \E m \in Targets : h = Encoder /\ Press(m)
           \/ (\E k \in Handlers : Owes(k))
              /\ \/ h \in Requests /\ Enter(h)
                 \/ Superseded(h) \/ DisablePhono(h) \/ DisableBluetooth(h)
    PROVE  (\E k \in Handlers : Owes(k))'
<1>0. pc \in [Handlers -> Control]
  BY DEF WorkInv, LockInv, TypeOK
<1>1. CASE \E m \in Targets : h \in Requests /\ Submit(h, m)
  BY <1>1, RecorderOwes DEF Submit
<1>2. CASE \E m \in Targets : h = Encoder /\ Press(m)
  BY <1>2, RecorderOwes DEF Press
<1>3. ASSUME NEW k \in Handlers, Owes(k), h \in Requests, Enter(h)
      PROVE  \E j \in Handlers : Owes(j)'
  <2>1. UNCHANGED <<target, generation, mode, gen>>
    BY <1>3 DEF Enter, intent, locals
  <2>2. CASE k # h
    BY <1>0, <1>3, <2>1, <2>2, DebtStays DEF Enter
  <2>3. CASE k = h
    BY <1>0, <1>3, <2>1, <2>3 DEF Enter, Owes, IsCurrent
  <2> QED BY <2>2, <2>3
<1>4. ASSUME NEW k \in Handlers, Owes(k), Superseded(h)
      PROVE  \E j \in Handlers : Owes(j)'
  <2>1. k # h
    BY <1>4 DEF Superseded, StillWanted, Owes
  <2> QED BY <1>0, <1>4, <2>1, DebtStays DEF Superseded, Leave, intent, locals
<1>5. ASSUME NEW k \in Handlers, Owes(k), DisablePhono(h) \/ DisableBluetooth(h)
      PROVE  Owes(k)'
  BY <1>0, <1>5
  DEF DisablePhono, DisableBluetooth, Stay, Owes, IsCurrent, intent, locals
<1> QED BY <1>1, <1>2, <1>3, <1>4, <1>5

(* A superseded handler that finishes does not pay the debt of another.    *)
LEMMA DebtAfterWork ==
    ASSUME WorkInv, NEW h \in Handlers, pc[h] \in Critical, mode[h] # target,
           Leave(h), UNCHANGED <<target, generation, mode, gen>>,
           \E k \in Handlers : Owes(k)
    PROVE  (\E k \in Handlers : Owes(k))'
<1>1. PICK k \in Handlers : Owes(k) /\ k # h
  BY DEF Owes
<1>2. Owes(k)'
  BY <1>1, DebtStays DEF Leave, WorkInv, LockInv, TypeOK
<1> QED BY <1>2

LEMMA DurableStep == DurableInv /\ [Next]_vars => Owed(Durable)'
<1> SUFFICES ASSUME DurableInv, [Next]_vars PROVE Owed(Durable)'
  OBVIOUS
<1> USE DEF DurableInv, Owed
<1>1. CASE \E r \in Requests, m \in Targets : Submit(r, m)
  BY <1>1, DebtBeforeWork DEF Handlers
<1>2. CASE \E m \in Targets : Press(m)
  BY <1>2, DebtBeforeWork DEF Handlers
<1>3. ASSUME NEW r \in Requests, Enter(r) PROVE Owed(Durable)'
  BY <1>3, DebtBeforeWork DEF Handlers, Enter, Durable, intent
<1>4. ASSUME NEW h \in Handlers, Advance(h) PROVE Owed(Durable)'
  <2>1. CASE Superseded(h) \/ DisablePhono(h) \/ DisableBluetooth(h)
    BY <2>1, DebtBeforeWork
    DEF Superseded, DisablePhono, DisableBluetooth, Durable, intent
  <2>2. CASE StartConsole(h) \/ StartDownstairs(h)
    BY <2>2
    DEF StartConsole, StartDownstairs, StillWanted, persist_output_target,
        Durable, intent
  <2> QED BY <1>4, <2>1, <2>2 DEF Advance
<1>5. ASSUME NEW h \in Handlers, Answer(h) PROVE Owed(Durable)'
  <2>1. pc[h] \in Critical /\ saved' = saved /\ saved = mode[h] /\ Leave(h)
    BY <1>5 DEF Answer, FinishConsole, PlayStarted, PlayMissing, PlayRaised,
       PlayCancelled, Played, Critical, WorkInv, Applied
  <2>2. CASE FinishConsole(h)
    <3>1. UNCHANGED <<target, generation, mode, gen>>
      BY <2>2 DEF FinishConsole, intent, locals
    <3>2. CASE Durable
      BY <2>1, <3>1, <3>2 DEF Durable
    <3>3. CASE ~Durable
      BY <2>1, <3>1, <3>3, DebtAfterWork DEF Durable
    <3> QED BY <3>2, <3>3
  <2>3. CASE pc[h] = "playing"
    BY <2>1, <2>3 DEF WorkInv, Applied, Durable
  <2> QED BY <1>5, <2>2, <2>3
      DEF Answer, PlayStarted, PlayMissing, PlayRaised, PlayCancelled, Played
<1>6. CASE Restart \/ EncoderCancelled
  BY <1>6 DEF Restart, EncoderCancelled, Durable
<1>7. CASE LearnClient \/ UNCHANGED vars
  BY <1>7 DEF LearnClient, vars, Durable, Owes, IsCurrent, intent, locals
<1> QED BY <1>1, <1>2, <1>3, <1>4, <1>5, <1>6, <1>7 DEF Next

(* Once the last handler has returned, a Downstairs choice is on file,     *)
(* whatever outcomes Music Assistant produced.                             *)
THEOREM DownstairsIsDurable == Spec => []DownstairsDurable
<1>1. Init => DurableInv
  BY WorkBoot DEF Init, Boot, DurableInv, Owed, Durable
<1>2. DurableInv /\ [Next]_vars => DurableInv'
  BY WorkStep, DurableStep DEF DurableInv
<1>3. DurableInv => DownstairsDurable
  BY DEF DurableInv, Owed, Owes, Durable, DownstairsDurable, Settled
<1> QED BY <1>1, <1>2, <1>3, PTL DEF Spec

LEMMA AgreementStep ==
    ASSUME "raised" \notin PlayOutcomes, AgreementInv, [Next]_vars
    PROVE  Owed(Agreement)'
<1> USE DEF AgreementInv, Owed
<1>1. CASE \E r \in Requests, m \in Targets : Submit(r, m)
  BY <1>1, DebtBeforeWork DEF Handlers
<1>2. CASE \E m \in Targets : Press(m)
  BY <1>2, DebtBeforeWork DEF Handlers
<1>3. ASSUME NEW r \in Requests, Enter(r) PROVE Owed(Agreement)'
  BY <1>3, DebtBeforeWork DEF Handlers, Enter, Agreement, intent, routing
<1>4. ASSUME NEW h \in Handlers, Advance(h) PROVE Owed(Agreement)'
  <2>1. CASE Superseded(h)
    BY <2>1, DebtBeforeWork DEF Superseded, Agreement, intent, routing
  <2>2. CASE DisablePhono(h) \/ DisableBluetooth(h)
    <3>1. saved = "console" /\ UNCHANGED <<target, saved, phase>>
          /\ enabled' \subseteq enabled
      BY <2>2
      DEF DisablePhono, DisableBluetooth, WorkInv, Applied, Critical, intent,
          routing
    <3>2. CASE Agreement
      BY <3>1, <3>2 DEF Agreement
    <3> QED BY <2>2, <3>2, DebtBeforeWork
  <2>3. CASE StartConsole(h)
    <3>1. Owes(h)'
      BY <2>3 DEF StartConsole, StillWanted, Stay, Owes, WorkInv, LockInv,
         TypeOK, intent
    <3> QED BY <3>1
  <2>4. CASE StartDownstairs(h)
    <3>1. target' = "downstairs" /\ saved' = "downstairs"
      BY <2>4 DEF StartDownstairs, StillWanted, persist_output_target, intent
    <3>2. CASE DownstairsUnconnected(h)
      BY <3>1, <3>2 DEF DownstairsUnconnected, set_routing_state, Agreement
    <3>3. CASE enabled' = Publishers
      BY <3>1, <3>3 DEF Agreement
    <3> QED BY <2>4, <3>2, <3>3
        DEF StartDownstairs, DownstairsWithoutSource, DownstairsWithSource
  <2> QED BY <1>4, <2>1, <2>2, <2>3, <2>4 DEF Advance
<1>5. ASSUME NEW h \in Handlers, Answer(h) PROVE Owed(Agreement)'
  <2>1. /\ pc[h] \in Critical /\ saved = mode[h] /\ Leave(h)
        /\ UNCHANGED <<saved, enabled, target, generation, mode, gen>>
    BY <1>5 DEF Answer, FinishConsole, PlayStarted, PlayMissing, PlayRaised,
       PlayCancelled, Played, Critical, WorkInv, Applied, intent, locals
  <2>2. CASE mode[h] # target
    BY <2>1, <2>2, DebtAfterWork DEF Agreement
  <2>3. CASE mode[h] = target /\ FinishConsole(h)
    BY <2>1, <2>3
    DEF FinishConsole, set_routing_state, Agreement, WorkInv, Applied, Critical
  <2>4. CASE mode[h] = target /\ pc[h] = "playing"
    BY <2>1, <2>4 DEF Agreement, WorkInv, Applied
  <2> QED BY <1>5, <2>2, <2>3, <2>4
      DEF Answer, PlayStarted, PlayMissing, PlayRaised, PlayCancelled, Played
<1>6. CASE Restart \/ EncoderCancelled
  BY <1>6 DEF Restart, EncoderCancelled, Agreement, EnabledAtStart, AgreementInv,
     WorkInv, LockInv, TypeOK, Targets
<1>7. CASE LearnClient \/ UNCHANGED vars
  BY <1>7 DEF LearnClient, vars, Agreement, Owes, IsCurrent, intent, routing,
     locals
<1> QED BY <1>1, <1>2, <1>3, <1>4, <1>5, <1>6, <1>7 DEF Next

(* When no start ends in an exception, the file, the publisher and the     *)
(* phase follow the last intent as soon as the last handler has returned.  *)
THEOREM ChoiceIsApplied ==
    ASSUME "raised" \notin PlayOutcomes
    PROVE  Spec => []SettledAgreement
<1>1. Init => AgreementInv
  BY WorkBoot DEF Init, Boot, AgreementInv, Owed, Agreement, EnabledAtStart,
     Targets
<1>2. AgreementInv /\ [Next]_vars => AgreementInv'
  BY WorkStep, AgreementStep DEF AgreementInv
<1>3. AgreementInv => SettledAgreement
  BY DEF AgreementInv, Owed, Owes, SettledAgreement, Settled
<1> QED BY <1>1, <1>2, <1>3, PTL DEF Spec

-----------------------------------------------------------------------------
(* A start that was superseded changes nothing when its answer comes.      *)
StaleStart ==
    \A h \in Handlers :
        (/\ pc[h] = "playing" /\ pc'[h] = "idle"
         /\ snapshot[h] # generation /\ generation' = generation)
        => UNCHANGED <<intent, routing>>

LEMMA StaleStartStep == WorkInv /\ [Next]_vars => [StaleStart]_vars
<1> SUFFICES ASSUME WorkInv, Next, NEW h \in Handlers,
                    pc[h] = "playing", pc'[h] = "idle",
                    snapshot[h] # generation, generation' = generation
             PROVE  UNCHANGED <<intent, routing>>
  BY DEF StaleStart
<1> USE DEF WorkInv
<1>0. pc \in [Handlers -> Control] /\ pc[h] \in Critical
  BY DEF LockInv, TypeOK, Critical
<1>1. generation > 0 /\ gen[h] # generation
  BY <1>0 DEF Numbered, LockInv, TypeOK
<1>2. ASSUME NEW k \in Handlers, Advance(k) PROVE FALSE
  BY <1>0, <1>2
  DEF Advance, Superseded, StartConsole, StartDownstairs, DisablePhono,
      DisableBluetooth, DownstairsUnconnected, DownstairsWithoutSource,
      DownstairsWithSource, Turn, Leave, Stay
<1>3. ASSUME NEW k \in Handlers, Answer(k) PROVE UNCHANGED <<intent, routing>>
  <2>1. k = h
    BY <1>0, <1>3 DEF Answer, FinishConsole, PlayStarted, PlayMissing,
       PlayRaised, PlayCancelled, Leave
  <2> QED BY <1>1, <1>3, <2>1
      DEF Answer, FinishConsole, PlayStarted, PlayMissing, PlayRaised, RollBack,
          PlayCancelled, IsCurrent, SnapshotIsCurrent, intent, routing
<1>4. CASE \E r \in Requests : Enter(r)
  BY <1>0, <1>4 DEF Enter, Handlers
<1>5. CASE Restart \/ EncoderCancelled
  BY <1>1, <1>5 DEF Restart, EncoderCancelled
<1>6. CASE \/ \E r \in Requests, m \in Targets : Submit(r, m)
           \/ \E m \in Targets : Press(m)
  BY <1>1, <1>6 DEF Submit, Press, Record, set_output_target, LockInv, TypeOK
<1>7. CASE LearnClient
  BY <1>7 DEF LearnClient
<1> QED BY <1>2, <1>3, <1>4, <1>5, <1>6, <1>7 DEF Next

(* The answer to a superseded start is without effect on what the user     *)
(* asked for and on the routing state.                                     *)
THEOREM SupersededStartIsHarmless == Spec => StaleStartHarmless
<1>1. Init => WorkInv
  BY WorkBoot
<1>2. WorkInv /\ [Next]_vars => WorkInv'
  BY WorkStep
<1>3. WorkInv /\ [Next]_vars => [StaleStart]_vars
  BY StaleStartStep
<1>4. Spec => [][StaleStart]_vars
  BY <1>1, <1>2, <1>3, PTL DEF Spec
<1> QED BY <1>4 DEF StaleStartHarmless, StaleStart

-----------------------------------------------------------------------------
(* Refinement: every step chooses, applies the choice, restarts, or        *)
(* changes nothing the abstract specification sees.                        *)
ChoiceVars == <<target, saved, enabled>>

LEMMA AdvanceApplies ==
    ASSUME WorkInv, NEW h \in Handlers, Advance(h)
    PROVE  Choice!Apply \/ UNCHANGED ChoiceVars
<1>0. enabled \in SUBSET Publishers
  BY DEF WorkInv, LockInv, TypeOK
<1>1. CASE Superseded(h)
  BY <1>1 DEF Superseded, ChoiceVars, intent
<1>2. CASE StartConsole(h)
  BY <1>0, <1>2
  DEF StartConsole, StillWanted, persist_output_target, intent, Choice!Apply,
      Choice!Toward
<1>3. CASE StartDownstairs(h)
  <2>1. /\ saved' = "downstairs" /\ saved' = target /\ target' = target
        /\ enabled' \in {enabled, Publishers}
    BY <1>3 DEF StartDownstairs, StillWanted, persist_output_target, intent,
       DownstairsUnconnected, DownstairsWithoutSource, DownstairsWithSource
  <2> QED BY <1>0, <2>1 DEF Choice!Apply, Choice!Toward
<1>4. CASE DisablePhono(h) \/ DisableBluetooth(h)
  <2>1. /\ saved = "console" /\ UNCHANGED <<target, saved>>
        /\ enabled' \subseteq enabled
    BY <1>4 DEF DisablePhono, DisableBluetooth, WorkInv, Applied, Critical, intent
  <2> QED BY <1>0, <2>1 DEF Choice!Apply, Choice!Toward
<1> QED BY <1>1, <1>2, <1>3, <1>4 DEF Advance

LEMMA ChoiceStep ==
    WorkInv /\ [Next]_vars => Choice!Next \/ UNCHANGED ChoiceVars
<1> SUFFICES ASSUME WorkInv, [Next]_vars
             PROVE  Choice!Next \/ UNCHANGED ChoiceVars
  OBVIOUS
<1>1. CASE \/ \E r \in Requests, m \in Targets : Submit(r, m)
           \/ \E m \in Targets : Press(m)
  BY <1>1 DEF Submit, Press, Record, set_output_target, Choice!Next,
     Choice!Choose, Choice!Targets, Targets
<1>2. CASE \E h \in Handlers : Advance(h)
  BY <1>2, AdvanceApplies DEF Choice!Next
<1>3. ASSUME NEW h \in Handlers, Answer(h)
      PROVE  Choice!Next \/ UNCHANGED ChoiceVars
  <2>1. target' \in Targets /\ UNCHANGED <<saved, enabled>>
    BY <1>3 DEF Answer, FinishConsole, PlayStarted, PlayMissing, PlayRaised,
       RollBack, PlayCancelled, WorkInv, LockInv, TypeOK, intent
  <2> QED BY <2>1 DEF Choice!Next, Choice!Choose, Choice!Targets, Targets
<1>4. CASE Restart \/ EncoderCancelled
  BY <1>4 DEF Restart, EncoderCancelled, EnabledAtStart, Choice!Next,
     Choice!Restart, Choice!Full
<1>5. CASE (\E r \in Requests : Enter(r)) \/ LearnClient \/ UNCHANGED vars
  BY <1>5 DEF Enter, LearnClient, vars, ChoiceVars, intent
<1> QED BY <1>1, <1>2, <1>3, <1>4, <1>5 DEF Next

(* Requests, presses, failures and restarts together behave as one choice  *)
(* that the file records and the publisher follows.                        *)
THEOREM HandlersImplementChoice == Spec => ImplementsChoice
<1>1. Init => WorkInv
  BY WorkBoot
<1>2. WorkInv /\ [Next]_vars => WorkInv'
  BY WorkStep
<1>3. Init => Choice!Init
  BY DEF Init, Boot, EnabledAtStart, Choice!Init, Choice!Full, Choice!Targets,
     Targets
<1>4. WorkInv /\ [Next]_vars => [Choice!Next]_(Choice!vars)
  BY ChoiceStep DEF ChoiceVars, Choice!vars
<1> QED BY <1>1, <1>2, <1>3, <1>4, PTL DEF Spec, ImplementsChoice, Choice!Spec
=============================================================================
