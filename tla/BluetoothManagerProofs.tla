----------------------- MODULE BluetoothManagerProofs -----------------------
(***************************************************************************)
(* Proofs about BluetoothManager, for any requests and volumes.            *)
(*                                                                         *)
(* The invariant is inductive as it stands: a window is shown and has a    *)
(* timer only since open_pairing told BlueZ and the agent; a close takes   *)
(* the timer before it tells them, and an agent that died is replaced only *)
(* after Registered has taken the announcement back.                       *)
(***************************************************************************)
EXTENDS BluetoothManager, TLAPS

LEMMA Adapters ==
  Off \in [discoverable : BOOLEAN, pairable : BOOLEAN]
  /\ On \in [discoverable : BOOLEAN, pairable : BOOLEAN]
  BY DEF Off, On

LEMMA InitTyped == Init => TypeOK
  BY Adapters DEF Init, TypeOK, Statuses, Pollers

LEMMA AgentTyped ==
  ASSUME TypeOK, Start \/ Registered \/ StartFails \/ AgentExits \/ ExitNoticed \/ Stop
  PROVE  TypeOK'
  <1> USE DEF TypeOK
  <1>1. CASE Start
    BY <1>1 DEF Start, window, mediavars
  <1>2. CASE Registered
    BY <1>2, Adapters DEF Registered, SetUp, mediavars
  <1>3. CASE StartFails
    BY <1>3 DEF StartFails, _stop_agent, mediavars
  <1>4. CASE AgentExits
    BY <1>4 DEF AgentExits, window, mediavars
  <1>5. CASE ExitNoticed
    BY <1>5 DEF ExitNoticed, window, mediavars
  <1>6. CASE Stop
    BY <1>6 DEF Stop, _stop_agent
  <1> QED BY <1>1, <1>2, <1>3, <1>4, <1>5, <1>6

LEMMA WindowTyped ==
  ASSUME TypeOK,
         \/ open_pairing \/ _close_after_timeout
         \/ \E c \in Requests : close_pairing(c)
         \/ \E c \in Closers : Trusted(c)
  PROVE  TypeOK'
  <1> USE DEF TypeOK
  <1>1. CASE open_pairing
    BY <1>1, Adapters DEF open_pairing, RestartTimer, agentvars, mediavars
  <1>2. ASSUME NEW c \in Closers, close_pairing(c)
        PROVE  TypeOK'
    BY <1>2, Adapters DEF close_pairing, agentvars, mediavars
  <1>3. ASSUME NEW c \in Closers, Trusted(c)
        PROVE  TypeOK'
    BY <1>3 DEF Trusted, agentvars, mediavars
  <1>4. "timer" \in Closers /\ Requests \subseteq Closers
    BY DEF Closers
  <1> QED BY <1>1, <1>2, <1>3, <1>4 DEF _close_after_timeout

LEMMA MediaTyped ==
  ASSUME TypeOK,
         \/ PhoneChanges
         \/ \E p \in Pollers :
               Look(p, phone.status) \/ Look(p, "absent") \/ _refresh_media_state(p)
         \/ _refresh_transport_volume \/ Polled
  PROVE  TypeOK'
  <1> USE DEF TypeOK
  <1>1. CASE PhoneChanges
    BY <1>1 DEF PhoneChanges, agentvars, window
  <1>2. ASSUME NEW p \in Pollers, NEW status \in Statuses, Look(p, status)
        PROVE  TypeOK'
    BY <1>2 DEF Look, agentvars, window
  <1>3. ASSUME NEW p \in Pollers, _refresh_media_state(p)
        PROVE  TypeOK'
    BY <1>3 DEF _refresh_media_state, Publish, agentvars, window
  <1>4. CASE _refresh_transport_volume
    BY <1>4 DEF _refresh_transport_volume, agentvars, window
  <1>5. CASE Polled
    BY <1>5 DEF Polled, agentvars, window
  <1>6. phone.status \in Statuses /\ "absent" \in Statuses
    BY DEF Statuses
  <1> QED BY <1>1, <1>2, <1>3, <1>4, <1>5, <1>6

LEMMA StepTyped == TypeOK /\ [Next]_vars => TypeOK'
  <1>1. TypeOK /\ UNCHANGED vars => TypeOK'
    BY DEF TypeOK, vars, agentvars, window, mediavars
  <1> QED BY <1>1, AgentTyped, WindowTyped, MediaTyped DEF Next

(* Every variable keeps its type.                                          *)
THEOREM TypeCorrect == Spec => []TypeOK
  <1>1. Init => TypeOK
    BY InitTyped
  <1>2. TypeOK /\ [Next]_vars => TypeOK'
    BY StepTyped
  <1> QED BY <1>1, <1>2, PTL DEF Spec

-----------------------------------------------------------------------------
LEMMA AgentKeepsWindow ==
  ASSUME ShownWindowIsOpen, Start \/ Registered \/ StartFails \/ AgentExits \/ ExitNoticed \/ Stop
  PROVE  ShownWindowIsOpen'
  <1>1. \/ pc' # "ready" \/ process' # "alive" \/ ~announced'
    BY DEF Start, Registered, SetUp, StartFails, _stop_agent, AgentExits, ExitNoticed, Stop,
       window, mediavars
  <1> QED BY <1>1 DEF ShownWindowIsOpen

LEMMA OpenShowsWindow ==
  ASSUME open_pairing
  PROVE  ShownWindowIsOpen'
  <1>1. CASE process = "alive"
    BY <1>1 DEF open_pairing, ShownWindowIsOpen, Accepts, agentvars
  <1>2. CASE process # "alive"
    BY <1>2 DEF open_pairing, ShownWindowIsOpen, agentvars
  <1> QED BY <1>1, <1>2

LEMMA StepKeepsWindow == ShownWindowIsOpen /\ [Next]_vars => ShownWindowIsOpen'
  <1> SUFFICES ASSUME ShownWindowIsOpen, [Next]_vars PROVE ShownWindowIsOpen'
    OBVIOUS
  <1>1. CASE Start \/ Registered \/ StartFails \/ AgentExits \/ ExitNoticed \/ Stop
    BY <1>1, AgentKeepsWindow
  <1>2. CASE open_pairing
    BY <1>2, OpenShowsWindow
  <1>3. ASSUME NEW c, close_pairing(c) \/ Trusted(c)
        PROVE  ShownWindowIsOpen'
    <2>1. ~timer' \/ ~announced'
      BY <1>3 DEF close_pairing, Trusted
    <2> QED BY <2>1 DEF ShownWindowIsOpen
  <1>4. ASSUME UNCHANGED <<agentvars, window>>
        PROVE  ShownWindowIsOpen'
    BY <1>4 DEF ShownWindowIsOpen, Accepts, agentvars, window
  <1>5. CASE \/ PhoneChanges
             \/ \E p \in Pollers :
                   Look(p, phone.status) \/ Look(p, "absent") \/ _refresh_media_state(p)
             \/ _refresh_transport_volume \/ Polled \/ UNCHANGED vars
    <2>1. UNCHANGED <<agentvars, window>>
      BY <1>5 DEF PhoneChanges, Look, _refresh_media_state, _refresh_transport_volume, Polled,
         vars
    <2> QED BY <1>4, <2>1
  <1> QED
    BY <1>1, <1>2, <1>3, <1>5 DEF Next, _close_after_timeout

(* A window that the dashboard shows is open for phones, whatever agents   *)
(* die and whatever closes overlap with it.                                *)
THEOREM ShownIsOpen == Spec => []ShownWindowIsOpen
  <1>1. Init => ShownWindowIsOpen
    BY DEF Init, ShownWindowIsOpen
  <1>2. ShownWindowIsOpen /\ [Next]_vars => ShownWindowIsOpen'
    BY StepKeepsWindow
  <1> QED BY <1>1, <1>2, PTL DEF Spec
=============================================================================
