------------------------- MODULE PlayRequestsProofs -------------------------
(***************************************************************************)
(* Proofs about PlayRequests, for any callers, stoppers and bounds.        *)
(*                                                                         *)
(* One start in flight: a task that is not done is the registered one.     *)
(*                                                                         *)
(* A stop is final: what a stop leaves behind it in the registry and in    *)
(* the inbox was submitted after it began (Newer, Ordered).                *)
(***************************************************************************)
EXTENDS PlayRequests, SequenceTheorems, TLAPS

(* A start that nobody cancelled is the registered one.                    *)
RunningIsRegistered ==
    \A r \in Requests : task[r] \in Running => registered = r

(* Stops that are under way, received or executed.                         *)
Begun(q) ==
    \/ \E s \in Stoppers : at[s] # "idle" /\ issued[s] = q
    \/ \E i \in 1 .. Len(inbox) : inbox[i].kind = "stop" /\ inbox[i].request = q
    \/ stopped = q

(* The registered request is the latest one, and newer than every stop.    *)
Newer ==
    /\ registered # NoRequest => registered = sequence
    /\ \A q \in Nat : Begun(q) => q <= sequence
    /\ \A q \in Nat : registered # NoRequest /\ Begun(q) => q < registered

(* A received start is newer than the stops before it.                     *)
Ordered ==
    /\ \A i \in 1 .. Len(inbox) :
          inbox[i].kind = "play" => inbox[i].request > stopped
    /\ \A i, j \in 1 .. Len(inbox) :
          i < j /\ inbox[i].kind = "stop" /\ inbox[j].kind = "play"
          => inbox[j].request > inbox[i].request

-----------------------------------------------------------------------------
(* Type correctness.                                                       *)

LEMMA MessagesAreTyped ==
  /\ \A m \in Messages : m.request \in {NoRequest} \cup Requests
  /\ \A m \in Messages : m.kind = "play" => m.request \in Requests
  /\ \A m \in Messages : m.kind = "stop" => m.stopper \in Stoppers
  /\ \A r \in Requests : Play(r) \in Messages
  /\ TypeOK => \A s \in Stoppers : Stop(s) \in Messages
  BY DEF Messages, Play, Stop, TypeOK

(* What executing the first command does to the inbox.                     *)
LEMMA InboxTail ==
  ASSUME TypeOK, inbox # <<>>
  PROVE  /\ Head(inbox) \in Messages /\ Head(inbox) = inbox[1]
         /\ Len(inbox) \in Nat \ {0}
         /\ Tail(inbox) \in Seq(Messages)
         /\ Len(Tail(inbox)) = Len(inbox) - 1
         /\ \A i \in 1 .. Len(Tail(inbox)) : Tail(inbox)[i] = inbox[i + 1]
  <1>1. inbox \in Seq(Messages)
    BY DEF TypeOK
  <1>2. Head(inbox) = inbox[1]
    BY <1>1
  <1>3. Len(inbox) \in Nat \ {0}
    BY <1>1, EmptySeq
  <1> QED
    BY <1>1, <1>2, <1>3, HeadTailProperties

(* What losing the connection leaves of the inbox.                         *)
LEMMA InboxPrefix ==
  ASSUME TypeOK, NEW n \in 0 .. Len(inbox)
  PROVE  /\ SubSeq(inbox, 1, n) \in Seq(Messages)
         /\ Len(SubSeq(inbox, 1, n)) = n
         /\ \A i \in 1 .. n : SubSeq(inbox, 1, n)[i] = inbox[i]
  <1>1. inbox \in Seq(Messages) /\ Len(inbox) \in Nat
    BY LenProperties DEF TypeOK
  <1>2. n \in Int /\ 1 \in Int /\ \A i \in 1 .. n : inbox[i] \in Messages
    BY <1>1, ElementOfSeq
  <1> QED
    BY <1>1, <1>2, SubSeqProperties

LEMMA InitTyped == Init => TypeOK
  BY PlayAssumption, EmptySeq DEF Init, TypeOK, Requests, NoRequest, Running, Done

LEMMA CallerTyped ==
  ASSUME TypeOK, NEW c \in Callers,
         Join(c) \/ Submit(c) \/ Return(c) \/ Raise(c)
  PROVE  TypeOK'
  <1>1. CASE Join(c)
    BY <1>1 DEF TypeOK, Join, Suppressed, registry, stops, server
  <1>2. CASE Submit(c)
    BY <1>2, PlayAssumption DEF TypeOK, Submit, Requests, NoRequest, Running, stops, server
  <1>3. CASE Return(c)
    BY <1>3 DEF TypeOK, Return, registry, stops, server
  <1>4. CASE Raise(c)
    BY <1>4 DEF TypeOK, Raise, Forget, NoRequest, stops, server
  <1> QED
    BY <1>1, <1>2, <1>3, <1>4

LEMMA TaskTyped ==
  ASSUME TypeOK, NEW r \in Requests, TaskSteps(r)
  PROVE  TypeOK'
  <1>1. CASE Ask(r)
    <2>1. inbox' \in Seq(Messages)
      BY <1>1, MessagesAreTyped, AppendProperties DEF TypeOK, Ask
    <2> QED
      BY <1>1, <2>1 DEF TypeOK, Ask, Becomes, Running, registry, stops
  <1>2. CASE PlayerMissing(r) \/ ConnectFails(r) \/ Cancelled(r)
    BY <1>2 DEF TypeOK, PlayerMissing, ConnectFails, Cancelled, Becomes, Done,
                registry, stops, server
  <1> QED
    BY <1>1, <1>2 DEF TaskSteps

LEMMA StopperTyped ==
  ASSUME TypeOK, NEW s \in Stoppers, invalidate_play_requests(s) \/ StopSteps(s)
  PROVE  TypeOK'
  <1>1. CASE invalidate_play_requests(s)
    <2>1. task' \in [Requests -> {"none", "cancelling"} \cup Running \cup Done]
      BY <1>1 DEF TypeOK, invalidate_play_requests, Cancel, Becomes
    <2> QED
      BY <1>1, <2>1 DEF TypeOK, invalidate_play_requests, server
  <1>2. CASE Gathered(s)
    BY <1>2 DEF TypeOK, Gathered, registry, server
  <1>3. CASE SendStop(s)
    <2>1. inbox' \in Seq(Messages)
      BY <1>3, MessagesAreTyped, AppendProperties DEF TypeOK, SendStop
    <2> QED
      BY <1>3, <2>1 DEF TypeOK, SendStop, registry
  <1>4. CASE StopFails(s)
    BY <1>4 DEF TypeOK, StopFails, registry, server
  <1> QED
    BY <1>1, <1>2, <1>3, <1>4 DEF StopSteps

LEMMA ServerTyped ==
  ASSUME TypeOK, ExecutePlay \/ ExecuteStop \/ LoseConnection
  PROVE  TypeOK'
  <1>1. CASE ExecutePlay
    <2>1. Head(inbox).request \in Requests /\ inbox' \in Seq(Messages)
      BY <1>1, InboxTail, MessagesAreTyped DEF ExecutePlay
    <2>2. task' \in [Requests -> {"none", "cancelling"} \cup Running \cup Done]
      BY <1>1, <2>1 DEF TypeOK, ExecutePlay, Answered, Becomes, Done
    <2> QED
      BY <1>1, <2>1, <2>2 DEF TypeOK, ExecutePlay, registry, stops
  <1>2. CASE ExecuteStop
    <2>1. /\ Head(inbox).request \in {NoRequest} \cup Requests
          /\ Head(inbox).stopper \in Stoppers
          /\ inbox' \in Seq(Messages)
      BY <1>2, InboxTail, MessagesAreTyped DEF ExecuteStop
    <2> QED
      BY <1>2, <2>1 DEF TypeOK, ExecuteStop, registry, NoRequest
  <1>3. CASE LoseConnection
    <2>1. inbox' \in Seq(Messages)
      BY <1>3, InboxPrefix DEF LoseConnection
    <2>2. task' \in [Requests -> {"none", "cancelling"} \cup Running \cup Done]
      BY <1>3 DEF TypeOK, LoseConnection, Done
    <2> QED
      BY <1>3, <2>1, <2>2 DEF TypeOK, LoseConnection, registry
  <1> QED
    BY <1>1, <1>2, <1>3

LEMMA NextTyped == TypeOK /\ [Next]_vars => TypeOK'
  <1> SUFFICES ASSUME TypeOK, [Next]_vars PROVE TypeOK'
    OBVIOUS
  <1>1. CASE Settle
    BY <1>1 DEF TypeOK, Settle, stops, server
  <1>2. CASE UNCHANGED vars
    BY <1>2 DEF TypeOK, vars, registry, stops, server
  <1> QED
    BY <1>1, <1>2, CallerTyped, TaskTyped, StopperTyped, ServerTyped DEF Next

(* Every variable of play_vinyl_source and stop_players keeps its type.    *)
THEOREM TypeCorrect == Spec => []TypeOK
  BY InitTyped, NextTyped, PTL DEF Spec

-----------------------------------------------------------------------------
(* One start in flight.                                                    *)

LEMMA InitRunning == Init => RunningIsRegistered
  BY DEF Init, RunningIsRegistered, Running

LEMMA NextRunning ==
  TypeOK /\ RunningIsRegistered /\ [Next]_vars => RunningIsRegistered'
  <1> SUFFICES ASSUME TypeOK, RunningIsRegistered, [Next]_vars
               PROVE  RunningIsRegistered'
    OBVIOUS
  <1> USE DEF RunningIsRegistered
  <1>1. ASSUME NEW c \in Callers, Join(c) \/ Return(c) PROVE RunningIsRegistered'
    BY <1>1 DEF Join, Return, registry
  <1>2. ASSUME NEW c \in Callers, Submit(c) PROVE RunningIsRegistered'
    <2>1. \A r \in Requests : task[r] \notin Running
      BY <1>2 DEF Submit, Suppressed, Running, Done, Requests, NoRequest
    <2> QED
      BY <1>2, <2>1 DEF Submit, TypeOK
  <1>3. ASSUME NEW c \in Callers, Raise(c) PROVE RunningIsRegistered'
    BY <1>3 DEF Raise, Forget, Running
  <1>4. CASE Settle
    BY <1>4 DEF Settle
  <1>5. ASSUME NEW r \in Requests, TaskSteps(r) PROVE RunningIsRegistered'
    BY <1>5 DEF TaskSteps, Ask, PlayerMissing, ConnectFails, Cancelled, Becomes,
                TypeOK, Running, registry
  <1>6. ASSUME NEW s \in Stoppers, invalidate_play_requests(s)
        PROVE  RunningIsRegistered'
    BY <1>6 DEF invalidate_play_requests, Cancel, Becomes, TypeOK, Running, Requests,
                NoRequest
  <1>7. ASSUME NEW s \in Stoppers, StopSteps(s) PROVE RunningIsRegistered'
    BY <1>7 DEF StopSteps, Gathered, SendStop, StopFails, registry
  <1>8. CASE ExecutePlay
    BY <1>8 DEF ExecutePlay, Answered, Becomes, TypeOK, Running, registry
  <1>9. CASE ExecuteStop
    BY <1>9 DEF ExecuteStop, registry
  <1>10. CASE LoseConnection
    BY <1>10 DEF LoseConnection, TypeOK, Running, registry
  <1>11. CASE UNCHANGED vars
    BY <1>11 DEF vars, registry
  <1> QED
    BY <1>1, <1>2, <1>3, <1>4, <1>5, <1>6, <1>7, <1>8, <1>9, <1>10, <1>11 DEF Next

LEMMA RegisteredIsOne == RunningIsRegistered => OneStartInFlight
  BY DEF RunningIsRegistered, OneStartInFlight

(* At most one start that nobody cancelled is in flight, however the calls *)
(* of play_vinyl_source and stop_players interleave and fail.              *)
THEOREM StartsAreCoalesced == Spec => []OneStartInFlight
  <1>1. Init => TypeOK /\ RunningIsRegistered
    BY InitTyped, InitRunning
  <1>2. TypeOK /\ RunningIsRegistered /\ [Next]_vars
        => TypeOK' /\ RunningIsRegistered'
    BY NextTyped, NextRunning
  <1> QED
    BY <1>1, <1>2, RegisteredIsOne, PTL DEF Spec

-----------------------------------------------------------------------------
(* A stop is final.                                                        *)

Order == Newer /\ Ordered /\ StopIsFinal

LEMMA NaturalRequests ==
  TypeOK => /\ sequence \in Nat /\ registered \in Nat /\ stopped \in Nat
            /\ playing \in Nat
            /\ \A s \in Stoppers : issued[s] \in Nat
            /\ \A i \in 1 .. Len(inbox) : inbox[i].request \in Nat
  <1> SUFFICES ASSUME TypeOK
               PROVE  /\ sequence \in Nat /\ registered \in Nat /\ stopped \in Nat
                      /\ playing \in Nat
                      /\ \A s \in Stoppers : issued[s] \in Nat
                      /\ \A i \in 1 .. Len(inbox) : inbox[i].request \in Nat
    OBVIOUS
  <1>1. Requests \subseteq Nat /\ NoRequest \in Nat
    BY DEF Requests, NoRequest
  <1>2. \A i \in 1 .. Len(inbox) : inbox[i] \in Messages
    BY ElementOfSeq DEF TypeOK
  <1> QED
    BY <1>1, <1>2, MessagesAreTyped DEF TypeOK

LEMMA InitOrder == Init => Order
  BY DEF Init, Order, Newer, Ordered, StopIsFinal, Begun, NoRequest

(* Only a start that is registered makes the registry newer; for the rest, *)
(* it is enough to look at the stops that have begun.                      *)
LEMMA StaysNewer ==
  ASSUME TypeOK, Newer, sequence' = sequence,
         registered' = registered \/ registered' = NoRequest,
         \A q \in Nat : Begun(q)' =>
            Begun(q) \/ (q <= sequence /\ registered' = NoRequest)
  PROVE  Newer'
  BY NaturalRequests DEF Newer

LEMMA SubmitOrder ==
  ASSUME TypeOK, Order, NEW c \in Callers, Submit(c)
  PROVE  Order'
  <1>1. sequence' = sequence + 1 /\ registered' = sequence + 1
    BY DEF Submit
  <1>2. \A q \in Nat : Begun(q)' => Begun(q)
    BY DEF Submit, Begun, stops, server
  <1>3. Newer'
    BY <1>1, <1>2, NaturalRequests DEF Order, Newer
  <1> QED
    BY <1>3 DEF Order, Submit, Ordered, StopIsFinal, stops, server

LEMMA LocalOrder ==
  ASSUME TypeOK, Order, UNCHANGED <<sequence, stops, server>>,
         registered' = registered \/ registered' = NoRequest
  PROVE  Order'
  <1>1. \A q \in Nat : Begun(q)' => Begun(q)
    BY DEF Begun, stops, server
  <1>2. Newer'
    BY <1>1, StaysNewer DEF Order
  <1> QED
    BY <1>2 DEF Order, Ordered, StopIsFinal, stops, server

LEMMA AskOrder ==
  ASSUME TypeOK, RunningIsRegistered, Order, NEW r \in Requests, Ask(r)
  PROVE  Order'
  <1>1. registered = r /\ r # NoRequest /\ r \in Nat
    BY DEF Ask, RunningIsRegistered, Running, Requests, NoRequest
  <1>2. /\ Len(inbox) \in Nat /\ Len(inbox') = Len(inbox) + 1
        /\ \A i \in 1 .. Len(inbox) : inbox'[i] = inbox[i]
        /\ inbox'[Len(inbox) + 1] = Play(r)
    BY MessagesAreTyped, AppendProperties, LenProperties DEF TypeOK, Ask
  <1>3. Play(r).kind = "play" /\ Play(r).request = r
    BY DEF Play
  <1>4. \A q \in Nat : Begun(q)' => Begun(q)
    BY <1>2, <1>3 DEF Begun, Ask, stops
  <1>5. Newer'
    BY <1>4, StaysNewer DEF Order, Ask, registry
  <1>6. stopped < r
    BY <1>1, NaturalRequests DEF Order, Newer, Begun
  <1>7. \A i \in 1 .. Len(inbox) : inbox[i].kind = "stop" => inbox[i].request < r
    BY <1>1, NaturalRequests DEF Order, Newer, Begun
  <1>8. Ordered'
    BY <1>2, <1>3, <1>6, <1>7 DEF Order, Ordered, Ask
  <1> QED
    BY <1>5, <1>8 DEF Order, StopIsFinal, Ask

LEMMA InvalidateOrder ==
  ASSUME TypeOK, Order, NEW s \in Stoppers, invalidate_play_requests(s)
  PROVE  Order'
  <1>1. \A q \in Nat : Begun(q)' => Begun(q) \/ q = sequence
    BY DEF Begun, invalidate_play_requests, server, TypeOK
  <1>2. Newer'
    BY <1>1, StaysNewer, NaturalRequests DEF Order, invalidate_play_requests
  <1> QED
    BY <1>2 DEF Order, Ordered, StopIsFinal, invalidate_play_requests, server

LEMMA StopperOrder ==
  ASSUME TypeOK, Order, NEW s \in Stoppers, StopSteps(s)
  PROVE  Order'
  <1>1. CASE Gathered(s) \/ StopFails(s)
    <2>1. \A q \in Nat : Begun(q)' => Begun(q)
      BY <1>1 DEF Begun, Gathered, StopFails, server, TypeOK
    <2>2. Newer'
      BY <1>1, <2>1, StaysNewer DEF Order, Gathered, StopFails, registry
    <2> QED
      BY <1>1, <2>2 DEF Order, Ordered, StopIsFinal, Gathered, StopFails, server
  <1>2. CASE SendStop(s)
    <2>1. /\ Len(inbox) \in Nat /\ Len(inbox') = Len(inbox) + 1
          /\ \A i \in 1 .. Len(inbox) : inbox'[i] = inbox[i]
          /\ inbox'[Len(inbox) + 1] = Stop(s)
      BY <1>2, MessagesAreTyped, AppendProperties, LenProperties DEF TypeOK, SendStop
    <2>2. Stop(s).kind = "stop" /\ Stop(s).request = issued[s]
      BY DEF Stop
    <2>3. \A q \in Nat : Begun(q)' => Begun(q)
      BY <1>2, <2>1, <2>2 DEF Begun, SendStop, TypeOK
    <2>4. Newer'
      BY <1>2, <2>3, StaysNewer DEF Order, SendStop, registry
    <2>5. Ordered'
      BY <1>2, <2>1, <2>2 DEF Order, Ordered, SendStop
    <2> QED
      BY <1>2, <2>4, <2>5 DEF Order, StopIsFinal, SendStop
  <1> QED
    BY <1>1, <1>2 DEF StopSteps

LEMMA ExecuteOrder ==
  ASSUME TypeOK, Order, ExecutePlay \/ ExecuteStop
  PROVE  Order'
  <1>1. /\ Head(inbox) = inbox[1] /\ Len(inbox) \in Nat \ {0}
        /\ Len(inbox') = Len(inbox) - 1
        /\ \A i \in 1 .. Len(inbox') : inbox'[i] = inbox[i + 1]
    BY InboxTail DEF ExecutePlay, ExecuteStop
  <1>2. \A i \in 1 .. Len(inbox') : i + 1 \in 2 .. Len(inbox)
    BY <1>1
  <1>3. CASE ExecutePlay
    <2>1. \A q \in Nat : Begun(q)' => Begun(q)
      BY <1>1, <1>2, <1>3 DEF Begun, ExecutePlay, stops
    <2>2. Newer'
      BY <1>3, <2>1, StaysNewer DEF Order, ExecutePlay, registry
    <2>3. Ordered'
      BY <1>1, <1>2, <1>3 DEF Order, Ordered, ExecutePlay
    <2>4. inbox[1].request > stopped
      BY <1>1, <1>3 DEF Order, Ordered, ExecutePlay
    <2> QED
      BY <1>1, <1>3, <2>2, <2>3, <2>4 DEF Order, StopIsFinal, ExecutePlay
  <1>4. CASE ExecuteStop
    <2>1. stopped' = inbox[1].request \/ stopped' = stopped
      BY <1>1, <1>4 DEF ExecuteStop
    <2>2. \A q \in Nat : Begun(q)' => Begun(q)
      BY <1>1, <1>2, <1>4, <2>1 DEF Begun, ExecuteStop, TypeOK
    <2>3. Newer'
      BY <1>4, <2>2, StaysNewer DEF Order, ExecuteStop, registry
    <2>4. Ordered'
      BY <1>1, <1>2, <1>4, <2>1 DEF Order, Ordered, ExecuteStop
    <2> QED
      BY <1>4, <2>3, <2>4 DEF Order, StopIsFinal, ExecuteStop
  <1> QED
    BY <1>3, <1>4

LEMMA LoseOrder ==
  ASSUME TypeOK, Order, LoseConnection
  PROVE  Order'
  <1>1. PICK n \in 0 .. Len(inbox) : inbox' = SubSeq(inbox, 1, n)
    BY DEF LoseConnection
  <1>2. /\ Len(inbox') = n /\ 1 .. n \subseteq 1 .. Len(inbox)
        /\ \A i \in 1 .. n : inbox'[i] = inbox[i]
    BY <1>1, InboxPrefix, LenProperties DEF TypeOK
  <1>3. \A q \in Nat : Begun(q)' => Begun(q)
    BY <1>2 DEF Begun, LoseConnection, TypeOK
  <1>4. Newer'
    BY <1>3, StaysNewer DEF Order, LoseConnection, registry
  <1>5. Ordered'
    BY <1>2 DEF Order, Ordered, LoseConnection
  <1> QED
    BY <1>4, <1>5 DEF Order, StopIsFinal, LoseConnection

LEMMA NextOrder ==
  TypeOK /\ RunningIsRegistered /\ Order /\ [Next]_vars => Order'
  <1> SUFFICES ASSUME TypeOK, RunningIsRegistered, Order, [Next]_vars PROVE Order'
    OBVIOUS
  <1>1. ASSUME NEW c \in Callers, Join(c) \/ Return(c) \/ Raise(c) PROVE Order'
    <2>1. /\ UNCHANGED <<sequence, stops, server>>
          /\ registered' = registered \/ registered' = NoRequest
      BY <1>1 DEF Join, Return, Raise, Forget, registry
    <2> QED
      BY <2>1, LocalOrder
  <1>2. CASE Settle
    BY <1>2, LocalOrder DEF Settle
  <1>3. ASSUME NEW r \in Requests, PlayerMissing(r) \/ ConnectFails(r) \/ Cancelled(r)
        PROVE  Order'
    BY <1>3, LocalOrder DEF PlayerMissing, ConnectFails, Cancelled, registry
  <1>4. CASE UNCHANGED vars
    BY <1>4, LocalOrder DEF vars, registry
  <1> QED
    BY <1>1, <1>2, <1>3, <1>4, SubmitOrder, AskOrder, InvalidateOrder, StopperOrder,
       ExecuteOrder, LoseOrder DEF Next, TaskSteps

(* A stop is never followed by a start that it was meant to end.           *)
THEOREM StopsAreFinal == Spec => []StopIsFinal
  <1>1. Init => TypeOK /\ RunningIsRegistered /\ Order
    BY InitTyped, InitRunning, InitOrder
  <1>2. TypeOK /\ RunningIsRegistered /\ Order /\ [Next]_vars
        => TypeOK' /\ RunningIsRegistered' /\ Order'
    BY NextTyped, NextRunning, NextOrder
  <1>3. Order => StopIsFinal
    BY DEF Order
  <1> QED
    BY <1>1, <1>2, <1>3, PTL DEF Spec
=============================================================================
