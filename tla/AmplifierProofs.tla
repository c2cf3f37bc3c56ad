-------------------------- MODULE AmplifierProofs --------------------------
(***************************************************************************)
(* Proofs about Amplifier, for any scales, callers and volumes.            *)
(*                                                                         *)
(* Every dialogue reads an answer to its own question: the client answers  *)
(* in order, and when a dialogue asks nothing is owed or unread (Answers), *)
(* since one that failed has thrown its client away.                       *)
(*                                                                         *)
(* What the tick queued for a record stays the volume of records until it  *)
(* is set: nobody saves another one while the record is being activated    *)
(* (Queue).                                                                *)
(***************************************************************************)
EXTENDS Amplifier, SequenceTheorems, TLAPS

-----------------------------------------------------------------------------
(* The two scales stay in their ranges.                                    *)

LEMMA Division ==
  ASSUME NEW n \in Int, NEW d \in Nat \ {0}
  PROVE  /\ n \div d \in Int /\ n % d \in Int
         /\ n = (n \div d) * d + (n % d) /\ 0 <= n % d /\ n % d < d
  OBVIOUS

LEMMA Monotone ==
  ASSUME NEW a \in Int, NEW b \in Int, NEW d \in Nat, a <= b
  PROVE  a * d <= b * d
  OBVIOUS

LEMMA RoundedBounds ==
  ASSUME NEW n \in Int, NEW d \in Nat \ {0}, NEW low \in Int, NEW high \in Int,
         low * d <= n, n <= high * d
  PROVE  Rounded(n, d) \in low .. high
  <1> DEFINE q == n \div d
             r == n % d
  <1>1. q \in Int /\ r \in Int /\ n = q * d + r /\ 0 <= r /\ r < d
    BY Division
  <1>2. (q + 1) * d = q * d + d /\ (high + 1) * d = high * d + d
    BY <1>1
  <1>3. Rounded(n, d) = IF 2 * r > d \/ (2 * r = d /\ q % 2 = 1) THEN q + 1 ELSE q
    BY DEF Rounded
  <1> HIDE DEF q, r
  <1>4. low <= q
    <2> SUFFICES ASSUME q + 1 <= low PROVE FALSE
      BY <1>1
    <2>1. (q + 1) * d <= low * d
      BY <1>1, Monotone
    <2>2. q * d \in Int /\ low * d \in Int
      BY <1>1
    <2> QED BY <2>1, <2>2, <1>1, <1>2
  <1>5. q <= high
    <2> SUFFICES ASSUME high + 1 <= q PROVE FALSE
      BY <1>1
    <2>1. (high + 1) * d <= q * d
      BY <1>1, Monotone
    <2>2. q * d \in Int /\ high * d \in Int
      BY <1>1
    <2> QED BY <2>1, <2>2, <1>1, <1>2
  <1>6. q = high => r = 0
    <2>1. q * d \in Int
      BY <1>1
    <2> QED BY <2>1, <1>1
  <1> QED BY <1>1, <1>3, <1>4, <1>5, <1>6

LEMMA Scales ==
  /\ Top \in Int /\ Top - 1 \in Nat \ {0} /\ 1 <= Top
  /\ VolumeMin \in Int /\ VolumeMax \in Int /\ VolumeMin <= VolumeMax
  /\ Span \in Nat \ {0} /\ VolumeMax = VolumeMin + Span
  BY AmplifierAssumption DEF Span

(* A logical volume is mapped into the range of the receiver.              *)
LEMMA ReceiverRange ==
  ASSUME NEW v \in Volumes
  PROVE  logical_to_cec(v) \in VolumeMin .. VolumeMax
  <1> DEFINE d == Top - 1
             part == (Clamped(v, 1, Top) - 1) * Span
  <1>1. v \in Int
    BY Scales DEF Volumes
  <1>2. Clamped(v, 1, Top) - 1 \in 0 .. d
    <2>1. Clamped(v, 1, Top) \in 1 .. Top
      BY <1>1, Scales DEF Clamped
    <2> QED BY <2>1, Scales
  <1>3. 0 <= part /\ part <= d * Span /\ part \in Int
    BY <1>2, Scales, Monotone
  <1>4. /\ VolumeMin * d \in Int /\ d * Span \in Int
        /\ VolumeMax * d = VolumeMin * d + d * Span
    BY Scales
  <1>5. /\ VolumeMin * d <= VolumeMin * d + part
        /\ VolumeMin * d + part <= VolumeMax * d
        /\ VolumeMin * d + part \in Int /\ d \in Nat \ {0}
    BY <1>3, <1>4, Scales
  <1>6. logical_to_cec(v) = Rounded(VolumeMin * d + part, d)
    BY DEF logical_to_cec
  <1> HIDE DEF d, part
  <1> QED BY <1>5, <1>6, Scales, RoundedBounds

(* What the receiver has is reported as a logical volume.                  *)
LEMMA LogicalRange ==
  ASSUME NEW v \in VolumeMin .. VolumeMax
  PROVE  cec_to_logical(v) \in Volumes
  <1> DEFINE d == Top - 1
             part == (Clamped(v, VolumeMin, VolumeMax) - VolumeMin) * d
  <1>1. Clamped(v, VolumeMin, VolumeMax) - VolumeMin \in 0 .. Span
    <2>1. Clamped(v, VolumeMin, VolumeMax) \in VolumeMin .. VolumeMax
      BY Scales DEF Clamped
    <2> QED BY <2>1, Scales
  <1>2. 0 <= part /\ part <= Span * d /\ part \in Int
    BY <1>1, Scales, Monotone
  <1>3. /\ Span * d \in Int
        /\ Top * Span = Span + Span * d
    BY Scales
  <1>4. /\ 1 * Span <= Span + part
        /\ Span + part <= Top * Span
        /\ Span + part \in Int
    BY <1>2, <1>3, Scales
  <1>5. cec_to_logical(v) = Rounded(Span + part, Span)
    BY DEF cec_to_logical
  <1> HIDE DEF d, part
  <1>6. cec_to_logical(v) \in 1 .. Top
    <2>1. 1 \in Int
      OBVIOUS
    <2> QED BY ZenonT(40), <2>1, <1>4, <1>5, Scales, RoundedBounds
  <1> QED BY <1>6, Scales DEF Volumes

-----------------------------------------------------------------------------
(* The queue of calls.                                                     *)

Formed(c) ==
    /\ c.does = "power" => c.who = "tick"
    /\ c.does = "close" <=> c.who = "daemon"

NoTick(q) == \A i \in DOMAIN q : q[i].who # "tick"

(* At most one call of the tick, and what it sets for a record.            *)
OneTick(q, g, p) ==
    /\ g # "none"
    /\ \A i, j \in DOMAIN q : q[i].who = "tick" /\ q[j].who = "tick" => i = j
    /\ \A i \in DOMAIN q :
          q[i].who = "tick" /\ q[i].does = "audio" /\ g = "local_phono"
          => q[i].target = p

Tidy(q, g, p) ==
    /\ \A i \in DOMAIN q : Formed(q[i])
    /\ NoTick(q) \/ OneTick(q, g, p)

LEMMA Appended ==
  ASSUME NEW q \in Seq(Calls), NEW c \in Calls
  PROVE  /\ Append(q, c) \in Seq(Calls) /\ Append(q, c) # <<>>
         /\ DOMAIN Append(q, c) = DOMAIN q \cup {Len(q) + 1}
         /\ Len(q) + 1 \notin DOMAIN q
         /\ \A i \in DOMAIN q : Append(q, c)[i] = q[i]
         /\ Append(q, c)[Len(q) + 1] = c
         /\ q # <<>> => Head(Append(q, c)) = Head(q)
  <1>1. /\ Append(q, c) \in Seq(Calls)
        /\ Len(Append(q, c)) = Len(q) + 1 /\ Len(q) \in Nat
        /\ \A i \in 1 .. Len(q) : Append(q, c)[i] = q[i]
        /\ Append(q, c)[Len(q) + 1] = c
    OBVIOUS
  <1>2. DOMAIN Append(q, c) = 1 .. Len(q) + 1 /\ DOMAIN q = 1 .. Len(q)
    BY <1>1
  <1>3. Append(q, c) # <<>>
    BY <1>1, EmptySeq
  <1>4. q # <<>> => Head(Append(q, c)) = Head(q)
    <2> SUFFICES ASSUME q # <<>> PROVE Append(q, c)[1] = q[1]
      BY <1>1, <1>3
    <2>1. 1 \in 1 .. Len(q)
      BY EmptySeq
    <2> QED BY <2>1, <1>1
  <1> QED BY <1>1, <1>2, <1>3, <1>4

LEMMA Removed ==
  ASSUME NEW q \in Seq(Calls), q # <<>>
  PROVE  /\ Head(q) \in Calls /\ 1 \in DOMAIN q /\ q[1] = Head(q)
         /\ Tail(q) \in Seq(Calls)
         /\ \A i \in DOMAIN Tail(q) :
               /\ i + 1 \in DOMAIN q /\ i + 1 # 1
               /\ Tail(q)[i] = q[i + 1]
         /\ \A i, j \in DOMAIN Tail(q) : i + 1 = j + 1 => i = j
  <1>1. Len(q) \in Nat \ {0} /\ DOMAIN q = 1 .. Len(q) /\ q[1] = Head(q)
    BY EmptySeq
  <1>2. Tail(q) \in Seq(Calls) /\ DOMAIN Tail(q) = 1 .. Len(q) - 1
    BY <1>1
  <1> QED BY <1>1, <1>2

LEMMA TidyAppended ==
  ASSUME NEW q \in Seq(Calls), NEW c \in Calls, NEW g, NEW p, Tidy(q, g, p), Formed(c)
  PROVE  /\ c.who # "tick" => Tidy(Append(q, c), g, p)
         /\ NoTick(q) => \A h : h # "none"
                               /\ (c.does = "audio" /\ h = "local_phono" => c.target = p)
                               => Tidy(Append(q, c), h, p)
  <1> DEFINE a == Append(q, c)
  <1>1. /\ DOMAIN a = DOMAIN q \cup {Len(q) + 1}
        /\ Len(q) + 1 \notin DOMAIN q
        /\ \A i \in DOMAIN q : a[i] = q[i]
        /\ a[Len(q) + 1] = c
    BY Appended
  <1> HIDE DEF a
  <1>2. \A i \in DOMAIN a : Formed(a[i])
    BY <1>1 DEF Tidy
  <1>3. c.who # "tick" => NoTick(a) \/ OneTick(a, g, p)
    BY <1>1 DEF Tidy, NoTick, OneTick
  <1>4. ASSUME NoTick(q), NEW h, h # "none",
               c.does = "audio" /\ h = "local_phono" => c.target = p
        PROVE  OneTick(a, h, p)
    BY <1>1, <1>4 DEF NoTick, OneTick
  <1> QED BY <1>2, <1>3, <1>4 DEF Tidy, a

LEMMA TidyRemoved ==
  ASSUME NEW q \in Seq(Calls), q # <<>>, NEW g, NEW p, Tidy(q, g, p)
  PROVE  /\ Formed(Head(q))
         /\ Tidy(Tail(q), g, p)
         /\ Head(q).who = "tick" =>
               /\ g # "none" /\ NoTick(Tail(q))
               /\ Head(q).does = "audio" /\ g = "local_phono" => Head(q).target = p
  <1>1. /\ 1 \in DOMAIN q /\ q[1] = Head(q)
        /\ \A i \in DOMAIN Tail(q) :
              i + 1 \in DOMAIN q /\ i + 1 # 1 /\ Tail(q)[i] = q[i + 1]
        /\ \A i, j \in DOMAIN Tail(q) : i + 1 = j + 1 => i = j
    BY Removed
  <1>2. \A i \in DOMAIN Tail(q) : Formed(Tail(q)[i])
    BY <1>1 DEF Tidy
  <1>3. NoTick(Tail(q)) \/ OneTick(Tail(q), g, p)
    BY <1>1 DEF Tidy, NoTick, OneTick
  <1>4. Head(q).who = "tick" => OneTick(q, g, p)
    BY <1>1 DEF Tidy, NoTick
  <1>5. Head(q).who = "tick" => NoTick(Tail(q))
    BY <1>1, <1>4 DEF NoTick, OneTick
  <1> QED BY <1>1, <1>2, <1>3, <1>4, <1>5 DEF Tidy, OneTick

LEMMA NoTickIsTidy ==
  ASSUME NEW q, NEW g, NEW p, Tidy(q, g, p)
  PROVE  /\ NoTick(q) => \A h, o : Tidy(q, h, o)
         /\ g # "local_phono" => \A o : Tidy(q, g, o)
         /\ g = "none" => NoTick(q)
  BY DEF Tidy, OneTick

-----------------------------------------------------------------------------
(* The invariant.                                                          *)

Queue ==
    /\ Tidy(calls, going, profile)
    /\ going # "none" => going # route

(* A dialogue presses the keys from where the receiver is to where it was  *)
(* asked to be, and has pressed them when it asks again.                   *)
Conducted ==
    /\ phase # "open" => calls # <<>> /\ first.does \in Kinds
    /\ phase \in {"press", "confirm"} => first.does = "audio"
    /\ phase \in {"press", "confirm"} => (muted <=> first.target = 0)
    /\ phase = "press" /\ first.target = 0 => keys = 0
    /\ phase = "press" /\ first.target # 0
          => level + keys = logical_to_cec(first.target)
    /\ phase = "confirm" /\ first.target # 0
          => level = logical_to_cec(first.target)

Status(kind) == [kind |-> kind, level |-> level, muted |-> muted]

(* A client in use has answered every question but the one of the dialogue.*)
Answers ==
    client = "running" =>
        /\ ~Waiting => owed = <<>> /\ replies = <<>>
        /\ Waiting => \/ owed = <<first.does>> /\ replies = <<>>
                      \/ owed = <<>> /\ replies = <<Status(first.does)>>

IInv == TypeOK /\ Queue /\ Conducted /\ Answers

LEMMA Nonempty ==
  ASSUME TypeOK, calls # <<>>
  PROVE  first \in Calls /\ Tail(calls) \in Seq(Calls)
  BY Removed DEF TypeOK, first

(* The first match is the answer to the question of this dialogue.         *)
LEMMA FirstAnswer ==
  ASSUME Answers, Waiting, NEW kind \in Kinds, _read_match(kind)
  PROVE  /\ first.does = kind /\ replies[FirstOf(kind)] = Status(kind)
         /\ client = "running" /\ client' = "running"
         /\ owed' = <<>> /\ replies' = <<>>
  <1>1. client = "running" /\ FirstOf(kind) # 0
    BY DEF _read_match
  <1>2. CASE replies = <<>>
    <2>1. {i \in 1 .. Len(replies) : replies[i].kind = kind} = {}
      BY <1>2
    <2>2. FirstOf(kind) = 0
      BY <2>1 DEF FirstOf, SelectInSeq
    <2> QED BY <1>1, <2>2
  <1>3. CASE owed = <<>> /\ replies = <<Status(first.does)>>
    <2>1. Len(replies) = 1 /\ replies[1] = Status(first.does)
      BY <1>3
    <2> DEFINE I == {i \in 1 .. Len(replies) : replies[i].kind = kind}
    <2>2. FirstOf(kind) = IF I # {} THEN Min(I) ELSE 0
      BY DEF FirstOf, SelectInSeq
    <2>3. I = {1}
      BY <1>1, <2>1, <2>2
    <2>4. Min({1}) = 1
      BY DEF Min
    <2>5. FirstOf(kind) = 1
      BY <2>2, <2>3, <2>4
    <2>6. first.does = kind
      BY <2>1, <2>3 DEF Status
    <2>7. SubSeq(replies, 2, Len(replies)) = <<>>
      BY <2>1, SubSeqEmpty
    <2> QED BY <1>1, <1>3, <2>1, <2>5, <2>6, <2>7 DEF _read_match
  <1> QED BY <1>1, <1>2, <1>3 DEF Answers

-----------------------------------------------------------------------------
(* Calls that arrive.                                                      *)

LEMMA Arrival ==
  ASSUME IInv, NEW c \in Calls, Begin(c), Formed(c), c.who # "tick", Beginning,
         UNCHANGED tickvars, ended' \in BOOLEAN
  PROVE  IInv'
  <1> USE DEF IInv, Begin, Beginning, tickvars, volumes, line, receiver
  <1>1. /\ calls' \in Seq(Calls) /\ calls' # <<>>
        /\ calls # <<>> => first' = first
    BY Appended DEF TypeOK, first
  <1>2. TypeOK'
    BY <1>1 DEF TypeOK
  <1>3. Queue'
    BY TidyAppended DEF TypeOK, Queue
  <1>4. Conducted'
    BY <1>1 DEF Conducted
  <1>5. Answers'
    BY <1>1 DEF Answers, Conducted, Waiting, Status
  <1> QED BY <1>2, <1>3, <1>4, <1>5

LEMMA Asking ==
  ASSUME NEW u \in Users, NEW v \in Volumes, NEW h \in BOOLEAN, u # "daemon"
  PROVE  /\ VolumeCall(u, v) \in Calls /\ Formed(VolumeCall(u, v))
         /\ VolumeCall(u, v).who = u /\ VolumeCall(u, v).target = v
         /\ [VolumeCall(u, v) EXCEPT !.hook = h] \in Calls
         /\ [VolumeCall(u, v) EXCEPT !.hook = h].who = u
         /\ Formed([VolumeCall(u, v) EXCEPT !.hook = h])
  <1>1. VolumeCall(u, v) = [who |-> u, does |-> "audio", target |-> v, hook |-> FALSE]
    BY DEF VolumeCall
  <1>2. [VolumeCall(u, v) EXCEPT !.hook = h]
           = [who |-> u, does |-> "audio", target |-> v, hook |-> h]
    BY <1>1
  <1> QED BY <1>1, <1>2 DEF Calls, Kinds, Formed

LEMMA Zero == Asked \subseteq Volumes /\ 0 \in Volumes
  BY AmplifierAssumption DEF Volumes

LEMMA Waking ==
  WakeCall \in Calls /\ Formed(WakeCall) /\ WakeCall.who = "tick"
  /\ WakeCall.does = "power"
  BY Zero DEF WakeCall, Calls, Kinds, Formed, Users

LEMMA Ending ==
  CloseCall \in Calls /\ Formed(CloseCall) /\ CloseCall.who = "daemon"
  BY Zero DEF CloseCall, Calls, Formed, Users

LEMMA RequestArrives ==
  ASSUME IInv, NEW u \in Requests, NEW v \in Asked, NEW hook \in BOOLEAN,
         Request(u, v, hook)
  PROVE  IInv'
  <1> DEFINE c == [VolumeCall(u, v) EXCEPT !.hook = hook]
  <1>1. u \in Users /\ u \notin {"tick", "daemon"} /\ v \in Volumes
    BY AmplifierAssumption, Zero DEF Users
  <1>2. c \in Calls /\ Formed(c) /\ c.who # "tick"
    BY <1>1, Asking
  <1>3. Begin(c) /\ Beginning /\ UNCHANGED tickvars /\ ended' \in BOOLEAN
    BY DEF Request, IInv, TypeOK
  <1> HIDE DEF c
  <1> QED BY <1>2, <1>3, Arrival

LEMMA VolumeArrives ==
  ASSUME IInv, NEW u \in {"phone", "encoder"}, NEW v \in Volumes,
         Begin(VolumeCall(u, v)), Beginning, UNCHANGED <<tickvars, ended>>
  PROVE  IInv'
  <1>1. u \in Users /\ u \notin {"tick", "daemon"}
    BY DEF Users
  <1>2. /\ VolumeCall(u, v) \in Calls /\ Formed(VolumeCall(u, v))
        /\ VolumeCall(u, v).who # "tick"
    BY <1>1, Asking
  <1>3. ended' \in BOOLEAN /\ UNCHANGED tickvars
    BY DEF IInv, TypeOK
  <1> QED BY <1>2, <1>3, Arrival

LEMMA PhoneArrives ==
  ASSUME IInv, NEW v \in Asked, bluetooth_volume_action(v)
  PROVE  IInv'
  BY VolumeArrives, Zero DEF bluetooth_volume_action

LEMMA EncoderArrives ==
  ASSUME IInv, NEW d \in Detents, hardware_volume_action(d)
  PROVE  IInv'
  <1>1. CurrentVolume \in Int
    <2>1. /\ UnknownVolume \in Int /\ profile \in Int
          /\ reported # NoVolume => reported \in Int
      BY AmplifierAssumption DEF IInv, TypeOK, Volumes
    <2> QED BY <2>1 DEF CurrentVolume
  <1>2. d * VolumeStep \in Int
    <2>1. VolumeStep \in Int /\ MaxDetents \in Int
      BY AmplifierAssumption
    <2>2. d \in Int
      BY <2>1 DEF Detents
    <2> QED BY <2>1, <2>2
  <1>3. Turned(d) \in Volumes
    BY <1>1, <1>2, Scales DEF Turned, Clamped, Volumes
  <1> QED BY <1>3, VolumeArrives DEF hardware_volume_action

LEMMA DaemonArrives ==
  ASSUME IInv, Close
  PROVE  IInv'
  BY Arrival, Ending DEF Close

(* What activate_route leaves, when no call of the tick is queued.         *)
LEMMA Activation ==
  ASSUME NEW q \in Seq(Calls), NEW r \in Routes, NoTick(q), Tidy(q, going, profile),
         TypeOK, r # route, activate_route(r, q)
  PROVE  /\ calls' \in Seq(Calls) /\ Tidy(calls', going', profile)
         /\ route' \in Routes /\ going' \in Routes \cup {"none"}
         /\ going' # "none" => going' # route'
         /\ q # <<>> => calls' # <<>> /\ Head(calls') = Head(q)
         /\ route' = "local_phono" => route = "local_phono"
  <1> "none" \notin Routes /\ "tick" \in Users /\ profile \in Volumes
    BY DEF Routes, Users, TypeOK
  <1>1. ASSUME NEW v \in Volumes, r = "local_phono" => v = profile,
               calls' = Append(q, VolumeCall("tick", v)), going' = r, route' = route
        PROVE  /\ calls' \in Seq(Calls) /\ Tidy(calls', going', profile)
               /\ q # <<>> => calls' # <<>> /\ Head(calls') = Head(q)
    <2>1. /\ VolumeCall("tick", v) \in Calls
          /\ VolumeCall("tick", v).target = v
          /\ Formed(VolumeCall("tick", v))
      BY Asking
    <2>2. calls' \in Seq(Calls) /\ (q # <<>> => calls' # <<>> /\ Head(calls') = Head(q))
      BY <1>1, <2>1, Appended
    <2>3. Tidy(Append(q, VolumeCall("tick", v)), r, profile)
      BY <1>1, <2>1, TidyAppended
    <2> QED BY <1>1, <2>2, <2>3
  <1>2. CASE r = "local_phono" /\ calls' = Append(q, VolumeCall("tick", profile))
             /\ going' = r /\ route' = route
    BY <1>1, <1>2 DEF TypeOK
  <1>3. ASSUME r \in {"distributed_bluetooth", "other_ma"}, going' = r, route' = route,
               \E v \in Asked : calls' = Append(q, VolumeCall("tick", v))
        PROVE  /\ calls' \in Seq(Calls) /\ Tidy(calls', going', profile)
               /\ q # <<>> => calls' # <<>> /\ Head(calls') = Head(q)
    BY <1>1, <1>3, Zero
  <1>4. CASE r # "local_phono" /\ calls' = q /\ route' = r /\ going' = "none"
    BY <1>4, NoTickIsTidy
  <1> QED BY <1>2, <1>3, <1>4 DEF activate_route, TypeOK

LEMMA TickActivates ==
  ASSUME IInv, NEW r \in Routes, Activate(r)
  PROVE  IInv'
  <1> USE DEF IInv, Beginning, volumes, line, receiver
  <1>1. /\ going = "none" /\ r # route /\ Beginning /\ UNCHANGED ended
        /\ NoTick(calls) /\ calls \in Seq(Calls)
        /\ r # "none" /\ "none" \notin Routes
    BY NoTickIsTidy DEF Activate, Queue, TypeOK, Routes
  <1>2. /\ calls' \in Seq(Calls) /\ Tidy(calls', going', profile)
        /\ route' \in Routes /\ going' \in Routes \cup {"none"}
        /\ going' # "none" => going' # route'
        /\ calls # <<>> => calls' # <<>> /\ Head(calls') = Head(calls)
    <2>1. CASE route = "idle" /\ Begin(WakeCall) /\ going' = r /\ UNCHANGED route
      <3>1. calls' = Append(calls, WakeCall)
        BY <2>1 DEF Begin
      <3>2. Tidy(Append(calls, WakeCall), r, profile)
        BY <1>1, Waking, TidyAppended DEF Queue
      <3> QED BY <1>1, <2>1, <3>1, <3>2, Waking, Appended DEF TypeOK
    <2>2. CASE activate_route(r, calls)
      BY <1>1, <2>2, Activation DEF Queue
    <2> QED BY <2>1, <2>2 DEF Activate
  <1>3. calls # <<>> => first' = first
    BY <1>2 DEF first
  <1>4. TypeOK'
    BY <1>1, <1>2 DEF TypeOK
  <1>5. Queue'
    BY <1>1, <1>2 DEF Queue
  <1>6. Conducted'
    BY <1>1, <1>2, <1>3 DEF Conducted
  <1>7. Answers'
    BY <1>1, <1>3 DEF Answers, Conducted, Waiting, Status
  <1> QED BY <1>4, <1>5, <1>6, <1>7

-----------------------------------------------------------------------------
(* A call returns.                                                         *)

LEMMA NobodyElse == Requests \cap {"tick", "encoder", "phone", "daemon"} = {}
  BY AmplifierAssumption

(* What the tick's own call leaves; and others save a volume only while    *)
(* records play, so never while one is being activated.                    *)
LEMMA Returned ==
  ASSUME IInv, calls # <<>>, NEW ok \in BOOLEAN,
         NEW heard \in Volumes \cup {NoVolume}, Return(ok, heard),
         client' \in {"none", "running", "exited"}, owed' \in Seq(Kinds),
         client' = "running" => owed' = <<>> /\ replies' = <<>>
  PROVE  IInv'
  <1> USE DEF IInv
  <1>1. /\ phase' = "open" /\ keys' = 0 /\ UNCHANGED <<level, muted, ended>>
        /\ reported' \in Volumes \cup {NoVolume}
    BY DEF Return, receiver, TypeOK
  <1>2. /\ first \in Calls /\ Tail(calls) \in Seq(Calls)
        /\ profile \in Volumes /\ first.target \in Volumes
    BY Nonempty DEF Calls, TypeOK
  <1>3. /\ Formed(first) /\ Tidy(Tail(calls), going, profile)
        /\ first.who = "tick" => going # "none" /\ NoTick(Tail(calls))
    BY TidyRemoved DEF Queue, TypeOK, first
  <1>4. /\ profile' \in Volumes
        /\ profile' # profile => route = "local_phono" /\ first.who # "tick"
    BY <1>2, NobodyElse DEF Return, Saves
  <1>5. /\ calls' \in Seq(Calls) /\ Tidy(calls', going', profile')
        /\ route' \in Routes /\ going' \in Routes \cup {"none"}
        /\ going' # "none" => going' # route'
    <2>1. CASE first.does = "power" /\ activate_route(going, Tail(calls))
      <3>1. first.who = "tick" /\ profile' = profile
        BY <1>3, <1>4, <2>1 DEF Formed
      <3>2. going \in Routes /\ going # route
        BY <1>3, <3>1 DEF Queue, TypeOK
      <3> QED BY <1>2, <1>3, <2>1, <3>1, <3>2, Activation
    <2>2. CASE /\ first.does = "audio" /\ first.who = "tick"
               /\ calls' = Tail(calls) /\ route' = going /\ going' = "none"
      <3>1. Tidy(Tail(calls), "none", profile')
        BY <1>3, <2>2, NoTickIsTidy
      <3> QED BY <1>2, <1>3, <2>2, <3>1 DEF TypeOK
    <2>3. CASE first.who # "tick" /\ calls' = Tail(calls) /\ UNCHANGED tickvars
      <3>1. going' = going /\ route' = route
        BY <2>3 DEF tickvars
      <3>2. profile' # profile => going # "local_phono"
        BY <1>4 DEF Queue
      <3>3. Tidy(Tail(calls), going, profile')
        BY <1>3, <3>2, NoTickIsTidy
      <3> QED BY <1>2, <2>3, <3>1, <3>3 DEF Queue, TypeOK
    <2> QED BY <2>1, <2>2, <2>3 DEF Return
  <1>6. keys' \in VolumeMin - VolumeMax .. VolumeMax - VolumeMin
    BY <1>1, Scales
  <1>7. TypeOK'
    BY <1>1, <1>4, <1>5, <1>6 DEF TypeOK
  <1>8. Queue' /\ Conducted'
    BY <1>1, <1>5 DEF Queue, Conducted
  <1>9. Answers'
    BY <1>1 DEF Answers, Waiting
  <1> QED BY <1>7, <1>8, <1>9

-----------------------------------------------------------------------------
(* The dialogue, and the receiver.                                         *)

LEMMA Unasked == <<>> \in Seq(Kinds)
  OBVIOUS

LEMMA Failing ==
  ASSUME IInv, Fails
  PROVE  IInv'
  <1>1. calls # <<>> /\ Return(FALSE, NoVolume) /\ client' = "none" /\ owed' = <<>>
    BY DEF Fails, IInv, Conducted, Invalidate
  <1> QED BY <1>1, Unasked, Returned

LEMMA FailingToOpen ==
  ASSUME IInv, OpenFails
  PROVE  IInv'
  <1>1. calls # <<>> /\ Return(FALSE, NoVolume) /\ UNCHANGED <<client, owed, replies>>
    BY DEF OpenFails, line
  <1>2. client # "running" /\ client \in {"none", "running", "exited"} /\ owed \in Seq(Kinds)
    BY DEF OpenFails, IInv, TypeOK
  <1> QED BY <1>1, <1>2, Returned

LEMMA Closing ==
  ASSUME IInv, CloseClient
  PROVE  IInv'
  <1>1. calls # <<>> /\ Return(TRUE, reported) /\ client' = "none" /\ owed' = <<>>
    BY DEF CloseClient, Invalidate
  <1>2. reported \in Volumes \cup {NoVolume}
    BY DEF IInv, TypeOK
  <1> QED BY <1>1, <1>2, Unasked, Returned

LEMMA Waken ==
  ASSUME IInv, Awake
  PROVE  IInv'
  <1>1. Waiting /\ _read_match("power") /\ "power" \in Kinds /\ Return(TRUE, NoVolume)
    BY DEF Awake, Waiting, Kinds
  <1>2. calls # <<>> /\ Answers
    BY DEF IInv, Conducted, Awake
  <1>3. client' = "running" /\ owed' = <<>> /\ replies' = <<>>
    BY <1>1, <1>2, FirstAnswer
  <1> QED BY <1>1, <1>2, <1>3, Unasked, Returned

(* The answer to the last question is the state of the receiver, which the *)
(* keys have brought to where the call wants it.                           *)
LEMMA Result ==
  ASSUME IInv, HearResult
  PROVE  /\ calls # <<>> /\ first.does = "audio"
         /\ Return(TRUE, IF muted THEN 0 ELSE cec_to_logical(level))
         /\ client' = "running" /\ owed' = <<>> /\ replies' = <<>>
         /\ muted <=> first.target = 0
         /\ first.target # 0 => level = logical_to_cec(first.target)
  <1>1. Waiting /\ _read_match("audio") /\ "audio" \in Kinds /\ Answers
    BY DEF HearResult, Waiting, Kinds, IInv
  <1>2. /\ first.does = "audio" /\ replies[FirstOf("audio")] = Status("audio")
        /\ client' = "running" /\ owed' = <<>> /\ replies' = <<>>
    BY <1>1, FirstAnswer
  <1>3. Status("audio").muted = muted /\ Status("audio").level = level
    BY DEF Status
  <1>4. Return(TRUE, IF muted THEN 0 ELSE cec_to_logical(level))
    BY <1>2, <1>3 DEF HearResult
  <1> QED BY <1>2, <1>4 DEF HearResult, IInv, Conducted

LEMMA Setting ==
  ASSUME IInv, HearResult
  PROVE  IInv'
  <1>1. level \in VolumeMin .. VolumeMax
    BY DEF IInv, TypeOK
  <1>2. (IF muted THEN 0 ELSE cec_to_logical(level)) \in Volumes \cup {NoVolume}
    BY <1>1, LogicalRange, Zero
  <1> QED BY <1>2, Result, Unasked, Returned

LEMMA Opening ==
  ASSUME IInv, _open
  PROVE  IInv'
  <1> USE DEF IInv
  <1>1. /\ calls # <<>> /\ phase = "open" /\ first.does # "close" /\ phase' = "ask"
        /\ client' = "running"
        /\ UNCHANGED <<route, going, profile, reported, calls, keys, level, muted, ended>>
        /\ first' = first
    BY DEF _open, tickvars, volumes, line, receiver, first
  <1>2. owed' = <<>> /\ replies' = <<>>
    BY <1>1 DEF _open, line, Answers, Waiting
  <1>3. first.does \in Kinds
    BY <1>1, Nonempty DEF Calls
  <1>4. TypeOK'
    BY <1>1, <1>2 DEF TypeOK
  <1>5. Queue' /\ Conducted'
    BY <1>1, <1>3 DEF Queue, Conducted
  <1>6. Answers'
    BY <1>1, <1>2 DEF Answers, Waiting
  <1> QED BY <1>4, <1>5, <1>6

LEMMA Questions ==
  ASSUME IInv, Ask \/ Confirm
  PROVE  IInv'
  <1> USE DEF IInv
  <1>1. /\ client = "running" /\ owed' = Append(owed, first.does)
        /\ UNCHANGED <<route, going, profile, reported, calls, keys, client, replies,
                       level, muted, ended>>
        /\ first' = first
        /\ \/ phase = "ask" /\ phase' = "read"
           \/ phase = "press" /\ keys = 0 /\ phase' = "confirm"
    BY DEF Ask, Confirm, SendQuestion, tickvars, volumes, receiver, first
  <1>2. calls # <<>> /\ first.does \in Kinds /\ owed = <<>> /\ replies = <<>>
    BY <1>1 DEF Conducted, Answers, Waiting
  <1>3. owed' = <<first.does>> /\ owed' \in Seq(Kinds)
    BY <1>1, <1>2
  <1>4. TypeOK'
    BY <1>1, <1>3 DEF TypeOK
  <1>5. Queue'
    BY <1>1 DEF Queue
  <1>6. Conducted'
    BY <1>1, <1>2 DEF Conducted, TypeOK
  <1>7. Answers'
    BY <1>1, <1>2, <1>3 DEF Answers, Waiting
  <1> QED BY <1>4, <1>5, <1>6, <1>7

LEMMA Standby ==
  ASSUME IInv, StillStandby
  PROVE  IInv'
  <1> USE DEF IInv
  <1>1. /\ phase = "read" /\ _read_match("power") /\ phase' = "ask"
        /\ UNCHANGED <<route, going, profile, reported, calls, keys, level, muted, ended>>
        /\ first' = first
    BY DEF StillStandby, tickvars, volumes, receiver, first
  <1>2. client' = "running" /\ owed' = <<>> /\ replies' = <<>>
    BY <1>1, FirstAnswer DEF Waiting, Kinds
  <1>3. TypeOK'
    BY <1>1, <1>2 DEF TypeOK
  <1>4. Queue' /\ Conducted'
    BY <1>1 DEF Queue, Conducted
  <1>5. Answers'
    BY <1>1, <1>2 DEF Answers, Waiting
  <1> QED BY <1>3, <1>4, <1>5

(* The first answer says where the receiver is: what is pressed from there *)
(* leads to where the call wants it.                                       *)
LEMMA Hearing ==
  ASSUME IInv, HearVolume
  PROVE  IInv'
  <1> USE DEF IInv
  <1>1. /\ phase = "read" /\ _read_match("audio") /\ phase' = "press"
        /\ first.does = "audio"
        /\ UNCHANGED <<route, going, profile, reported, calls, level, ended>>
        /\ first' = first
    BY DEF HearVolume, tickvars, volumes, first
  <1>2. /\ client' = "running" /\ owed' = <<>> /\ replies' = <<>>
        /\ replies[FirstOf("audio")] = Status("audio")
    BY <1>1, FirstAnswer DEF Waiting, Kinds
  <1>3. Status("audio").muted = muted /\ Status("audio").level = level
    BY DEF Status
  <1>4. /\ muted' = (muted # ((first.target = 0) # muted))
        /\ keys' = IF first.target = 0 THEN 0 ELSE logical_to_cec(first.target) - level
    BY <1>2, <1>3 DEF HearVolume, Toggle
  <1>5. calls # <<>> /\ first.target \in Volumes
    BY <1>1, Nonempty DEF Conducted, Calls
  <1>6. /\ logical_to_cec(first.target) \in VolumeMin .. VolumeMax
        /\ level \in VolumeMin .. VolumeMax /\ muted \in BOOLEAN
    BY <1>5, ReceiverRange DEF TypeOK
  <1>7. muted' \in BOOLEAN /\ (muted' <=> first.target = 0)
    BY <1>4, <1>6
  <1>8. /\ keys' \in VolumeMin - VolumeMax .. VolumeMax - VolumeMin
        /\ first.target = 0 => keys' = 0
        /\ first.target # 0 => level + keys' = logical_to_cec(first.target)
    BY <1>4, <1>6, Scales
  <1>9. TypeOK'
    BY <1>1, <1>2, <1>7, <1>8 DEF TypeOK
  <1>10. Queue' /\ Conducted'
    BY <1>1, <1>5, <1>7, <1>8 DEF Queue, Conducted, Kinds
  <1>11. Answers'
    BY <1>1, <1>2 DEF Answers, Waiting
  <1> QED BY <1>9, <1>10, <1>11

LEMMA Pressing ==
  ASSUME IInv, Press
  PROVE  IInv'
  <1> USE DEF IInv
  <1>1. /\ phase = "press" /\ keys # 0
        /\ level' = IF keys > 0 THEN level + 1 ELSE level - 1
        /\ keys' = IF keys > 0 THEN keys - 1 ELSE keys + 1
        /\ UNCHANGED <<route, going, profile, reported, calls, phase, client, replies,
                       owed, muted, ended>>
        /\ first' = first
    BY DEF Press, tickvars, volumes, line, first
  <1>2. /\ first.target \in Volumes /\ first.target # 0
        /\ level + keys = logical_to_cec(first.target)
    BY <1>1, Nonempty DEF Conducted, Calls
  <1>3. /\ logical_to_cec(first.target) \in VolumeMin .. VolumeMax
        /\ level \in VolumeMin .. VolumeMax
        /\ keys \in VolumeMin - VolumeMax .. VolumeMax - VolumeMin
    BY <1>2, ReceiverRange DEF TypeOK
  <1>4. /\ level' \in VolumeMin .. VolumeMax
        /\ keys' \in VolumeMin - VolumeMax .. VolumeMax - VolumeMin
        /\ level' + keys' = logical_to_cec(first.target)
    BY <1>1, <1>2, <1>3, Scales
  <1>5. TypeOK'
    BY <1>1, <1>4 DEF TypeOK
  <1>6. Queue' /\ Conducted'
    BY <1>1, <1>2, <1>4 DEF Queue, Conducted
  <1>7. Answers'
    BY <1>1 DEF Answers, Waiting
  <1> QED BY <1>5, <1>6, <1>7

LEMMA Answering ==
  ASSUME IInv, Answer
  PROVE  IInv'
  <1> USE DEF IInv
  <1>1. /\ client = "running" /\ owed # <<>>
        /\ replies' = Append(replies, Status(Head(owed))) /\ owed' = Tail(owed)
        /\ UNCHANGED <<route, going, profile, reported, calls, phase, keys, client,
                       level, muted, ended>>
        /\ first' = first
    BY DEF Answer, Status, tickvars, volumes, receiver, first
  <1>2. Waiting /\ owed = <<first.does>> /\ replies = <<>>
    BY <1>1 DEF Answers
  <1>3. owed' = <<>> /\ replies' = <<Status(first.does)>>
    BY <1>1, <1>2
  <1>4. TypeOK'
    BY <1>1, <1>3 DEF TypeOK
  <1>5. Queue' /\ Conducted'
    BY <1>1 DEF Queue, Conducted
  <1>6. Status(first.does)' = Status(first.does)
    BY <1>1 DEF Status
  <1>7. Answers'
    BY <1>1, <1>2, <1>3, <1>6 DEF Answers, Waiting
  <1> QED BY <1>4, <1>5, <1>7

LEMMA Dying ==
  ASSUME IInv, ClientEnds
  PROVE  IInv'
  <1> USE DEF IInv
  <1>1. /\ client' = "exited"
        /\ UNCHANGED <<route, going, profile, reported, calls, phase, keys, replies, owed,
                       level, muted, ended>>
        /\ first' = first
    BY DEF ClientEnds, tickvars, volumes, receiver, first
  <1>2. TypeOK'
    BY <1>1 DEF TypeOK
  <1>3. Queue' /\ Conducted' /\ Answers'
    BY <1>1 DEF Queue, Conducted, Answers
  <1> QED BY <1>2, <1>3

-----------------------------------------------------------------------------
(* The theorems.                                                           *)

LEMMA Initially ==
  ASSUME Init
  PROVE  IInv
  <1> USE DEF Init
  <1>1. keys \in VolumeMin - VolumeMax .. VolumeMax - VolumeMin
    BY Scales
  <1>2. calls \in Seq(Calls) /\ owed \in Seq(Kinds)
    OBVIOUS
  <1>3. profile \in Volumes
    BY AmplifierAssumption DEF Volumes
  <1>4. TypeOK
    BY <1>1, <1>2, <1>3 DEF TypeOK, Routes
  <1>5. Queue /\ Conducted /\ Answers
    BY DEF Queue, Conducted, Answers, Tidy, NoTick, Waiting
  <1> QED BY <1>4, <1>5 DEF IInv

LEMMA Inductive ==
  ASSUME IInv, [Next]_vars
  PROVE  IInv'
  <1>1. CASE Next
    <2>1. CASE Dialogue
      BY <2>1, Opening, FailingToOpen, Failing, Questions, Standby, Waken, Hearing,
         Pressing, Setting, Closing DEF Dialogue
    <2> QED BY <1>1, <2>1, RequestArrives, PhoneArrives, EncoderArrives, TickActivates,
               DaemonArrives, Answering, Dying DEF Next
  <1>2. CASE UNCHANGED vars
    <2>1. /\ UNCHANGED <<route, going, profile, reported, calls, phase, keys, client,
                         replies, owed, level, muted, ended>>
          /\ first' = first
      BY <1>2 DEF vars, tickvars, volumes, line, receiver, first
    <2>2. TypeOK'
      BY <2>1 DEF IInv, TypeOK
    <2>3. Queue' /\ Conducted'
      BY <2>1 DEF IInv, Queue, Conducted
    <2>4. Answers'
      BY <2>1 DEF IInv, Answers, Waiting, Status
    <2> QED BY <2>2, <2>3, <2>4 DEF IInv
  <1> QED BY <1>1, <1>2

(* The invariant above: the queue, the dialogue and the answers of the     *)
(* client fit each other whatever hangs, dies or arrives meanwhile.        *)
THEOREM Invariance == Spec => []IInv
  <1>1. Init => IInv
    BY Initially
  <1>2. IInv /\ [Next]_vars => IInv'
    BY Inductive
  <1> QED BY <1>1, <1>2, PTL DEF Spec

(* The queue holds calls of its callers, every volume is one of its scale, *)
(* and the keys left to press never lead the receiver out of its range.    *)
THEOREM TypeCorrect == Spec => []TypeOK
  <1>1. IInv => TypeOK
    BY DEF IInv
  <1> QED BY <1>1, Invariance, PTL

(* What the end of a dialogue that asked twice leaves behind: its client   *)
(* is still there only if the second answer was read.                      *)
LEMMA Confirmed ==
  ASSUME Next, phase = "confirm", phase' = "open", client' = "running"
  PROVE  HearResult
  <1>1. Dialogue
    BY DEF Next, Request, bluetooth_volume_action, hardware_volume_action, Activate,
           Close, Beginning, Answer, ClientEnds
  <1> QED BY <1>1 DEF Dialogue, _open, OpenFails, Fails, Invalidate, Ask, Confirm,
                      SendQuestion, StillStandby, Awake, HearVolume, Press, CloseClient

(* SetMeansSet: a volume call that returns with an answer has set the      *)
(* receiver to what it was asked for, and reports what the receiver has.   *)
THEOREM CallsSetTheReceiver == Spec => SetMeansSet
  <1> DEFINE Step == phase = "confirm" /\ phase' = "open" /\ client' = "running" =>
                        /\ muted <=> first.target = 0
                        /\ first.target # 0 => level = logical_to_cec(first.target)
                        /\ reported' = IF muted THEN 0 ELSE cec_to_logical(level)
  <1>1. IInv /\ [Next]_vars => [Step]_vars
    <2> SUFFICES ASSUME IInv, Next, phase = "confirm", phase' = "open", client' = "running"
                 PROVE  /\ muted <=> first.target = 0
                        /\ first.target # 0 => level = logical_to_cec(first.target)
                        /\ reported' = IF muted THEN 0 ELSE cec_to_logical(level)
      OBVIOUS
    <2>1. HearResult
      BY Confirmed
    <2> QED BY <2>1, Result DEF Return
  <1> QED BY <1>1, Invariance, PTL DEF Spec, SetMeansSet

(* A status becomes local_phono only when the volume call of the tick has  *)
(* returned; with its client still in use, with an answer.                 *)
LEMMA RecordBegins ==
  ASSUME IInv, Next, route # "local_phono", route' = "local_phono", client' = "running"
  PROVE  HearResult /\ first.does = "audio" /\ first.who = "tick" /\ going = "local_phono"
  <1>1. Dialogue
    BY DEF Next, Request, bluetooth_volume_action, hardware_volume_action, Activate,
           activate_route, Close, Answer, ClientEnds, tickvars
  <1>2. \A ok \in BOOLEAN : \A heard :
           Return(ok, heard)
           => first.does = "audio" /\ first.who = "tick" /\ going = "local_phono"
    BY DEF Return, activate_route, tickvars
  <1>3. HearResult \/ OpenFails \/ Awake
    BY <1>1 DEF Dialogue, _open, Fails, Invalidate, Ask, Confirm, SendQuestion,
                StillStandby, HearVolume, Press, CloseClient, tickvars
  <1>4. ~OpenFails
    BY DEF OpenFails, line
  <1>5. ~Awake
    BY <1>2 DEF Awake
  <1>6. HearResult
    BY <1>3, <1>4, <1>5
  <1> QED BY <1>2, <1>6 DEF HearResult

(* RecordBeginsAtProfile: a record begins at the volume of records as it   *)
(* is then, although others turned and asked while the receiver woke.      *)
THEOREM RecordsBeginAtTheirVolume == Spec => RecordBeginsAtProfile
  <1> DEFINE Step == route # "local_phono" /\ route' = "local_phono" /\ client' = "running" =>
                        /\ muted <=> profile' = 0
                        /\ profile' # 0 => level = logical_to_cec(profile')
  <1>1. IInv /\ [Next]_vars => [Step]_vars
    <2> SUFFICES ASSUME IInv, Next, route # "local_phono", route' = "local_phono",
                        client' = "running"
                 PROVE  /\ muted <=> profile' = 0
                        /\ profile' # 0 => level = logical_to_cec(profile')
      OBVIOUS
    <2>1. HearResult /\ first.does = "audio" /\ first.who = "tick" /\ going = "local_phono"
      BY RecordBegins
    <2>2. /\ calls # <<>> /\ Return(TRUE, IF muted THEN 0 ELSE cec_to_logical(level))
          /\ muted <=> first.target = 0
          /\ first.target # 0 => level = logical_to_cec(first.target)
      BY <2>1, Result
    <2>3. first.target = profile
      BY <2>1, <2>2, TidyRemoved DEF IInv, Queue, TypeOK, first
    <2>4. profile' = profile
      BY <2>1, <2>2, NobodyElse DEF Return, Saves
    <2> QED BY <2>2, <2>3, <2>4
  <1> QED BY <1>1, Invariance, PTL DEF Spec, RecordBeginsAtProfile
=============================================================================
