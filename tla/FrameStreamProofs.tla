-------------------------- MODULE FrameStreamProofs --------------------------
(***************************************************************************)
(* Proofs about FrameStream, for any readers, capacities and length of the *)
(* source.                                                                 *)
(*                                                                         *)
(* A gap may still be anywhere on the way from the engine to a reader.     *)
(* The invariant follows the whole way: in the history and in the socket   *)
(* the frame after a gap is marked itself, the engine marks its next frame *)
(* unless the last one on the way is the interval just captured, and only  *)
(* in a queue, where marks are dropped too, may the mark come later.       *)
(***************************************************************************)
EXTENDS FrameStream, SequenceTheorems, TLAPS

(* The interval before frame i of a sequence that follows interval x, and  *)
(* the last interval of that sequence; 0 if there is none.                 *)
Before(s, x, i) == IF i = 1 THEN x ELSE s[i - 1].at
EndOf(s, x) == IF s = <<>> THEN x ELSE s[Len(s)].at

GapAt(s, x, i) == Before(s, x, i) # 0 /\ s[i].at # Before(s, x, i) + 1

TellsAtOnce(s, x) == \A i \in 1 .. Len(s) : GapAt(s, x, i) => s[i].discontinuity
TellsLater(s, x) == \A i \in 1 .. Len(s) : GapAt(s, x, i) => Marked(s, i)

(* What still comes after interval x tells a gap at once.                  *)
Upcoming(x) ==
    /\ TellsAtOnce(socket, x)
    /\ engine = "capture" /\ linked /\ ~mark => EndOf(socket, x) \in {0, captured}

(* The last interval the reader of a queue took.                           *)
Taken(s) == IF s # First THEN last[s] ELSE IF primary = Nobody THEN 0 ELSE last[primary]

Way ==
    /\ TypeOK
    /\ primary \in reading \cup {Nobody}
    /\ TellsAtOnce(history, 0) /\ Upcoming(EndOf(history, 0))
    /\ \A s \in Subscribers :
        TellsLater(queues[s], Taken(s)) /\ Upcoming(EndOf(queues[s], Taken(s)))
    /\ \A r \in reading : owed[r] => Marked(queues[Slot(r)], 1)

-----------------------------------------------------------------------------
(* Sequences of frames.                                                    *)

LEMMA Pushed ==
  ASSUME NEW s \in Seq(Frames), NEW f \in Frames
  PROVE  /\ Append(s, f) \in Seq(Frames) /\ Len(Append(s, f)) = Len(s) + 1 /\ Len(s) \in Nat
         /\ Append(s, f) # <<>>
         /\ Append(s, f)[Len(s) + 1] = f
         /\ \A i \in 1 .. Len(s) : Append(s, f)[i] = s[i] /\ s[i] \in Frames
  BY AppendProperties, ElementOfSeq, LenProperties

LEMMA Popped ==
  ASSUME NEW s \in Seq(Frames), s # <<>>
  PROVE  /\ Tail(s) \in Seq(Frames) /\ Len(Tail(s)) = Len(s) - 1 /\ Len(s) \in Nat /\ Len(s) > 0
         /\ Head(s) = s[1] /\ s[1] \in Frames
         /\ \A i \in 1 .. Len(s) - 1 : Tail(s)[i] = s[i + 1] /\ s[i + 1] \in Frames
         /\ Tail(s) = <<>> <=> Len(s) = 1
  <1>1. Len(s) \in Nat /\ Len(s) > 0 /\ \A i \in 1 .. Len(s) : s[i] \in Frames
    BY ElementOfSeq, LenProperties, EmptySeq
  <1>2. /\ Tail(s) \in Seq(Frames) /\ Len(Tail(s)) = Len(s) - 1 /\ Head(s) = s[1]
        /\ \A i \in 1 .. Len(s) - 1 : Tail(s)[i] = s[i + 1]
    BY <1>1, HeadTailProperties
  <1>3. Tail(s) = <<>> <=> Len(Tail(s)) = 0
    BY <1>2, EmptySeq
  <1> QED BY <1>1, <1>2, <1>3

LEMMA Frame ==
  ASSUME NEW f \in Frames
  PROVE  /\ f.at \in 1 .. MaxCaptured /\ f.at \in Nat /\ f.at # 0 /\ f.discontinuity \in BOOLEAN
         /\ [f EXCEPT !.discontinuity = TRUE] \in Frames
         /\ [f EXCEPT !.discontinuity = TRUE].at = f.at
         /\ [f EXCEPT !.discontinuity = TRUE].discontinuity
  <1>1. f.at \in 1 .. MaxCaptured /\ f.discontinuity \in BOOLEAN
    BY DEF Frames
  <1>2. /\ [f EXCEPT !.discontinuity = TRUE] \in Frames
        /\ [f EXCEPT !.discontinuity = TRUE].at = f.at
        /\ [f EXCEPT !.discontinuity = TRUE].discontinuity
    BY DEF Frames
  <1> QED BY <1>1, <1>2, StreamAssumption

LEMMA QueueTyped ==
  ASSUME NEW q \in AtMost(QueueFrames), NEW f \in Frames
  PROVE  Deliver(q, f) \in AtMost(QueueFrames) /\ Newest(Append(q, f)) \in AtMost(QueueFrames)
  <1>1. q \in Seq(Frames) /\ Len(q) \in Nat /\ Len(q) <= QueueFrames
    BY LenProperties DEF AtMost
  <1>2. CASE Len(q) < QueueFrames
    BY <1>1, <1>2, Pushed, StreamAssumption DEF AtMost, Deliver, Newest
  <1>3. CASE Len(q) = QueueFrames
    <2>1. q # <<>> /\ Append(q, f) \in Seq(Frames) /\ Append(q, f) # <<>>
          /\ Len(Append(q, f)) = QueueFrames + 1
      BY <1>1, <1>3, Pushed, StreamAssumption
    <2>2. Newest(Append(q, f)) = Tail(Append(q, f))
      BY <2>1, StreamAssumption DEF Newest
    <2>3. Newest(Append(q, f)) \in AtMost(QueueFrames)
      BY <2>1, <2>2, Popped, StreamAssumption DEF AtMost
    <2>4. Deliver(q, f) = Append(Tail(q), [f EXCEPT !.discontinuity = TRUE])
      BY <1>3, StreamAssumption DEF Deliver
    <2>5. Deliver(q, f) \in AtMost(QueueFrames)
      BY <1>1, <1>3, <2>1, <2>4, Popped, Pushed, Frame DEF AtMost
    <2> QED BY <2>3, <2>5
  <1> QED BY <1>1, <1>2, <1>3, StreamAssumption

LEMMA TailTyped ==
  ASSUME NEW n \in Nat, NEW q \in AtMost(n), q # <<>>
  PROVE  Tail(q) \in AtMost(n) /\ Head(q) \in Frames
  BY Popped DEF AtMost

LEMMA EmptyTyped == \A n \in Nat : <<>> \in AtMost(n)
  BY EmptySeq DEF AtMost

-----------------------------------------------------------------------------
(* Type correctness.                                                       *)

LEMMA InitTyped == Init => TypeOK
  <1> SUFFICES ASSUME Init PROVE TypeOK
    OBVIOUS
  <1>1. 0 \in 0 .. MaxCaptured
    BY StreamAssumption
  <1>2. <<>> \in AtMost(QueueFrames) /\ <<>> \in AtMost(SocketFrames)
    BY EmptyTyped, StreamAssumption
  <1> QED BY <1>1, <1>2 DEF Init, TypeOK

LEMMA EngineTyped ==
  ASSUME TypeOK, \/ open_capture \/ Send \/ Overrun \/ CaptureEnds \/ ClientGone \/ EngineDies
  PROVE  TypeOK'
  <1>1. CASE Send
    <2>1. socket' \in AtMost(SocketFrames)
      <3>1. captured' \in 1 .. MaxCaptured /\ mark \in BOOLEAN
        BY <1>1, StreamAssumption DEF Send, Elapse, TypeOK
      <3>2. [at |-> captured', discontinuity |-> mark] \in Frames
        BY <3>1 DEF Frames
      <3> QED BY <1>1, <3>2, Pushed, StreamAssumption DEF Send, TypeOK, AtMost
    <2>2. captured' \in 0 .. MaxCaptured /\ mark' \in BOOLEAN
      BY <1>1, StreamAssumption DEF Send, Elapse, TypeOK
    <2> QED BY <1>1, <2>1, <2>2 DEF Send, TypeOK, fanout, taken
  <1>2. CASE open_capture \/ Overrun
    <2>1. captured' \in 0 .. MaxCaptured
      BY <1>2, StreamAssumption DEF open_capture, Overrun, Elapse, TypeOK
    <2> QED BY <1>2, <2>1 DEF open_capture, Overrun, TypeOK, fanout, taken
  <1>3. CASE CaptureEnds \/ ClientGone \/ EngineDies
    BY <1>3 DEF CaptureEnds, ClientGone, EngineDies, TypeOK, fanout, taken
  <1> QED BY <1>1, <1>2, <1>3

LEMMA ClientTyped ==
  ASSUME TypeOK, Connect \/ ConnectionEnds \/ publish
  PROVE  TypeOK'
  <1>1. CASE Connect \/ ConnectionEnds
    BY <1>1, EmptyTyped, StreamAssumption DEF Connect, ConnectionEnds, TypeOK, native,
       fanout, taken
  <1>2. CASE publish
    <2>1. Head(socket) \in Frames /\ socket' \in AtMost(SocketFrames)
      BY <1>2, TailTyped, StreamAssumption DEF publish, TypeOK
    <2>2. history' \in AtMost(QueueFrames)
      BY <1>2, <2>1, QueueTyped DEF publish, TypeOK
    <2>3. DOMAIN queues' = Slots /\ \A s \in Slots : queues'[s] \in AtMost(QueueFrames)
      BY <1>2, <2>1, QueueTyped DEF publish, TypeOK
    <2> QED BY <1>2, <2>1, <2>2, <2>3 DEF publish, TypeOK, native, taken
  <1> QED BY <1>1, <1>2

LEMMA SlotTyped == \A r \in Readers : Slot(r) \in Slots
  BY DEF Slot, Slots

LEMMA ReaderTyped ==
  ASSUME TypeOK, NEW r \in Readers,
         Take(r) \/ Close(r) \/ \E replay \in BOOLEAN : frames(r, replay)
  PROVE  TypeOK'
  <1> USE DEF TypeOK
  <1>1. r \in Slots /\ Slot(r) \in Slots
    BY SlotTyped DEF Slots
  <1>2. CASE Take(r)
    <2>1. queues' = [queues EXCEPT ![Slot(r)] = Tail(@)] /\ queues[Slot(r)] # <<>>
      BY <1>2 DEF Take
    <2>2. Tail(queues[Slot(r)]) \in AtMost(QueueFrames) /\ Head(queues[Slot(r)]) \in Frames
      BY <1>1, <2>1, TailTyped, StreamAssumption
    <2>3. DOMAIN queues' = Slots /\ \A s \in Slots : queues'[s] \in AtMost(QueueFrames)
      BY <2>1, <2>2
    <2>4. last' \in [Readers -> 0 .. MaxCaptured]
      <3>1. last' = [last EXCEPT ![r] = Head(queues[Slot(r)]).at]
        BY <1>2 DEF Take
      <3>2. Head(queues[Slot(r)]).at \in 1 .. MaxCaptured
        BY <2>2, Frame
      <3>3. Head(queues[Slot(r)]).at \in 0 .. MaxCaptured
        BY <3>2, StreamAssumption
      <3> QED BY <3>1, <3>3
    <2>5. owed' \in [Readers -> BOOLEAN]
      <3>1. owed' = [owed EXCEPT ![r] = (@ \/ Gap(r, Head(queues[Slot(r)])))
                                          /\ ~Head(queues[Slot(r)]).discontinuity]
        BY <1>2 DEF Take
      <3> QED BY <3>1
    <2> QED BY <1>2, <2>3, <2>4, <2>5 DEF Take, native
  <1>3. ASSUME Reset(r)
        PROVE  last' \in [Readers -> 0 .. MaxCaptured] /\ owed' \in [Readers -> BOOLEAN]
    BY <1>3, StreamAssumption DEF Reset
  <1>4. CASE Close(r)
    <2>1. DOMAIN queues' = Slots /\ \A s \in Slots : queues'[s] \in AtMost(QueueFrames)
      BY <1>1, <1>4, EmptyTyped, StreamAssumption DEF Close
    <2> QED BY <1>3, <1>4, <2>1 DEF Close, native
  <1>5. ASSUME NEW replay \in BOOLEAN, frames(r, replay)
        PROVE  TypeOK'
    <2>1. DOMAIN queues' = Slots /\ \A s \in Slots : queues'[s] \in AtMost(QueueFrames)
      BY <1>1, <1>5, EmptyTyped, StreamAssumption DEF frames
    <2> QED BY <1>3, <1>5, <2>1 DEF frames, native
  <1> QED BY <1>2, <1>4, <1>5

LEMMA StepTyped == TypeOK /\ [Next]_vars => TypeOK'
  <1>1. TypeOK /\ UNCHANGED vars => TypeOK'
    BY DEF vars, native, fanout, taken, TypeOK
  <1> QED
    BY <1>1, EngineTyped, ClientTyped, ReaderTyped DEF Next

(* Every variable keeps its type: no queue exceeds its capacity.           *)
THEOREM TypeCorrect == Spec => []TypeOK
  <1>1. Init => TypeOK
    BY InitTyped
  <1>2. TypeOK /\ [Next]_vars => TypeOK'
    BY StepTyped
  <1> QED
    BY <1>1, <1>2, PTL DEF Spec

-----------------------------------------------------------------------------
(* Telling, along a sequence that grows at one end and shrinks at the      *)
(* other.                                                                  *)

LEMMA EndAt ==
  ASSUME NEW s \in Seq(Frames), NEW x \in Nat
  PROVE  EndOf(s, x) \in Nat /\ \A i \in 1 .. Len(s) : Before(s, x, i) \in Nat /\ s[i].at # 0
  <1>1. Len(s) \in Nat /\ (s # <<>> => Len(s) > 0)
    BY LenProperties, EmptySeq
  <1>2. \A i \in 1 .. Len(s) : s[i].at \in Nat /\ s[i].at # 0
    BY ElementOfSeq, Frame
  <1> QED BY <1>1, <1>2 DEF EndOf, Before

LEMMA PushTells ==
  ASSUME NEW s \in Seq(Frames), NEW x \in Nat, NEW f \in Frames,
         EndOf(s, x) # 0 /\ f.at # EndOf(s, x) + 1 => f.discontinuity
  PROVE  /\ EndOf(Append(s, f), x) = f.at
         /\ TellsAtOnce(s, x) => TellsAtOnce(Append(s, f), x)
         /\ TellsLater(s, x) => TellsLater(Append(s, f), x)
         /\ Marked(s, 1) \/ f.discontinuity => Marked(Append(s, f), 1)
  <1> DEFINE t == Append(s, f)
             n == Len(s)
  <1>1. /\ n \in Nat /\ Len(t) = n + 1 /\ t # <<>> /\ t[n + 1] = f
        /\ \A i \in 1 .. n : t[i] = s[i]
    BY Pushed
  <1>2. \A i \in 1 .. n : Before(t, x, i) = Before(s, x, i)
    BY <1>1 DEF Before
  <1>3. s # <<>> => n > 0
    BY EmptySeq
  <1>4. Before(t, x, n + 1) = EndOf(s, x)
    BY <1>1, <1>3, EmptySeq DEF Before, EndOf
  <1>5. GapAt(t, x, n + 1) => f.discontinuity
    BY <1>1, <1>4 DEF GapAt
  <1>6. \A i \in 1 .. n : GapAt(t, x, i) <=> GapAt(s, x, i)
    BY <1>1, <1>2 DEF GapAt
  <1>7. \A i \in 1 .. n : Marked(s, i) => Marked(t, i)
    BY <1>1 DEF Marked
  <1>8. f.discontinuity => \A i \in 1 .. n + 1 : Marked(t, i)
    BY <1>1 DEF Marked
  <1>9. EndOf(t, x) = f.at
    BY <1>1 DEF EndOf
  <1>10. TellsAtOnce(s, x) => TellsAtOnce(t, x)
    BY <1>1, <1>5, <1>6 DEF TellsAtOnce
  <1>11. TellsLater(s, x) => TellsLater(t, x)
    BY <1>1, <1>5, <1>6, <1>7, <1>8 DEF TellsLater
  <1>12. Marked(s, 1) => Marked(t, 1)
    BY <1>1 DEF Marked
  <1> QED BY <1>1, <1>8, <1>9, <1>10, <1>11, <1>12

LEMMA PopTells ==
  ASSUME NEW s \in Seq(Frames), NEW x \in Nat, s # <<>>
  PROVE  /\ EndOf(Tail(s), s[1].at) = EndOf(s, x)
         /\ TellsAtOnce(s, x) => TellsAtOnce(Tail(s), s[1].at)
         /\ TellsLater(s, x) => TellsLater(Tail(s), s[1].at)
         /\ Marked(s, 1) => s[1].discontinuity \/ Marked(Tail(s), 1)
  <1> DEFINE t == Tail(s)
             n == Len(s)
  <1>1. /\ n \in Nat /\ n > 0 /\ Len(t) = n - 1 /\ (t = <<>> <=> n = 1)
        /\ \A i \in 1 .. n - 1 : t[i] = s[i + 1]
    BY Popped
  <1>2. \A i \in 1 .. n - 1 : Before(t, s[1].at, i) = Before(s, x, i + 1)
    BY <1>1 DEF Before
  <1>3. \A i \in 1 .. n - 1 : GapAt(t, s[1].at, i) <=> GapAt(s, x, i + 1)
    BY <1>1, <1>2 DEF GapAt
  <1>4. ASSUME NEW i \in 1 .. n - 1, Marked(s, i + 1)
        PROVE  Marked(t, i)
    <2>1. PICK j \in i + 1 .. n : s[j].discontinuity
      BY <1>4 DEF Marked
    <2>2. j - 1 \in i .. n - 1 /\ t[j - 1] = s[j]
      BY <1>1, <2>1
    <2> QED BY <1>1, <2>1, <2>2 DEF Marked
  <1>5. Marked(s, 1) => s[1].discontinuity \/ Marked(t, 1)
    <2> SUFFICES ASSUME Marked(s, 1), ~s[1].discontinuity
                 PROVE  Marked(t, 1)
      OBVIOUS
    <2>1. PICK j \in 1 .. n : s[j].discontinuity
      BY DEF Marked
    <2>2. j \in 2 .. n /\ 1 \in 1 .. n - 1 /\ Marked(s, 2)
      BY <1>1, <2>1 DEF Marked
    <2> QED BY <1>4, <2>2
  <1>6. EndOf(t, s[1].at) = EndOf(s, x)
    <2>1. n # 1 => n - 1 \in 1 .. n - 1
      BY <1>1
    <2>2. n # 1 => t[n - 1] = s[n]
      BY <1>1, <2>1
    <2> QED BY <1>1, <2>2 DEF EndOf
  <1>7. TellsAtOnce(s, x) => TellsAtOnce(t, s[1].at)
    BY <1>1, <1>3 DEF TellsAtOnce
  <1>8. TellsLater(s, x) => TellsLater(t, s[1].at)
    BY <1>1, <1>3, <1>4 DEF TellsLater
  <1> QED BY <1>5, <1>6, <1>7, <1>8

(* A reader that took nothing yet has missed nothing.                      *)
LEMMA FreshTells ==
  ASSUME NEW s \in Seq(Frames), NEW x \in Nat
  PROVE  /\ TellsAtOnce(s, x) => TellsAtOnce(s, 0) /\ TellsLater(s, x)
         /\ TellsLater(s, x) => TellsLater(s, 0)
         /\ EndOf(s, 0) \in {0, EndOf(s, x)}
         /\ TellsAtOnce(<<>>, x) /\ TellsLater(<<>>, x) /\ EndOf(<<>>, x) = x
  <1>1. \A i : GapAt(s, 0, i) => GapAt(s, x, i)
    BY DEF GapAt, Before
  <1>2. Len(s) \in Nat /\ Len(<<>>) = 0
    BY EmptySeq, LenProperties
  <1>3. TellsAtOnce(s, x) => TellsLater(s, x)
    BY <1>2 DEF TellsAtOnce, TellsLater, Marked
  <1> QED
    BY <1>1, <1>2, <1>3 DEF TellsAtOnce, TellsLater, EndOf

(* What a queue drops, the frame that comes in its place tells.            *)
LEMMA DeliverTells ==
  ASSUME NEW q \in AtMost(QueueFrames), NEW x \in Nat, NEW f \in Frames,
         TellsLater(q, x), EndOf(q, x) # 0 /\ f.at # EndOf(q, x) + 1 => f.discontinuity
  PROVE  /\ TellsLater(Deliver(q, f), x) /\ EndOf(Deliver(q, f), x) = f.at
         /\ Marked(q, 1) => Marked(Deliver(q, f), 1)
  <1>1. q \in Seq(Frames) /\ Len(q) \in Nat
    BY LenProperties DEF AtMost
  <1>2. CASE Len(q) < QueueFrames
    BY <1>1, <1>2, PushTells DEF Deliver
  <1>3. CASE ~(Len(q) < QueueFrames)
    <2> DEFINE g == [f EXCEPT !.discontinuity = TRUE]
               n == Len(Tail(q)) + 1
    <2>1. Deliver(q, f) = Append(Tail(q), g)
      BY <1>3 DEF Deliver
    <2>2. g \in Frames /\ g.at = f.at /\ g.discontinuity
      BY Frame
    <2>3. Tail(q) \in Seq(Frames)
      BY <1>1, <1>3, Popped, EmptySeq, StreamAssumption
    <2>4. /\ n \in Nat /\ n > 0 /\ Len(Deliver(q, f)) = n /\ Deliver(q, f)[n] = g
          /\ Deliver(q, f) # <<>>
      BY <2>1, <2>2, <2>3, Pushed, LenProperties
    <2>5. \A i \in 1 .. n : Marked(Deliver(q, f), i)
      <3>1. \A i \in 1 .. n : n \in i .. Len(Deliver(q, f))
        BY <2>4
      <3>2. Deliver(q, f)[n].discontinuity
        BY <2>2, <2>4
      <3> HIDE DEF n
      <3> QED BY <3>1, <3>2 DEF Marked
    <2> QED BY <2>2, <2>4, <2>5 DEF TellsLater, EndOf
  <1> QED BY <1>2, <1>3

LEMMA NewestTells ==
  ASSUME NEW h \in Seq(Frames), NEW f \in Frames, TellsAtOnce(h, 0),
         EndOf(h, 0) # 0 /\ f.at # EndOf(h, 0) + 1 => f.discontinuity
  PROVE  TellsAtOnce(Newest(Append(h, f)), 0) /\ EndOf(Newest(Append(h, f)), 0) = f.at
  <1> DEFINE t == Append(h, f)
  <1>1. /\ t \in Seq(Frames) /\ t # <<>> /\ Len(t) \in Nat
        /\ TellsAtOnce(t, 0) /\ EndOf(t, 0) = f.at
    BY Pushed, PushTells, LenProperties
  <1>2. CASE Len(t) <= QueueFrames
    BY <1>1, <1>2, StreamAssumption DEF Newest
  <1>3. CASE Len(t) > QueueFrames
    <2>1. Newest(t) = Tail(t)
      BY <1>3 DEF Newest
    <2>4. Tail(t) # <<>> /\ Tail(t) \in Seq(Frames) /\ t[1] \in Frames
      <3> HIDE DEF t
      <3> QED BY <1>1, <1>3, Popped, StreamAssumption
    <2>5. t[1].at \in Nat
      BY <2>4, Frame
    <2>2. TellsAtOnce(Tail(t), t[1].at) /\ EndOf(Tail(t), t[1].at) = f.at
      BY <1>1, PopTells
    <2>3. EndOf(Tail(t), 0) = EndOf(Tail(t), t[1].at)
      BY <2>4 DEF EndOf
    <2> QED BY <2>1, <2>2, <2>3, <2>4, <2>5, FreshTells
  <1> QED BY <1>1, <1>2, <1>3, StreamAssumption

-----------------------------------------------------------------------------
(* The socket and the engine.                                              *)

LEMMA UpcomingFresh ==
  ASSUME TypeOK, NEW x \in Nat, Upcoming(x)
  PROVE  Upcoming(0)
  <1>1. socket \in Seq(Frames)
    BY DEF TypeOK, AtMost
  <1> QED BY <1>1, FreshTells DEF Upcoming

LEMMA UpcomingTold ==
  ASSUME TypeOK, NEW x \in Nat, Upcoming(x), socket # <<>>
  PROVE  x # 0 /\ socket[1].at # x + 1 => socket[1].discontinuity
  <1>1. 1 \in 1 .. Len(socket)
    BY Popped DEF TypeOK, AtMost
  <1> QED BY <1>1 DEF Upcoming, TellsAtOnce, GapAt, Before

(* A received frame is the last thing its readers are sent.                *)
LEMMA UpcomingReceived ==
  ASSUME TypeOK, NEW x \in Nat, Upcoming(x), publish, NEW y \in Nat, y = socket[1].at
  PROVE  Upcoming(y)'
  <1>1. socket \in Seq(Frames) /\ socket # <<>> /\ socket' = Tail(socket)
    BY DEF TypeOK, AtMost, publish
  <1>2. TellsAtOnce(Tail(socket), y) /\ EndOf(Tail(socket), y) = EndOf(socket, x)
    BY <1>1, PopTells DEF Upcoming
  <1> QED BY <1>1, <1>2 DEF Upcoming, publish, native

(* Whatever the engine and the connection do, what comes next tells.       *)
LEMMA UpcomingKept ==
  ASSUME TypeOK, NEW x \in Nat, Upcoming(x),
         \/ open_capture \/ Send \/ Overrun \/ CaptureEnds \/ ClientGone \/ EngineDies
         \/ Connect \/ ConnectionEnds \/ UNCHANGED <<native, linked, socket>>
  PROVE  Upcoming(x)'
  <1>1. CASE Send
    <2> DEFINE f == [at |-> captured', discontinuity |-> mark]
    <2>1. captured' \in 1 .. MaxCaptured /\ captured' = captured + 1 /\ captured \in Nat
      BY <1>1, StreamAssumption DEF Send, Elapse, TypeOK
    <2>2. socket \in Seq(Frames) /\ f \in Frames /\ f.at = captured + 1
          /\ f.discontinuity = mark
      BY <2>1 DEF TypeOK, AtMost, Frames
    <2>3. CASE Len(socket) < SocketFrames
      <3>1. socket' = Append(socket, f) /\ ~mark'
        BY <1>1, <2>3 DEF Send
      <3>2. EndOf(socket, x) # 0 /\ f.at # EndOf(socket, x) + 1 => f.discontinuity
        BY <1>1, <2>1, <2>2 DEF Upcoming, Send
      <3>3. EndOf(socket', x) = captured' /\ TellsAtOnce(socket', x)
        BY <2>1, <2>2, <3>1, <3>2, PushTells DEF Upcoming
      <3> QED BY <3>3 DEF Upcoming
    <2>4. CASE ~(Len(socket) < SocketFrames)
      <3>1. socket' = socket /\ mark'
        BY <1>1, <2>4 DEF Send
      <3> QED BY <3>1 DEF Upcoming
    <2> QED BY <2>3, <2>4
  <1>2. CASE open_capture \/ Overrun
    BY <1>2 DEF open_capture, Overrun, Upcoming
  <1>3. CASE CaptureEnds \/ ClientGone \/ EngineDies
    BY <1>3 DEF CaptureEnds, ClientGone, EngineDies, Upcoming
  <1>4. CASE Connect \/ ConnectionEnds
    <2>1. socket' = <<>> /\ ~(engine' = "capture" /\ linked')
      BY <1>4 DEF Connect, ConnectionEnds
    <2>2. TellsAtOnce(socket', x)
      BY <2>1, FreshTells, EmptySeq
    <2> QED BY <2>1, <2>2 DEF Upcoming
  <1>5. CASE UNCHANGED <<native, linked, socket>>
    BY <1>5 DEF native, Upcoming
  <1> QED BY <1>1, <1>2, <1>3, <1>4, <1>5

-----------------------------------------------------------------------------
(* The way of every frame.                                                 *)

LEMMA SlotsApart ==
  ASSUME TypeOK
  PROVE  /\ \A r, q \in Readers : Slot(r) = Slot(q) => r = q
         /\ \A r \in Readers : r # First /\ r # Nobody
         /\ primary \in reading \cup {Nobody} => \A r \in reading : Slot(r) \in Subscribers
         /\ \A r \in Readers : Taken(Slot(r)) = last[r]
         /\ Subscribers \subseteq Slots
  BY StreamAssumption DEF Slot, Subscribers, Taken, Slots, TypeOK, First, Nobody

LEMMA InitWay == Init => Way
  <1> SUFFICES ASSUME Init PROVE Way
    OBVIOUS
  <1>1. \A x : TellsAtOnce(<<>>, x) /\ TellsLater(<<>>, x) /\ EndOf(<<>>, x) = x
    BY EmptySeq DEF TellsAtOnce, TellsLater, EndOf
  <1>2. \A x : Upcoming(x)
    BY <1>1 DEF Init, Upcoming
  <1>3. \A s \in Subscribers : queues[s] = <<>>
    BY DEF Init, Subscribers, Slots
  <1> QED BY <1>1, <1>2, <1>3, InitTyped DEF Init, Way

(* The readers' side stays while the engine and the connection change.     *)
LEMMA EngineWay ==
  ASSUME Way, UNCHANGED <<fanout, taken>>,
         \/ open_capture \/ Send \/ Overrun \/ CaptureEnds \/ ClientGone \/ EngineDies
         \/ Connect \/ ConnectionEnds \/ UNCHANGED <<native, linked, socket>>,
         TypeOK'
  PROVE  Way'
  <1>1. \A x \in Nat : Upcoming(x) => Upcoming(x)'
    BY UpcomingKept DEF Way
  <1>2. history \in Seq(Frames) /\ \A s \in Slots : queues[s] \in Seq(Frames)
    BY DEF Way, TypeOK, AtMost
  <1>3. \A s \in Subscribers : s \in Slots /\ Taken(s) \in Nat
    BY StreamAssumption, SlotsApart DEF Subscribers, Slots, Taken, Way, TypeOK
  <1>4. Upcoming(EndOf(history, 0))'
    BY <1>1, <1>2, EndAt DEF Way, fanout
  <1>5. \A s \in Subscribers : Upcoming(EndOf(queues[s], Taken(s)))'
    <2> TAKE s \in Subscribers
    <2>1. EndOf(queues[s], Taken(s)) \in Nat
      BY <1>2, <1>3, EndAt
    <2>2. EndOf(queues[s], Taken(s))' = EndOf(queues[s], Taken(s))
      BY DEF fanout, taken, Taken, EndOf
    <2> QED BY <1>1, <2>1, <2>2 DEF Way
  <1>6. Subscribers' = Subscribers /\ \A s : Taken(s)' = Taken(s)
    BY DEF fanout, taken, Subscribers, Taken
  <1> QED
    BY <1>4, <1>5, <1>6 DEF Way, fanout, taken, Slot

LEMMA PublishWay ==
  ASSUME Way, publish, TypeOK'
  PROVE  Way'
  <1> DEFINE f == Head(socket)
  <1>1. socket # <<>> /\ f = socket[1] /\ f \in Frames /\ f.at \in Nat
    <2>1. socket # <<>> /\ socket \in Seq(Frames)
      BY DEF Way, TypeOK, AtMost, publish
    <2>2. f = socket[1] /\ f \in Frames
      BY <2>1, Popped
    <2> QED BY <2>1, <2>2, Frame
  <1>2. \A y : y = f.at => Upcoming(y)'
    <2>1. history \in Seq(Frames)
      BY DEF Way, TypeOK, AtMost
    <2> QED BY <1>1, <2>1, EndAt, UpcomingReceived DEF Way, publish
  <1>3. TellsAtOnce(history, 0)' /\ EndOf(history, 0)' = f.at
    <2>1. history \in Seq(Frames) /\ history' = Newest(Append(history, f))
      BY DEF Way, TypeOK, AtMost, publish
    <2>2. EndOf(history, 0) # 0 /\ f.at # EndOf(history, 0) + 1 => f.discontinuity
      BY <1>1, <2>1, EndAt, UpcomingTold DEF Way
    <2> QED BY <1>1, <2>1, <2>2, NewestTells DEF Way
  <1>4. /\ Subscribers' = Subscribers /\ \A s : Taken(s)' = Taken(s)
        /\ UNCHANGED <<primary, reading, owed>> /\ \A r : Slot(r)' = Slot(r)
    BY DEF publish, taken, Subscribers, Taken, Slot
  <1>5. ASSUME NEW s \in Subscribers
        PROVE  /\ TellsLater(queues'[s], Taken(s)) /\ EndOf(queues'[s], Taken(s)) = f.at
               /\ Marked(queues[s], 1) => Marked(queues'[s], 1)
    <2>1. s \in Slots /\ Taken(s) \in Nat /\ queues[s] \in AtMost(QueueFrames)
      BY StreamAssumption, SlotsApart DEF Subscribers, Slots, Taken, Way, TypeOK
    <2>2. queues'[s] = Deliver(queues[s], f)
      BY <2>1 DEF publish
    <2>3. EndOf(queues[s], Taken(s)) # 0 /\ f.at # EndOf(queues[s], Taken(s)) + 1
            => f.discontinuity
      BY <1>1, <2>1, EndAt, UpcomingTold DEF Way, AtMost
    <2> QED BY <1>1, <2>1, <2>2, <2>3, DeliverTells DEF Way
  <1>6. \A r \in reading : Slot(r) \in Subscribers
    BY SlotsApart DEF Way, TypeOK
  <1>7. Upcoming(EndOf(history, 0))'
    BY <1>2, <1>3
  <1>8. \A s \in Subscribers : Upcoming(EndOf(queues[s], Taken(s)))'
    <2> TAKE s \in Subscribers
    <2>1. EndOf(queues[s], Taken(s))' = f.at
      BY <1>4, <1>5
    <2> QED BY <1>2, <2>1
  <1>9. \A s \in Subscribers : TellsLater(queues[s], Taken(s))'
    BY <1>4, <1>5
  <1>10. \A r \in reading : owed[r] => Marked(queues'[Slot(r)], 1)
    BY <1>5, <1>6 DEF Way
  <1> QED
    BY <1>3, <1>4, <1>7, <1>8, <1>9, <1>10 DEF Way

(* Nothing but the reader moves: it takes the first frame of its queue.    *)
LEMMA TakeWay ==
  ASSUME Way, NEW r \in Readers, Take(r), TypeOK'
  PROVE  Way'
  <1> DEFINE q == queues[Slot(r)]
             f == Head(q)
  <1>1. /\ r \in reading /\ q # <<>> /\ UNCHANGED <<native, linked, socket, history, primary, reading>>
        /\ Slot(r) \in Subscribers /\ Slot(r) \in Slots /\ Taken(Slot(r)) = last[r]
    BY SlotsApart DEF Take, Way
  <1>2. q \in Seq(Frames) /\ f = q[1] /\ f \in Frames
    BY <1>1, Popped DEF Way, TypeOK, AtMost
  <1>3. queues'[Slot(r)] = Tail(q) /\ \A s \in Slots : s # Slot(r) => queues'[s] = queues[s]
    BY <1>1 DEF Take, Way, TypeOK
  <1>4. last'[r] = f.at /\ \A p \in Readers : p # r => last'[p] = last[p] /\ owed'[p] = owed[p]
    BY DEF Take, Way, TypeOK
  <1>5. Subscribers' = Subscribers /\ \A p : Slot(p)' = Slot(p)
    BY <1>1 DEF Subscribers, Slot
  <1>6. \A x : Upcoming(x)' <=> Upcoming(x)
    BY <1>1 DEF Upcoming, native
  <1>7. Upcoming(EndOf(history, 0))'
    BY <1>1, <1>6 DEF Way
  <1>8. \A s : s = Slot(r) => Taken(s)' = f.at
    <2>1. Slot(r) = r \/ (Slot(r) = First /\ primary = r)
      BY DEF Slot
    <2>2. r # First /\ r # Nobody
      BY SlotsApart DEF Way
    <2> QED BY <1>1, <1>4, <2>1, <2>2 DEF Taken, Slot
  <1>9. \A s \in Subscribers : s # Slot(r) => Taken(s)' = Taken(s)
    <2> SUFFICES ASSUME NEW s \in Subscribers, s # Slot(r)
                 PROVE  Taken(s)' = Taken(s)
      OBVIOUS
    <2>1. CASE s = First
      BY <1>1, <1>4, <2>1 DEF Taken, Slot, Way, TypeOK
    <2>2. CASE s # First
      BY <1>1, <1>4, <2>2 DEF Taken, Slot, Subscribers, Way, TypeOK
    <2> QED BY <2>1, <2>2
  <1>10. last[r] \in Nat
    BY StreamAssumption DEF Way, TypeOK
  <1>11. /\ EndOf(Tail(q), f.at) = EndOf(q, last[r]) /\ TellsLater(Tail(q), f.at)
         /\ Marked(q, 1) => f.discontinuity \/ Marked(Tail(q), 1)
    BY <1>1, <1>2, <1>10, PopTells DEF Way
  <1>12. ASSUME NEW s \in Subscribers
         PROVE  TellsLater(queues[s], Taken(s))' /\ Upcoming(EndOf(queues[s], Taken(s)))'
    <2>1. CASE s = Slot(r)
      <3>1. EndOf(queues[s], Taken(s))' = EndOf(queues[s], Taken(s))
        BY <1>1, <1>3, <1>8, <1>11, <2>1 DEF EndOf
      <3>2. TellsLater(queues[s], Taken(s))'
        <4>1. queues'[s] = Tail(q) /\ Taken(s)' = f.at
          BY <1>3, <1>8, <2>1
        <4> QED BY <1>11, <4>1
      <3> QED BY <1>6, <3>1, <3>2 DEF Way
    <2>2. CASE s # Slot(r)
      <3>1. s \in Slots
        BY SlotsApart DEF Way
      <3>2. queues'[s] = queues[s] /\ Taken(s)' = Taken(s)
        BY <1>3, <1>9, <2>2, <3>1
      <3>3. EndOf(queues[s], Taken(s))' = EndOf(queues[s], Taken(s))
        BY <3>2
      <3> QED BY <1>6, <3>2, <3>3 DEF Way
    <2> QED BY <2>1, <2>2
  <1>13. ASSUME NEW p \in reading, owed'[p]
         PROVE  Marked(queues'[Slot(p)], 1)
    <2>1. CASE p = r
      <3>1. owed'[r] <=> (owed[r] \/ Gap(r, f)) /\ ~f.discontinuity
        BY DEF Take, Way, TypeOK
      <3>2. Gap(r, f) => GapAt(q, last[r], 1)
        BY <1>2 DEF Gap, GapAt, Before
      <3>3. 1 \in 1 .. Len(q)
        BY <1>1, <1>2, Popped
      <3>4. Gap(r, f) => Marked(q, 1)
        BY <1>1, <3>2, <3>3 DEF Way, TellsLater
      <3> QED BY <1>1, <1>3, <1>11, <1>13, <2>1, <3>1, <3>4 DEF Way
    <2>2. CASE p # r
      <3>1. p \in Readers
        BY DEF Way, TypeOK
      <3>2. Slot(p) # Slot(r) /\ Slot(p) \in Slots
        BY <2>2, <3>1, SlotsApart, SlotTyped DEF Way
      <3>3. queues'[Slot(p)] = queues[Slot(p)] /\ owed'[p] = owed[p]
        BY <1>3, <1>4, <2>2, <3>1, <3>2
      <3> QED BY <1>13, <3>3 DEF Way
    <2> QED BY <2>1, <2>2
  <1> QED
    BY <1>1, <1>5, <1>7, <1>12, <1>13 DEF Way

(* A reader comes or goes: it took nothing and misses nothing, and the     *)
(* queues of the others are as they were.                                  *)
LEMMA AudienceWay ==
  ASSUME Way, NEW r \in Readers, UNCHANGED <<native, linked, socket, history>>, Reset(r),
         TypeOK',
         primary' \in reading' \cup {Nobody}, reading' \in {reading \cup {r}, reading \ {r}},
         \A s \in Subscribers' :
            \/ /\ s \in Subscribers /\ queues'[s] = queues[s]
               /\ Taken(s)' \in {0, Taken(s)}
            \/ Taken(s)' = 0 /\ queues'[s] \in {<<>>, history},
         \A p \in reading' \ {r} :
            p \in reading /\ queues'[Slot(p)'] = queues[Slot(p)]
  PROVE  Way'
  <1>1. \A x : Upcoming(x)' <=> Upcoming(x)
    BY DEF Upcoming, native
  <1>2. Upcoming(EndOf(history, 0))'
    BY <1>1 DEF Way
  <1>3. history \in Seq(Frames) /\ EndOf(history, 0) \in Nat
    BY EndAt DEF Way, TypeOK, AtMost
  <1>4. Upcoming(0)
    BY <1>3, UpcomingFresh DEF Way
  <1>5. ASSUME NEW s \in Subscribers'
        PROVE  TellsLater(queues[s], Taken(s))' /\ Upcoming(EndOf(queues[s], Taken(s)))'
    <2>1. CASE s \in Subscribers /\ queues'[s] = queues[s] /\ Taken(s)' \in {0, Taken(s)}
      <3>1. queues[s] \in Seq(Frames) /\ Taken(s) \in Nat
        BY <2>1, StreamAssumption, SlotsApart DEF Subscribers, Slots, Taken, Way, TypeOK, AtMost
      <3>2. TellsLater(queues[s], Taken(s)) /\ Upcoming(EndOf(queues[s], Taken(s)))
        BY <2>1 DEF Way
      <3>3. TellsLater(queues'[s], Taken(s)')
        BY <2>1, <3>1, <3>2, FreshTells
      <3>4. EndOf(queues'[s], Taken(s)') \in {0, EndOf(queues[s], Taken(s))}
        BY <2>1, <3>1, FreshTells
      <3>5. \A x : x = EndOf(queues'[s], Taken(s)') => Upcoming(x)
        BY <1>4, <3>2, <3>4
      <3> QED BY <1>1, <3>3, <3>5
    <2>2. CASE Taken(s)' = 0 /\ queues'[s] \in {<<>>, history}
      <3>1. TellsLater(queues'[s], Taken(s)')
        BY <1>3, <2>2, FreshTells DEF Way
      <3>2. EndOf(queues'[s], Taken(s)') \in {0, EndOf(history, 0)}
        BY <2>2 DEF EndOf
      <3>3. \A x : x = EndOf(queues'[s], Taken(s)') => Upcoming(x)
        BY <1>4, <3>2 DEF Way
      <3> QED BY <1>1, <3>1, <3>3
    <2> QED BY <2>1, <2>2
  <1>6. ASSUME NEW p \in reading', owed'[p]
        PROVE  Marked(queues'[Slot(p)'], 1)
    <2>1. p # r
      BY <1>6 DEF Reset, Way, TypeOK
    <2>2. owed'[p] = owed[p]
      BY <2>1 DEF Reset, Way, TypeOK
    <2> QED BY <1>6, <2>1, <2>2 DEF Way
  <1> QED
    BY <1>2, <1>5, <1>6 DEF Way

LEMMA CloseWay ==
  ASSUME Way, NEW r \in Readers, Close(r), TypeOK'
  PROVE  Way'
  <1>1. /\ reading' = reading \ {r} /\ Reset(r) /\ r \in reading
        /\ primary' = IF primary = r THEN Nobody ELSE primary
        /\ \A s \in Slots : queues'[s] = IF s = Slot(r) THEN <<>> ELSE queues[s]
        /\ UNCHANGED <<native, linked, socket, history>>
    <2>1. queues' = [queues EXCEPT ![Slot(r)] = <<>>] /\ Slot(r) \in Slots /\ DOMAIN queues = Slots
      BY SlotTyped DEF Close, Way, TypeOK
    <2>2. \A s \in Slots : queues'[s] = IF s = Slot(r) THEN <<>> ELSE queues[s]
      BY <2>1
    <2> QED BY <2>2 DEF Close
  <1>2. \A p \in Readers : p # r => last'[p] = last[p]
    BY <1>1 DEF Reset, Way, TypeOK
  <1>3. (\A p \in Readers : p # First /\ p # Nobody) /\ reading \subseteq Readers /\ First # Nobody
    BY SlotsApart DEF Way, TypeOK, First, Nobody
  <1>4. \A p \in reading' \ {r} :
          p \in reading /\ Slot(p)' = Slot(p) /\ Slot(p) # Slot(r) /\ Slot(p) \in Slots
    BY <1>1, <1>3 DEF Slot, Slots
  <1>5. ASSUME NEW s \in Subscribers'
        PROVE  \/ /\ s \in Subscribers /\ queues'[s] = queues[s]
                  /\ Taken(s)' \in {0, Taken(s)}
               \/ Taken(s)' = 0 /\ queues'[s] \in {<<>>, history}
    <2>1. s \in Subscribers /\ s \in Slots
      BY <1>1, <1>3 DEF Subscribers, Slots
    <2>2. CASE s = Slot(r)
      <3>1. s = First /\ primary = r
        BY <1>1, <1>3, <2>1, <2>2 DEF Slot, Subscribers
      <3> QED BY <1>1, <2>1, <2>2, <3>1 DEF Taken
    <2>3. CASE s # Slot(r)
      <3>1. CASE s = First
        <4>1. primary # r
          BY <2>3, <3>1 DEF Slot
        <4> QED BY <1>1, <1>2, <2>1, <2>3, <3>1, <4>1 DEF Taken, Way, TypeOK
      <3>2. CASE s # First
        <4>1. s \in reading /\ s # r
          BY <1>1, <3>2 DEF Subscribers
        <4> QED BY <1>1, <1>2, <1>3, <2>1, <2>3, <3>2, <4>1 DEF Taken
      <3> QED BY <3>1, <3>2
    <2> QED BY <2>2, <2>3
  <1>6. primary' \in reading' \cup {Nobody}
    BY <1>1 DEF Way
  <1>7. \A p \in reading' \ {r} : p \in reading /\ queues'[Slot(p)'] = queues[Slot(p)]
    BY <1>1, <1>4
  <1> QED
    BY <1>1, <1>5, <1>6, <1>7, AudienceWay

LEMMA framesWay ==
  ASSUME Way, NEW r \in Readers, NEW replay \in BOOLEAN, frames(r, replay), TypeOK'
  PROVE  Way'
  <1>1. /\ reading' = reading \cup {r} /\ Reset(r) /\ r \notin reading
        /\ UNCHANGED <<native, linked, socket, history>>
        /\ primary' = IF primary = Nobody THEN r ELSE primary
        /\ \A s \in Slots : s # r => queues'[s] = queues[s]
        /\ IF primary = Nobody THEN queues'[r] = queues[r] ELSE queues'[r] \in {<<>>, history}
    <2>1. CASE primary = Nobody
      BY <2>1 DEF frames
    <2>2. CASE primary # Nobody
      <3>1. /\ queues' = [queues EXCEPT ![r] = IF replay THEN history ELSE <<>>]
            /\ r \in Slots /\ DOMAIN queues = Slots
        BY <2>2 DEF frames, Way, TypeOK, Slots
      <3>2. /\ queues'[r] \in {<<>>, history}
            /\ \A s \in Slots : s # r => queues'[s] = queues[s]
        BY <3>1
      <3> QED BY <2>2, <3>2 DEF frames
    <2> QED BY <2>1, <2>2
  <1>2. \A p \in Readers : last'[p] = IF p = r THEN 0 ELSE last[p]
    BY <1>1 DEF Reset, Way, TypeOK
  <1>3. (\A p \in Readers : p # First /\ p # Nobody) /\ reading \subseteq Readers /\ First # Nobody /\ primary # r
    BY <1>1, SlotsApart DEF Way, TypeOK, First, Nobody
  <1>4. \A p \in reading' \ {r} :
          p \in reading /\ Slot(p)' = Slot(p) /\ Slot(p) # r /\ Slot(p) \in Slots
    BY <1>1, <1>3 DEF Slot, Slots, Way
  <1>5. ASSUME NEW s \in Subscribers'
        PROVE  \/ /\ s \in Subscribers /\ queues'[s] = queues[s]
                  /\ Taken(s)' \in {0, Taken(s)}
               \/ Taken(s)' = 0 /\ queues'[s] \in {<<>>, history}
    <2>1. s = First \/ s \in reading'
      BY DEF Subscribers
    <2>2. CASE s = First
      <3>1. queues'[s] = queues[s] /\ s \in Subscribers
        BY <1>1, <1>3, <2>2 DEF Subscribers, Slots
      <3>2. CASE primary = Nobody
        <4>1. primary' = r /\ last'[r] = 0
          BY <1>1, <1>2, <3>2
        <4>2. Taken(s)' = 0
          BY <1>3, <2>2, <4>1 DEF Taken
        <4> QED BY <3>1, <4>2
      <3>3. CASE primary # Nobody
        <4>1. primary \in Readers /\ last'[primary] = last[primary] /\ primary' = primary
          BY <1>1, <1>2, <1>3, <3>3 DEF Way
        <4> QED BY <1>3, <2>2, <3>1, <3>3, <4>1 DEF Taken
      <3> QED BY <3>2, <3>3
    <2>3. CASE s = r
      <3>1. primary # Nobody
        BY <1>1, <1>3, <2>3 DEF Subscribers
      <3> QED BY <1>1, <1>2, <1>3, <2>3, <3>1 DEF Taken
    <2>4. CASE s # First /\ s # r
      <3>1. s \in reading /\ s \in Subscribers /\ s \in Slots
        BY <1>1, <1>3, <2>1, <2>4 DEF Subscribers, Slots
      <3> QED BY <1>1, <1>2, <1>3, <2>4, <3>1 DEF Taken
    <2> QED BY <2>1, <2>2, <2>3, <2>4
  <1>6. primary' \in reading' \cup {Nobody}
    BY <1>1 DEF Way
  <1>7. \A p \in reading' \ {r} : p \in reading /\ queues'[Slot(p)'] = queues[Slot(p)]
    BY <1>1, <1>4
  <1> QED
    BY <1>1, <1>5, <1>6, <1>7, AudienceWay

LEMMA StepWay == Way /\ [Next]_vars => Way'
  <1> SUFFICES ASSUME Way, [Next]_vars PROVE Way'
    OBVIOUS
  <1>1. TypeOK'
    BY StepTyped DEF Way
  <1>2. CASE \/ open_capture \/ Send \/ Overrun \/ CaptureEnds \/ ClientGone \/ EngineDies
             \/ Connect \/ ConnectionEnds \/ UNCHANGED vars
    <2>1. UNCHANGED <<fanout, taken>>
      BY <1>2 DEF open_capture, Send, Overrun, CaptureEnds, ClientGone, EngineDies, Connect,
         ConnectionEnds, vars
    <2> QED BY <1>1, <1>2, <2>1, EngineWay DEF vars
  <1>3. CASE publish
    BY <1>1, <1>3, PublishWay
  <1>4. ASSUME NEW r \in Readers,
               Take(r) \/ Close(r) \/ \E replay \in BOOLEAN : frames(r, replay)
        PROVE  Way'
    BY <1>1, <1>4, TakeWay, CloseWay, framesWay
  <1> QED
    BY <1>2, <1>3, <1>4 DEF Next

LEMMA WayTells == Way => LossIsTold
  <1> SUFFICES ASSUME Way, NEW r \in reading
               PROVE  /\ owed[r] => Marked(queues[Slot(r)], 1)
                      /\ TellsLater(queues[Slot(r)], last[r])
    BY DEF LossIsTold, TellsLater, GapAt, Before
  <1>1. Slot(r) \in Subscribers /\ Taken(Slot(r)) = last[r]
    BY SlotsApart DEF Way, TypeOK
  <1> QED BY <1>1 DEF Way

(* A reader learns of everything it misses, wherever it was lost.          *)
THEOREM LossesAreTold == Spec => []LossIsTold
  <1>1. Init => Way
    BY InitWay
  <1>2. Way /\ [Next]_vars => Way'
    BY StepWay
  <1>3. Way => LossIsTold
    BY WayTells
  <1> QED
    BY <1>1, <1>2, <1>3, PTL DEF Spec
=============================================================================
