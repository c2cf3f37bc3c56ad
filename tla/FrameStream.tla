---------------------------- MODULE FrameStream ----------------------------
(***************************************************************************)
(* The frames of one source from the capture of the native engine, through *)
(* its socket and the one connection of AudioEngineClient, to the readers  *)
(* of FrameFanout: the level monitor, the local player and the publisher.  *)
(*                                                                         *)
(* Captured intervals are numbered in the order of the source, also those  *)
(* that no frame carries: a gap is a number that is missing.  Sequence and *)
(* epoch, which only the counters of the fan-out read, and time stamps are *)
(* left out.  The engine is restarted by systemd, the client reconnects.   *)
(* Frames wait in the socket, which takes SocketFrames of them.            *)
(***************************************************************************)
EXTENDS Naturals, Sequences

CONSTANTS
    Readers,       \* consumers of the source
    QueueFrames,   \* queue_frames: what a subscriber and the history hold
    SocketFrames,  \* frames the socket takes while nobody reads it
    MaxCaptured    \* bound of the model: intervals of the source

Nobody == "nobody"
First == "first"

ASSUME StreamAssumption ==
    /\ QueueFrames \in Nat /\ QueueFrames >= 2 /\ SocketFrames \in Nat /\ MaxCaptured \in Nat
    /\ Readers \cap {Nobody, First} = {}

VARIABLES
    captured,  \* intervals of the source so far
    engine,    \* "accept": no client; "unavailable": no device; "capture"
    mark,      \* next_flags says discontinuity
    linked,    \* connected, as the client sees it
    socket,    \* frames sent and not received
    history,   \* _history
    queues,    \* the queues of _subscribers: the first one and the others
    primary,   \* who claimed the first queue
    reading,   \* readers with an open iterator
    last,      \* interval of the last frame a reader took, 0 if none
    owed       \* history of a reader: it took a frame after a gap, and no mark since

native == <<captured, engine, mark>>
fanout == <<history, queues, primary, reading>>
taken == <<last, owed>>
vars == <<native, linked, socket, fanout, taken>>

Slots == {First} \cup Readers
Frames == [at : 1 .. MaxCaptured, discontinuity : BOOLEAN]
AtMost(n) == {s \in Seq(Frames) : Len(s) <= n}

TypeOK ==
    /\ captured \in 0 .. MaxCaptured
    /\ engine \in {"accept", "unavailable", "capture"}
    /\ mark \in BOOLEAN /\ linked \in BOOLEAN
    /\ socket \in AtMost(SocketFrames)
    /\ history \in AtMost(QueueFrames)
    /\ DOMAIN queues = Slots /\ \A s \in Slots : queues[s] \in AtMost(QueueFrames)
    /\ primary \in Readers \cup {Nobody} /\ reading \subseteq Readers
    /\ last \in [Readers -> 0 .. MaxCaptured] /\ owed \in [Readers -> BOOLEAN]

Init ==
    /\ captured = 0 /\ engine = "accept" /\ mark = FALSE
    /\ linked = FALSE /\ socket = <<>>
    /\ history = <<>> /\ queues = [s \in Slots |-> <<>>]
    /\ primary = Nobody /\ reading = {}
    /\ last = [r \in Readers |-> 0] /\ owed = [r \in Readers |-> FALSE]

----------------------------------------------------------------------------
(* The engine.                                                             *)

Elapse == captured < MaxCaptured /\ captured' = captured + 1

(* The device is opened; what the source sent before is lost.              *)
open_capture ==
    /\ engine = "unavailable" /\ linked
    /\ Elapse
    /\ engine' = "capture" /\ mark' = TRUE
    /\ UNCHANGED <<linked, socket, fanout, taken>>

(* A frame carries the mark, or the mark waits for the next one.           *)
Send ==
    /\ engine = "capture" /\ linked
    /\ Elapse
    /\ LET sent == Len(socket) < SocketFrames IN
        /\ socket' = IF sent THEN Append(socket, [at |-> captured', discontinuity |-> mark])
                             ELSE socket
        /\ mark' = ~sent
    /\ UNCHANGED <<engine, linked, fanout, taken>>

(* An overrun the capture recovers from.                                   *)
Overrun ==
    /\ engine = "capture"
    /\ Elapse
    /\ mark' = TRUE
    /\ UNCHANGED <<engine, linked, socket, fanout, taken>>

(* One it does not recover from: the device is closed.                     *)
CaptureEnds ==
    /\ engine = "capture"
    /\ engine' = "unavailable"
    /\ UNCHANGED <<captured, mark, linked, socket, fanout, taken>>

(* The client is gone: seen by send or by poll.                            *)
ClientGone ==
    /\ engine # "accept" /\ ~linked
    /\ engine' = "accept"
    /\ UNCHANGED <<captured, mark, linked, socket, fanout, taken>>

(* External: the process dies.  What it sent can still be received.        *)
EngineDies ==
    /\ engine # "accept"
    /\ engine' = "accept"
    /\ UNCHANGED <<captured, mark, linked, socket, fanout, taken>>

----------------------------------------------------------------------------
(* The client.                                                             *)

(* A connection waits for the engine to leave the old one.                 *)
Connect ==
    /\ ~linked /\ engine = "accept"
    /\ linked' = TRUE /\ socket' = <<>>
    /\ engine' = "unavailable"
    /\ UNCHANGED <<captured, mark, fanout, taken>>

(* The end of the stream, or a packet that does not decode.                *)
ConnectionEnds ==
    /\ linked
    /\ \/ engine = "accept" /\ socket = <<>>
       \/ socket # <<>>
    /\ linked' = FALSE /\ socket' = <<>>
    /\ UNCHANGED <<native, fanout, taken>>

Newest(s) == IF Len(s) > QueueFrames THEN Tail(s) ELSE s

Subscribers == {First} \cup (reading \ {primary})

(* Mutant: a full queue drops its oldest frame without saying so.          *)
DeliverUnmarked(queue, frame) == Newest(Append(queue, frame))

(* Mutant: the oldest frame stays.                                         *)
DeliverUnbounded(queue, frame) == Append(queue, frame)

(* A full queue drops its oldest frame, and the new one says so.           *)
Deliver(queue, frame) ==
    IF Len(queue) < QueueFrames
    THEN Append(queue, frame)
    ELSE Append(Tail(queue), [frame EXCEPT !.discontinuity = TRUE])

publish ==
    /\ linked /\ socket # <<>>
    /\ LET frame == Head(socket) IN
        /\ history' = Newest(Append(history, frame))
        /\ queues' = [s \in Slots |-> IF s \in Subscribers THEN Deliver(queues[s], frame)
                                                           ELSE queues[s]]
    /\ socket' = Tail(socket)
    /\ UNCHANGED <<native, linked, primary, reading, taken>>

----------------------------------------------------------------------------
(* A reader.                                                               *)

Slot(r) == IF primary = r THEN First ELSE r

Reset(r) == last' = [last EXCEPT ![r] = 0] /\ owed' = [owed EXCEPT ![r] = FALSE]

(* The first queue has gathered frames since the start or the last claim;  *)
(* every other reader may ask for the newest frames of the history.        *)
frames(r, replay) ==
    /\ r \notin reading
    /\ reading' = reading \cup {r}
    /\ IF primary = Nobody
       THEN primary' = r /\ UNCHANGED queues
       ELSE /\ queues' = [queues EXCEPT ![r] = IF replay THEN history ELSE <<>>]
            /\ UNCHANGED primary
    /\ Reset(r)
    /\ UNCHANGED <<native, linked, socket, history>>

Gap(r, frame) == last[r] # 0 /\ frame.at # last[r] + 1

Take(r) ==
    /\ r \in reading /\ queues[Slot(r)] # <<>>
    /\ LET frame == Head(queues[Slot(r)]) IN
        /\ last' = [last EXCEPT ![r] = frame.at]
        /\ owed' = [owed EXCEPT ![r] = (@ \/ Gap(r, frame)) /\ ~frame.discontinuity]
    /\ queues' = [queues EXCEPT ![Slot(r)] = Tail(@)]
    /\ UNCHANGED <<native, linked, socket, history, primary, reading>>

(* The iterator is closed: the first queue is emptied, another is dropped. *)
Close(r) ==
    /\ r \in reading
    /\ reading' = reading \ {r}
    /\ queues' = [queues EXCEPT ![Slot(r)] = <<>>]
    /\ primary' = IF primary = r THEN Nobody ELSE primary
    /\ Reset(r)
    /\ UNCHANGED <<native, linked, socket, history>>

----------------------------------------------------------------------------
Next ==
    \/ open_capture \/ Send \/ Overrun \/ CaptureEnds \/ ClientGone \/ EngineDies
    \/ Connect \/ ConnectionEnds \/ publish
    \/ \E r \in Readers : Take(r) \/ Close(r) \/ \E replay \in BOOLEAN : frames(r, replay)

Spec == Init /\ [][Next]_vars

----------------------------------------------------------------------------
Marked(s, from) == \E j \in from .. Len(s) : s[j].discontinuity

(* A reader learns of every interval it did not get, wherever it was lost  *)
(* (overrun, full socket, lost connection, full queue) and whoever else    *)
(* reads: the frame after the gap is marked, or a later one on its way to  *)
(* the reader is, however many frames, marked ones too, are dropped again  *)
(* before the reader gets there.                                           *)
LossIsTold ==
    \A r \in reading :
        LET queue == queues[Slot(r)]
            before(i) == IF i = 1 THEN last[r] ELSE queue[i - 1].at
        IN  /\ owed[r] => Marked(queue, 1)
            /\ \A i \in 1 .. Len(queue) :
                before(i) # 0 /\ queue[i].at # before(i) + 1 => Marked(queue, i)

----------------------------------------------------------------------------
(* What the documents say and the code does not do.  TLC finds each of     *)
(* these violated; the README says how.                                    *)

(* The frame after a gap is the one that is marked.                        *)
GapIsMarked ==
    [][\A r \in Readers :
          last[r] # 0 /\ last'[r] \notin {0, last[r], last[r] + 1} => ~owed'[r]]_vars
=============================================================================
