------------------------ MODULE SendspinSourceProofs ------------------------
(***************************************************************************)
(* Proofs about SendspinSource, for any captures and any number of waiting *)
(* commands, in three layers of one inductive invariant each:              *)
(*                                                                         *)
(*   Safe     every configuration: the queue of the lock is the tasks that *)
(*            are at it, and the stream task owns the only open capture;   *)
(*   Plain    nobody calls select_source: every withdrawn request has a    *)
(*            stop behind it in the queue of the lock;                     *)
(*   Steady   the connection lasts besides: a request always has somebody  *)
(*            who serves it, and a stop waits for its capture alone.       *)
(***************************************************************************)
EXTENDS SendspinSource, SequenceTheorems, TLAPS

(***************************************************************************)
(* The queue of the lock.                                                  *)
(***************************************************************************)
InLock(t) == \E i \in DOMAIN streamLock : streamLock[i] = t

Ahead(t, u) ==
    \E i, j \in DOMAIN streamLock :
        i < j /\ streamLock[i] = t /\ streamLock[j] = u

Queued ==
    /\ streamLock \in Seq(Tasks)
    /\ \A i, j \in DOMAIN streamLock : streamLock[i] = streamLock[j] => i = j

(* A task enters at the end.                                               *)
LEMMA Entering ==
  ASSUME Queued, NEW t \in Tasks, ~InLock(t), streamLock' = Append(streamLock, t)
  PROVE  /\ Queued'
         /\ \A u : InLock(u)' <=> InLock(u) \/ u = t
         /\ \A u, v : Ahead(u, v)' <=> Ahead(u, v) \/ (InLock(u) /\ v = t)
         /\ \A u : Holds(u) => Holds(u)'
  <1>1. /\ streamLock' \in Seq(Tasks)
        /\ DOMAIN streamLock' = 1 .. Len(streamLock) + 1
        /\ DOMAIN streamLock = 1 .. Len(streamLock) /\ Len(streamLock) \in Nat
        /\ \A i \in DOMAIN streamLock : streamLock'[i] = streamLock[i]
        /\ streamLock'[Len(streamLock) + 1] = t
    BY DEF Queued
  <1>2. Queued'
    BY <1>1 DEF Queued, InLock
  <1>3. \A u : InLock(u)' <=> InLock(u) \/ u = t
    BY <1>1 DEF InLock
  <1>4. \A u, v : Ahead(u, v)' <=> Ahead(u, v) \/ (InLock(u) /\ v = t)
    BY <1>1, <1>2 DEF Ahead, InLock, Queued
  <1>5. \A u : Holds(u) => Holds(u)'
    BY <1>1 DEF Holds, Queued
  <1> QED BY <1>2, <1>3, <1>4, <1>5

(* The holder leaves at the front.                                         *)
LEMMA Releasing ==
  ASSUME Queued, NEW t, Holds(t), streamLock' = Tail(streamLock)
  PROVE  /\ Queued'
         /\ \A u : InLock(u)' <=> InLock(u) /\ u # t
         /\ \A u, v : Ahead(u, v)' <=> Ahead(u, v) /\ u # t
  <1>1. /\ streamLock' \in Seq(Tasks)
        /\ Len(streamLock) \in Nat \ {0}
        /\ DOMAIN streamLock' = 1 .. Len(streamLock) - 1
        /\ DOMAIN streamLock = 1 .. Len(streamLock)
        /\ \A i \in DOMAIN streamLock' : streamLock'[i] = streamLock[i + 1]
        /\ streamLock[1] = t
    BY EmptySeq DEF Queued, Holds
  <1>2. Queued'
    BY <1>1 DEF Queued
  <1>3. \A i \in DOMAIN streamLock : i # 1 =>
          i - 1 \in DOMAIN streamLock' /\ streamLock'[i - 1] = streamLock[i]
    BY <1>1
  <1>4. \A i \in DOMAIN streamLock' :
          /\ i + 1 \in DOMAIN streamLock /\ i + 1 # 1
          /\ streamLock'[i] = streamLock[i + 1]
    BY <1>1
  <1>5. \A i \in DOMAIN streamLock : streamLock[i] = t <=> i = 1
    BY <1>1 DEF Queued
  <1>6. \A u : InLock(u)' <=> InLock(u) /\ u # t
    <2>1. \A u : InLock(u)' => InLock(u) /\ u # t
      BY <1>4, <1>5 DEF InLock
    <2>2. \A u : InLock(u) /\ u # t => InLock(u)'
      BY <1>3, <1>5 DEF InLock
    <2> QED BY <2>1, <2>2
  <1>7. \A u, v : Ahead(u, v)' => Ahead(u, v) /\ u # t
    <2> SUFFICES ASSUME NEW u, NEW v,
                        NEW i \in DOMAIN streamLock', NEW j \in DOMAIN streamLock',
                        i < j, streamLock'[i] = u, streamLock'[j] = v
                 PROVE  Ahead(u, v) /\ u # t
      BY DEF Ahead
    <2>1. i + 1 < j + 1
      BY <1>1
    <2> QED BY <2>1, <1>4, <1>5 DEF Ahead
  <1>8. \A u, v : Ahead(u, v) /\ u # t => Ahead(u, v)'
    <2> SUFFICES ASSUME NEW u, NEW v, Ahead(u, v), u # t
                 PROVE  Ahead(u, v)'
      OBVIOUS
    <2> PICK i \in DOMAIN streamLock, j \in DOMAIN streamLock :
           i < j /\ streamLock[i] = u /\ streamLock[j] = v
      BY DEF Ahead
    <2>1. i # 1 /\ j # 1 /\ i - 1 < j - 1
      BY <1>1, <1>5
    <2> QED BY <2>1, <1>3 DEF Ahead
  <1> QED BY <1>2, <1>6, <1>7, <1>8

(* A cancelled task leaves from anywhere, or was not there.                *)
LEMMA Leaving ==
  ASSUME Queued, NEW t, streamLock' = Without(streamLock, t)
  PROVE  /\ Queued'
         /\ \A u : InLock(u)' <=> InLock(u) /\ u # t
         /\ \A u : Holds(u) /\ u # t => Holds(u)'
  <1>1. CASE ~InLock(t)
    <2>1. streamLock' = streamLock
      BY <1>1 DEF Without, InLock
    <2> QED BY <2>1, <1>1 DEF Queued, InLock, Holds
  <1>2. CASE InLock(t)
    <2>1. PICK k \in DOMAIN streamLock :
             /\ streamLock[k] = t
             /\ streamLock' = SubSeq(streamLock, 1, k - 1)
                               \o SubSeq(streamLock, k + 1, Len(streamLock))
      BY <1>2 DEF Without, InLock, RemoveAt
    <2>2. PICK n \in Nat : n = Len(streamLock) /\ DOMAIN streamLock = 1 .. n
      BY DEF Queued
    <2>3. k \in 1 .. n
      BY <2>1, <2>2
    <2> \A i \in 1 .. n : streamLock[i] \in Tasks
      BY <2>2 DEF Queued
    <2> DEFINE front == SubSeq(streamLock, 1, k - 1)
               back == SubSeq(streamLock, k + 1, n)
    <2>4. /\ front \in Seq(Tasks)
          /\ Len(front) = k - 1
          /\ \A i \in 1 .. k - 1 : front[i] = streamLock[i]
      BY <2>2, <2>3, SubSeqProperties
    <2>5. /\ back \in Seq(Tasks)
          /\ Len(back) = n - k
          /\ \A i \in 1 .. n - k : back[i] = streamLock[k + i]
      BY <2>2, <2>3, SubSeqProperties
    <2>14. streamLock' = front \o back
      BY <2>1, <2>2
    <2> HIDE DEF front, back
    <2>6. /\ streamLock' \in Seq(Tasks)
          /\ Len(streamLock') = (k - 1) + (n - k)
          /\ \A i \in 1 .. (k - 1) + (n - k) :
                streamLock'[i] = IF i <= k - 1 THEN front[i] ELSE back[i - (k - 1)]
      <3>1. /\ streamLock' \in Seq(Tasks)
            /\ Len(streamLock') = Len(front) + Len(back)
            /\ \A i \in 1 .. Len(front) + Len(back) :
                  streamLock'[i] = IF i <= Len(front) THEN front[i]
                                                      ELSE back[i - Len(front)]
        <4>1. /\ front \o back \in Seq(Tasks)
              /\ Len(front \o back) = Len(front) + Len(back)
              /\ \A i \in 1 .. Len(front) + Len(back) :
                    (front \o back)[i] = IF i <= Len(front) THEN front[i]
                                                     ELSE back[i - Len(front)]
          BY <2>4, <2>5, ConcatProperties
        <4> QED BY ONLY <4>1, <2>14, Zenon
      <3> QED BY ONLY <3>1, <2>4, <2>5
    <2>7. DOMAIN streamLock' = 1 .. n - 1
      BY <2>6, <2>2, <2>3
    <2>8. /\ \A i \in 1 .. n - 1 : i < k => streamLock'[i] = streamLock[i]
          /\ \A i \in 1 .. n - 1 : ~(i < k) => streamLock'[i] = streamLock[i + 1]
      <3> SUFFICES ASSUME NEW i \in 1 .. n - 1
                   PROVE  /\ i < k => streamLock'[i] = streamLock[i]
                          /\ ~(i < k) => streamLock'[i] = streamLock[i + 1]
        OBVIOUS
      <3>1. CASE i < k
        BY <3>1, <2>2, <2>3, <2>4, <2>6
      <3>2. CASE ~(i < k)
        <4>1. i - (k - 1) \in 1 .. n - k /\ k + (i - (k - 1)) = i + 1
          BY <3>2, <2>2, <2>3
        <4>2. i \in 1 .. (k - 1) + (n - k) /\ ~(i <= k - 1)
          BY <3>2, <2>2, <2>3
        <4>4. streamLock'[i] = back[i - (k - 1)]
          BY <4>2, <2>6, Zenon
        <4>3. back[i - (k - 1)] = streamLock[k + (i - (k - 1))]
          BY <4>1, <2>5
        <4> QED BY <3>2, <4>1, <4>4, <4>3
      <3> QED BY <3>1, <3>2
    <2>9. \A i \in 1 .. n - 1 :
            \E j \in 1 .. n : j = (IF i < k THEN i ELSE i + 1)
                              /\ streamLock'[i] = streamLock[j]
      BY <2>2, <2>3, <2>8
    <2>10. \A j \in 1 .. n : j # k =>
            \E i \in 1 .. n - 1 : streamLock'[i] = streamLock[j]
      <3> SUFFICES ASSUME NEW j \in 1 .. n, j # k
                   PROVE  \E i \in 1 .. n - 1 : streamLock'[i] = streamLock[j]
        OBVIOUS
      <3>1. CASE j < k
        BY <3>1, <2>2, <2>3, <2>8
      <3>2. CASE ~(j < k)
        <4>1. j - 1 \in 1 .. n - 1 /\ ~(j - 1 < k) /\ (j - 1) + 1 = j
          BY <3>2, <2>2, <2>3
        <4> QED BY <4>1, <2>8
      <3> QED BY <3>1, <3>2
    <2>11. Queued'
      <3> SUFFICES ASSUME NEW i \in 1 .. n - 1, NEW j \in 1 .. n - 1,
                          streamLock'[i] = streamLock'[j]
                   PROVE  i = j
        BY <2>6, <2>7 DEF Queued
      <3>1. PICK a \in 1 .. n : a = (IF i < k THEN i ELSE i + 1)
                                /\ streamLock'[i] = streamLock[a]
        BY <2>9, Zenon
      <3>2. PICK b \in 1 .. n : b = (IF j < k THEN j ELSE j + 1)
                                /\ streamLock'[j] = streamLock[b]
        BY <2>9, Zenon
      <3>3. a = b
        BY <3>1, <3>2, <2>2 DEF Queued
      <3> QED BY <3>1, <3>2, <3>3, <2>3, <2>2
    <2>12. \A u : InLock(u)' => InLock(u) /\ u # t
      <3> SUFFICES ASSUME NEW u, NEW i \in 1 .. n - 1, streamLock'[i] = u
                   PROVE  InLock(u) /\ u # t
        BY <2>7 DEF InLock
      <3>1. PICK j \in 1 .. n : j # k /\ u = streamLock[j]
        BY <2>9, <2>3, <2>2
      <3> QED BY <3>1, <2>1, <2>2, <2>3 DEF InLock, Queued
    <2>13. \A u : InLock(u) /\ u # t => InLock(u)'
      BY <2>1, <2>2, <2>7, <2>10 DEF InLock
    <2>15. \A u : Holds(u) /\ u # t => Holds(u)'
      <3> SUFFICES ASSUME NEW u, Holds(u), u # t
                   PROVE  Holds(u)'
        OBVIOUS
      <3>1. streamLock[1] = u /\ k # 1 /\ n > 1
        BY <2>1, <2>2, <2>3 DEF Holds, Queued
      <3>2. streamLock'[1] = u
        BY <3>1, <2>2, <2>3, <2>8
      <3>3. Len(streamLock') > 0 /\ streamLock' \in Seq(Tasks)
        BY <3>1, <2>2, <2>3, <2>6
      <3>4. streamLock' # <<>> /\ Head(streamLock') = u
        BY <3>2, <3>3
      <3> QED BY <3>4 DEF Holds
    <2> QED BY <2>11, <2>12, <2>13, <2>15
  <1> QED BY <1>1, <1>2

LEMMA Standing ==
  ASSUME Queued, streamLock' = streamLock
  PROVE  /\ Queued'
         /\ \A u : InLock(u)' <=> InLock(u)
         /\ \A u, v : Ahead(u, v)' <=> Ahead(u, v)
         /\ \A u : Holds(u)' <=> Holds(u)
  BY DEF Queued, InLock, Ahead, Holds

LEMMA Ordering ==
  ASSUME Queued, NEW t, Holds(t)
  PROVE  /\ t \in Tasks
         /\ InLock(t)
         /\ \A u : ~Ahead(u, t)
         /\ \A u : Holds(u) => u = t
  <1>1. Len(streamLock) \in Nat \ {0} /\ DOMAIN streamLock = 1 .. Len(streamLock)
        /\ streamLock[1] = t
    BY EmptySeq DEF Queued, Holds
  <1> QED BY <1>1 DEF Queued, InLock, Ahead, Holds

-----------------------------------------------------------------------------
(***************************************************************************)
(* What every configuration keeps.                                         *)
(***************************************************************************)
StopPlaces == {"stop", "stop_retry", "stop_lock", "stop_capture"}
StartPlaces == {"start", "start_lock", "start_open"}
LockPlaces == {"stop_lock", "start_lock", "start_open"}
Backs == {"idle", "refused", "stopped", "started", "switch", "select_end",
          "phono_off", "bluetooth_off", "off", "retried", "teardown"}

(* The command task has taken the command at the head of the queue.        *)
Typed ==
    /\ TypeOK
    /\ after \in [Tasks -> Backs]
    /\ at["command"] # "idle" => commands # <<>>

(* The queue of the lock is the tasks that are at it.                      *)
Locked ==
    /\ Queued
    /\ \A t \in Tasks : InLock(t) <=> at[t] \in LockPlaces
    /\ \A t \in Tasks : at[t] = "start_open" => Holds(t)

(* The stream task owns the only capture that runs, and none is opened     *)
(* while there is one.                                                     *)
Owned ==
    /\ streaming <=> streamTask # NoCapture
    /\ \A c \in Captures : capture[c].state \in {"live", "failed"} <=> streamTask = c
    /\ \A t \in Tasks : at[t] = "start_open" => streamTask = NoCapture

-----------------------------------------------------------------------------
(***************************************************************************)
(* What is kept while nobody calls select_source.                          *)
(***************************************************************************)
Whereabouts ==
    /\ selected = "phono"
    /\ at["controller"] = "idle"
    /\ at["command"] \in StopPlaces \cup StartPlaces \cup
            {"idle", "signal", "refused", "stopped", "started"}
    /\ at["output"] \in StopPlaces \cup
            {"idle", "signal", "phono_off", "bluetooth_off", "off"}
    /\ at["connection"] \in StopPlaces \cup
            {"down", "connecting", "up", "teardown", "abandon"}
    /\ at["retry"] \in StartPlaces \cup {"none", "sleep", "retried"}

Returning ==
    /\ at["command"] \in StartPlaces => after["command"] = "started"
    /\ at["command"] \in StopPlaces \cup {"signal"}
            => after["command"] \in {"refused", "stopped"}
    /\ at["output"] \in StopPlaces \cup {"signal"}
            => after["output"] \in {"phono_off", "bluetooth_off"}
    /\ at["connection"] \in StopPlaces => after["connection"] = "teardown"
    /\ at["retry"] \in StartPlaces => after["retry"] = "retried"

Stoppers == {"command", "output", "connection"}

(* A stream that is no longer wanted, and a start that no longer is, have  *)
(* a stop behind them.                                                     *)
Wanted ==
    /\ ~requested /\ streaming
          => \E t \in Stoppers : at[t] \in {"stop_retry", "stop_lock"}
    /\ \A u \in Tasks :
          ~requested /\ at[u] \in {"start_lock", "start_open"}
          => \E t \in Stoppers : \/ at[t] = "stop_retry"
                                 \/ at[t] = "stop_lock" /\ Ahead(u, t)

(* A start keeps the loop from where it was allowed to where it requests.  *)
Starts ==
    /\ at["command"] = "start" => loop = "command" /\ enabled
    /\ at["retry"] = "start" => loop = "retry" /\ requested

Disabled == ~enabled /\ requested => at["output"] \in {"signal", "stop"}

Obeyed ==
    /\ at["command"] \in {"stop_retry", "stop_lock", "stop_capture", "stopped",
                          "refused"} => ~requested
    /\ requested => \/ lastCommand = "start"
                    \/ at["command"] \in {"start_lock", "start_open", "started"}
    /\ at["command"] \in StartPlaces \cup {"started"} => Head(commands) = "start"

-----------------------------------------------------------------------------
(***************************************************************************)
(* What is kept while, besides, the connection lasts.                      *)
(***************************************************************************)
Connection ==
    /\ at["connection"] \in {"down", "connecting", "up"}
    /\ connected <=> at["connection"] = "up"
    /\ client <=> at["connection"] # "down"
    /\ commands # <<>> => connected
    /\ requested => connected

(* The output disables before it stops, and enables when it is idle.       *)
Switched == at["output"] # "idle" => ~enabled

(* A requested stream runs, is retried or is being started.                *)
Served ==
    requested => \/ streaming
                 \/ at["retry"] # "none"
                 \/ at["command"] \in {"start_lock", "start_open"}

(* A stop is behind every start, and there is none left when it waits.     *)
Stopped ==
    \A t \in {"command", "output"} :
        /\ at[t] \in {"stop_retry", "stop_lock", "stop_capture"}
              => ~requested /\ at["retry"] = "none"
        /\ at[t] = "stop_lock" /\ at["command"] \in {"start_lock", "start_open"}
              => Ahead("command", t)
        /\ at[t] = "stop_capture"
              => at["command"] \notin StartPlaces /\ streamTask = NoCapture

(* Somebody waits for every capture that closes.                           *)
Closing ==
    \A c \in Captures :
        capture[c].state = "closing"
        => \E t \in {"command", "output"} : at[t] = "stop_capture" /\ awaited[t] = c
-----------------------------------------------------------------------------
(***************************************************************************)
(* Typed is inductive.                                                     *)
(***************************************************************************)
LEMMA InitTyped == Init => Typed
  <1> SUFFICES ASSUME Init PROVE Typed
    OBVIOUS
  <1> USE DEF Tasks, Callers
  <1>1. at \in [Tasks -> Places] /\ at["command"] = "idle"
    BY DEF Init, Places
  <1>2. after \in [Tasks -> Backs] /\ after \in [Tasks -> Places]
    BY DEF Init, Backs, Places
  <1>3. /\ awaited \in [Callers \cup {"connection"} -> Captures \cup {NoCapture}]
        /\ was \in [Selectors -> BOOLEAN] /\ goal \in [Selectors -> Sources]
    BY DEF Init, Sources
  <1>4. capture \in [Captures -> [state : {"gone", "live", "failed", "closing"},
                                  source : Sources]]
    BY DEF Init, Sources
  <1>5. published \in Snapshot
    BY DEF Init, Snapshot, Sources
  <1>6. streamLock \in Seq(Tasks) /\ commands \in Seq(Commands)
    BY EmptySeq DEF Init
  <1> QED
    BY <1>1, <1>2, <1>3, <1>4, <1>5, <1>6 DEF Init, Typed, TypeOK, Sources, Commands

LEMMA PublishTyped ==
  ASSUME Publish, connected' \in BOOLEAN, streaming' \in BOOLEAN,
         requested' \in BOOLEAN, selected' \in Sources
  PROVE  published' \in Snapshot
  BY DEF Publish, Snapshot

LEMMA BacksArePlaces == Backs \subseteq Places
  BY DEF Backs, Places

LEMMA StoppingTyped ==
  ASSUME Typed, Queued', NEW t \in Callers \cup {"connection"}, Stopping(t)
  PROVE  Typed'
  <1> USE DEF Typed, TypeOK, Tasks, Callers, Places, Runs, Goto, Keep, Yield, link,
              stream, choice, server, control, locals, Queued
  <1> streamLock' \in Seq(Tasks)
    OBVIOUS
  <1>1. CASE StopRequest(t)
    <2>1. PICK place \in {"stop_lock", "stop_retry"}, r \in Places :
             at' = [at EXCEPT !["retry"] = r, ![t] = place]
      BY <1>1 DEF StopRequest, Acquire
    <2>2. loop' \in Tasks \cup {NoTask}
      BY <1>1 DEF StopRequest, Acquire
    <2>3. at' \in [Tasks -> Places]
      BY <2>1
    <2>4. at'["command"] # "idle" => commands # <<>>
      BY <1>1, <2>1 DEF StopRequest
    <2> QED BY ZenonT(40), <1>1, <2>2, <2>3, <2>4 DEF StopRequest
  <1>2. CASE StopRetryGone(t)
    BY <1>2 DEF StopRetryGone, Acquire
  <1>3. CASE StopSection(t)
    <2>1. CASE streamTask = NoCapture
      <3>1. /\ at' = [at EXCEPT ![t] = after[t]]
            /\ loop' = IF after[t] = "teardown" THEN NoTask ELSE t
            /\ UNCHANGED <<capture, awaited>>
        BY <1>3, <2>1 DEF StopSection, Return
      <3>2. at' \in [Tasks -> Places] /\ loop' \in Tasks \cup {NoTask}
        BY <3>1, BacksArePlaces
      <3>3. at'["command"] # "idle" => commands # <<>>
        BY <1>3, <3>1 DEF StopSection
      <3> QED BY <1>3, <3>1, <3>2, <3>3 DEF StopSection
    <2>2. CASE streamTask # NoCapture
      <3>1. /\ capture' = [capture EXCEPT ![streamTask].state = "closing"]
            /\ awaited' = [awaited EXCEPT ![t] = streamTask]
            /\ at' = [at EXCEPT ![t] = "stop_capture"]
            /\ loop' = NoTask
        BY <1>3, <2>2 DEF StopSection
      <3>2. /\ at' \in [Tasks -> Places]
            /\ awaited' \in [Callers \cup {"connection"} -> Captures \cup {NoCapture}]
        BY <3>1
      <3>3. capture' \in [Captures -> [state : {"gone", "live", "failed", "closing"},
                                       source : Sources]]
        BY ZenonT(40), <3>1
      <3>4. at'["command"] # "idle" => commands # <<>>
        BY <1>3, <3>1 DEF StopSection
      <3> QED BY <1>3, <3>1, <3>2, <3>3, <3>4 DEF StopSection
    <2> QED BY <2>1, <2>2
  <1>4. CASE StopCaptureGone(t)
    <2>1. published' \in Snapshot
      BY <1>4, PublishTyped DEF StopCaptureGone
    <2> QED BY <1>4, <2>1, BacksArePlaces DEF StopCaptureGone, Return, Backs
  <1> QED BY <1>1, <1>2, <1>3, <1>4 DEF Stopping

LEMMA StartingTyped ==
  ASSUME Typed, Queued', NEW t \in Callers \cup {"retry"},
         Starting(t) \/ OpenSucceeds(t) \/ OpenFails(t)
  PROVE  Typed'
  <1> USE DEF Typed, TypeOK, Tasks, Callers, Places, Runs, Goto, Keep, Yield, link,
              stream, choice, server, control, locals, Queued
  <1> streamLock' \in Seq(Tasks)
    OBVIOUS
  <1>1. CASE StartRequest(t)
    BY <1>1 DEF StartRequest, Acquire
  <1>2. CASE StartSection(t)
    <2>1. CASE ~client \/ AlreadyStreaming
      BY <1>2, <2>1, BacksArePlaces DEF StartSection, Return, Backs
    <2>2. CASE ~(~client \/ AlreadyStreaming)
      BY <1>2, <2>2 DEF StartSection
    <2> QED BY <2>1, <2>2
  <1>3. CASE OpenSucceeds(t)
    <2>1. published' \in Snapshot
      BY <1>3, PublishTyped DEF OpenSucceeds
    <2> QED BY <1>3, <2>1, BacksArePlaces DEF OpenSucceeds, Return, Backs
  <1>4. CASE OpenFails(t)
    <2>1. published' \in Snapshot
      BY <1>4, PublishTyped DEF OpenFails
    <2> QED BY <1>4, <2>1, BacksArePlaces DEF OpenFails, Backs
  <1> QED BY <1>1, <1>2, <1>3, <1>4 DEF Starting

LEMMA PumpTyped ==
  ASSUME Typed, NEW c \in Captures,
         PumpFails(c) \/ CaptureClosed(c) \/ FailureHandled(c)
  PROVE  Typed'
  <1> USE DEF Typed, TypeOK, Tasks, Callers, Places, Runs, Goto, Keep, Yield, link,
              stream, choice, server, control, locals
  <1>1. CASE PumpFails(c)
    BY <1>1 DEF PumpFails
  <1>2. CASE CaptureClosed(c)
    BY <1>2 DEF CaptureClosed
  <1>3. CASE FailureHandled(c)
    <2>1. published' \in Snapshot
      BY <1>3, PublishTyped DEF FailureHandled
    <2>2. /\ at' \in [Tasks -> Places]
          /\ at'["command"] = at["command"]
      BY <1>3 DEF FailureHandled
    <2>3. capture' \in [Captures -> [state : {"gone", "live", "failed", "closing"},
                                     source : Sources]]
      BY <1>3 DEF FailureHandled
    <2> QED BY ZenonT(40), <1>3, <2>1, <2>2, <2>3 DEF FailureHandled
  <1> QED BY <1>1, <1>2, <1>3

LEMMA RetryTyped ==
  ASSUME Typed, RetryWakes \/ Retried
  PROVE  Typed'
  <1> USE DEF Typed, TypeOK, Tasks, Callers, Places, Runs, Goto, Keep, Yield, link,
              stream, choice, server, control, locals, Backs
  <1>1. CASE RetryWakes
    BY <1>1 DEF RetryWakes, Call
  <1>2. CASE Retried
    BY <1>2 DEF Retried
  <1> QED BY <1>1, <1>2

LEMMA Received ==
  ASSUME TypeOK, NEW c \in Commands, Receive(c)
  PROVE  commands' \in Seq(Commands) /\ commands' # <<>>
  <1>1. commands \in Seq(Commands)
    BY DEF TypeOK
  <1>2. commands' = Append(commands, c)
    BY DEF Receive
  <1> QED BY <1>1, <1>2, AppendProperties

LEMMA CommandTyped ==
  ASSUME Typed, Command \/ CommitPhonoStop \/ \E c \in Commands : Receive(c)
  PROVE  Typed'
  <1> USE DEF Typed, TypeOK, Tasks, Callers, Places, Runs, Goto, Keep, Yield, link,
              stream, choice, server, control, locals, Backs
  <1>1. CASE RefuseStart
    BY <1>1 DEF RefuseStart, Call, Takes
  <1>2. CASE PlayBluetooth
    BY <1>2 DEF PlayBluetooth, Takes
  <1>3. CASE AcceptStart
    BY <1>3 DEF AcceptStart, Call, Takes
  <1>4. CASE AcceptStop
    BY <1>4 DEF AcceptStop, Call, Takes
  <1>5. ASSUME StartFinished \/ StopFinished
        PROVE  Tail(commands) \in Seq(Commands) /\ Head(commands) \in Commands
    <2>1. commands # <<>>
      BY <1>5 DEF StartFinished, StopFinished
    <2> QED BY <2>1
  <1>6. CASE StartFinished
    BY <1>5, <1>6 DEF StartFinished, Finished
  <1>7. CASE StopFinished
    <2>1. published' \in Snapshot
      BY <1>7, PublishTyped DEF StopFinished
    <2> QED BY <1>5, <1>7, <2>1 DEF StopFinished, Finished
  <1>8. CASE CommitPhonoStop
    <2>1. published' \in Snapshot
      BY <1>8, PublishTyped DEF CommitPhonoStop
    <2> QED BY <1>8, <2>1 DEF CommitPhonoStop
  <1>9. ASSUME NEW c \in Commands, Receive(c)
        PROVE  Typed'
    <2>1. commands' \in Seq(Commands) /\ commands' # <<>>
      BY <1>9, Received
    <2> QED BY <1>9, <2>1 DEF Receive
  <1> QED BY <1>1, <1>2, <1>3, <1>4, <1>6, <1>7, <1>8, <1>9 DEF Command

LEMMA SelectTyped ==
  ASSUME Typed, NEW t \in Selectors,
         (\E s \in Sources : Select(t, s)) \/ Switch(t) \/ SelectEnds(t)
  PROVE  Typed'
  <1> USE DEF Typed, TypeOK, Tasks, Callers, Places, Runs, Goto, Keep, Yield, link,
              stream, choice, server, control, locals, Backs
  <1> t \in {"controller", "output"}
    BY SourceAssumption
  <1>1. ASSUME NEW s \in Sources, Select(t, s)
        PROVE  Typed'
    BY <1>1 DEF Select, Call
  <1>2. CASE Switch(t)
    BY <1>2 DEF Switch, Call
  <1>3. CASE SelectEnds(t)
    <2>1. published' \in Snapshot
      BY <1>3, PublishTyped DEF SelectEnds
    <2> QED BY <1>3, <2>1 DEF SelectEnds
  <1> QED BY <1>1, <1>2, <1>3

LEMMA OutputTyped ==
  ASSUME Typed,
         \/ Enable \/ Disable \/ Off
         \/ DisableSource("phono", "phono_off", "bluetooth_off")
         \/ DisableSource("bluetooth", "bluetooth_off", "off")
         \/ \E t \in {"command", "output"} : SignalAbsent(t)
  PROVE  Typed'
  <1> USE DEF Typed, TypeOK, Tasks, Callers, Places, Runs, Goto, Keep, Yield, link,
              stream, choice, server, control, locals, Backs
  <1>1. CASE Enable
    <2>1. published' \in Snapshot
      BY <1>1, PublishTyped DEF Enable
    <2> QED BY <1>1, <2>1 DEF Enable
  <1>2. CASE Disable
    BY ZenonT(40), <1>2 DEF Disable, Call
  <1>3. CASE Off
    <2>1. published' \in Snapshot
      BY <1>3, PublishTyped DEF Off
    <2> QED BY <1>3, <2>1 DEF Off
  <1>4. ASSUME NEW s \in Sources, NEW here \in Places, NEW next \in Backs,
               DisableSource(s, here, next)
        PROVE  Typed'
    <2>1. published' \in Snapshot
      BY <1>4, PublishTyped DEF DisableSource
    <2> QED BY <1>4, <2>1, BacksArePlaces DEF DisableSource, Call
  <1>5. ASSUME NEW t \in {"command", "output"}, SignalAbsent(t)
        PROVE  Typed'
    BY <1>5 DEF SignalAbsent
  <1> QED BY <1>1, <1>2, <1>3, <1>4, <1>5 DEF Sources

LEMMA ConnectionTyped ==
  ASSUME Typed, Setup \/ Connect \/ ConnectFails \/ Drop \/ Teardown \/ Abandon
  PROVE  Typed'
  <1> USE DEF Typed, TypeOK, Tasks, Callers, Places, Runs, Goto, Keep, Yield, link,
              stream, choice, server, control, locals, Backs
  <1>1. CASE Setup
    BY <1>1 DEF Setup
  <1>2. CASE Connect
    <2>1. published' \in Snapshot
      BY <1>2, PublishTyped DEF Connect
    <2> QED BY <1>2, <2>1 DEF Connect
  <1>3. CASE ConnectFails
    BY <1>3 DEF ConnectFails
  <1>4. CASE Drop
    BY ZenonT(40), <1>4 DEF Drop, Call
  <1>5. CASE Teardown
    <2>1. published' \in Snapshot
      BY <1>5, PublishTyped DEF Teardown
    <2> QED BY ZenonT(40), <1>5, <2>1 DEF Teardown
  <1>6. CASE Abandon
    BY ZenonT(40), <1>6 DEF Abandon
  <1> QED BY <1>1, <1>2, <1>3, <1>4, <1>5, <1>6
-----------------------------------------------------------------------------
(***************************************************************************)
(* Most steps touch neither the lock nor the stream.                       *)
(***************************************************************************)
Waiting == {"stop_retry", "stop_lock", "start_lock", "start_open"}

Quiet ==
    /\ UNCHANGED <<streamLock, streaming, streamTask, capture>>
    /\ \A u \in Tasks :
          at'[u] = at[u] \/ (at[u] \notin Waiting /\ at'[u] \notin Waiting)

LEMMA QuietSteps ==
  ASSUME Typed,
         \/ \E t \in Callers \cup {"connection"} : StopCaptureGone(t)
         \/ RetryWakes \/ Retried
         \/ \E c \in Commands : Receive(c)
         \/ Command \/ CommitPhonoStop
         \/ \E t \in {"command", "output"} : SignalAbsent(t)
         \/ \E t \in Selectors, s \in Sources : Select(t, s)
         \/ \E t \in Selectors : Switch(t) \/ SelectEnds(t)
         \/ Enable \/ Disable \/ Off
         \/ DisableSource("phono", "phono_off", "bluetooth_off")
         \/ DisableSource("bluetooth", "bluetooth_off", "off")
         \/ Setup \/ Connect \/ ConnectFails \/ Drop \/ Teardown \/ Abandon
  PROVE  Quiet
  <1> USE DEF Quiet, Waiting, Tasks, Callers, Runs, Goto, Keep, Yield, Call, stream,
              control
  <1> at \in [Tasks -> Places] /\ after \in [Tasks -> Backs]
    BY DEF Typed, TypeOK
  <1>1. ASSUME NEW t \in Callers \cup {"connection"}, StopCaptureGone(t)
        PROVE  Quiet
    BY <1>1 DEF StopCaptureGone, Return, Backs
  <1>2. CASE RetryWakes
    BY <1>2 DEF RetryWakes
  <1>3. CASE Retried
    BY <1>3 DEF Retried
  <1>4. CASE CommitPhonoStop \/ \E c \in Commands : Receive(c)
    BY <1>4 DEF CommitPhonoStop, Receive
  <1>5. CASE RefuseStart \/ PlayBluetooth
    BY <1>5 DEF RefuseStart, PlayBluetooth, Takes
  <1>6. CASE AcceptStart \/ AcceptStop
    BY <1>6 DEF AcceptStart, AcceptStop, Takes
  <1>7. CASE StartFinished \/ StopFinished
    BY <1>7 DEF StartFinished, StopFinished, Finished
  <1>8. ASSUME NEW t \in {"command", "output"}, SignalAbsent(t)
        PROVE  Quiet
    BY <1>8 DEF SignalAbsent
  <1>9. ASSUME NEW t \in Selectors,
               (\E s \in Sources : Select(t, s)) \/ Switch(t) \/ SelectEnds(t)
        PROVE  Quiet
    <2> t \in {"controller", "output"}
      BY SourceAssumption
    <2> QED BY <1>9 DEF Select, Switch, SelectEnds
  <1>10. CASE Enable \/ Disable \/ Off
    BY <1>10 DEF Enable, Disable, Off
  <1>11. CASE \/ DisableSource("phono", "phono_off", "bluetooth_off")
              \/ DisableSource("bluetooth", "bluetooth_off", "off")
    BY <1>11 DEF DisableSource
  <1>12. CASE Setup \/ Connect \/ ConnectFails
    BY <1>12 DEF Setup, Connect, ConnectFails
  <1>13. CASE Drop \/ Teardown \/ Abandon
    BY <1>13 DEF Drop, Teardown, Abandon
  <1> QED
    BY <1>1, <1>2, <1>3, <1>4, <1>5, <1>6, <1>7, <1>8, <1>9, <1>10, <1>11, <1>12, <1>13
    DEF Command

(***************************************************************************)
(* Locked and Owned are inductive.                                         *)
(***************************************************************************)
LEMMA InitLocked == Init => Locked /\ Owned
  <1> SUFFICES ASSUME Init PROVE Locked /\ Owned
    OBVIOUS
  <1>1. \A t \in Tasks : at[t] \notin LockPlaces
    BY DEF Init, LockPlaces, Tasks, Callers
  <1>2. Queued /\ \A t : ~InLock(t)
    BY EmptySeq DEF Init, Queued, InLock
  <1> QED
    BY <1>1, <1>2, SourceAssumption DEF Init, Locked, Owned, LockPlaces

LEMMA QuietKeeps ==
  ASSUME Locked, Owned, Quiet
  PROVE  Locked' /\ Owned'
  BY Standing DEF Quiet, Locked, Owned, LockPlaces, Waiting

(* Who enters, who leaves, and the lock follows where they are.            *)
LEMMA StoppingLocked ==
  ASSUME Typed, Locked, Owned, NEW t \in Callers \cup {"connection"},
         StopRequest(t) \/ StopRetryGone(t) \/ StopSection(t)
  PROVE  Locked' /\ Owned'
  <1> USE DEF Runs, Goto, Yield, LockPlaces
  <1> t \in Tasks /\ t # "retry" /\ "retry" \in Tasks
    BY DEF Tasks, Callers
  <1> at \in [Tasks -> Places] /\ after \in [Tasks -> Backs] /\ Queued
    BY DEF Typed, TypeOK, Locked
  <1>1. ASSUME at[t] \notin LockPlaces, Acquire(t, "stop_lock"),
               UNCHANGED <<streaming, streamTask, capture>>
        PROVE  Locked' /\ Owned'
    <2>1. ~InLock(t)
      BY <1>1 DEF Locked
    <2>2. /\ Queued'
          /\ \A u : InLock(u)' <=> InLock(u) \/ u = t
          /\ \A u : Holds(u) => Holds(u)'
      BY <1>1, <2>1, Entering DEF Acquire
    <2> QED BY <1>1, <2>2 DEF Acquire, Locked, Owned
  <1>2. CASE StopRequest(t) /\ at["retry"] # "none"
    <2>1. /\ Queued'
          /\ \A u : InLock(u)' <=> InLock(u) /\ u # "retry"
          /\ \A u : Holds(u) /\ u # "retry" => Holds(u)'
      BY <1>2, Leaving DEF StopRequest
    <2> QED BY <1>2, <2>1 DEF StopRequest, Locked, Owned
  <1>3. CASE StopSection(t)
    <2>1. /\ Queued'
          /\ \A u : InLock(u)' <=> InLock(u) /\ u # t
      BY <1>3, Releasing DEF StopSection
    <2>2. \A u \in Tasks : at[u] # "start_open"
      BY <1>3, Ordering DEF StopSection, Locked
    <2>3. PICK place \in Backs \cup {"stop_capture"} : at' = [at EXCEPT ![t] = place]
      BY <1>3 DEF StopSection, Return
    <2>4. Locked'
      BY <2>1, <2>2, <2>3 DEF Locked, Backs
    <2>5. /\ streamTask' = NoCapture /\ streaming' = FALSE
          /\ capture' = IF streamTask = NoCapture THEN capture
                        ELSE [capture EXCEPT ![streamTask].state = "closing"]
      BY <1>3 DEF StopSection
    <2>6. streamTask \in Captures \cup {NoCapture} /\ NoCapture \notin Captures
          /\ capture \in [Captures -> [state : {"gone", "live", "failed", "closing"},
                                       source : Sources]]
      BY SourceAssumption DEF Typed, TypeOK
    <2>7. Owned'
      BY <2>2, <2>3, <2>5, <2>6 DEF Owned, Backs
    <2> QED BY <2>4, <2>7
  <1>4. CASE StopRequest(t) /\ at["retry"] = "none"
    BY <1>1, <1>4 DEF StopRequest
  <1>5. CASE StopRetryGone(t)
    BY <1>1, <1>5 DEF StopRetryGone, stream
  <1> QED BY <1>2, <1>3, <1>4, <1>5

LEMMA StartingLocked ==
  ASSUME Typed, Locked, Owned, NEW t \in Callers \cup {"retry"},
         Starting(t) \/ OpenSucceeds(t) \/ OpenFails(t)
  PROVE  Locked' /\ Owned'
  <1> USE DEF Runs, Goto, Yield, LockPlaces, Starting
  <1> t \in Tasks /\ "retry" \in Tasks
    BY DEF Tasks, Callers
  <1> at \in [Tasks -> Places] /\ after \in [Tasks -> Backs] /\ Queued
    BY DEF Typed, TypeOK, Locked
  <1>1. CASE StartRequest(t)
    <2>1. ~InLock(t)
      BY <1>1 DEF StartRequest, Locked
    <2>2. /\ Queued'
          /\ \A u : InLock(u)' <=> InLock(u) \/ u = t
          /\ \A u : Holds(u) => Holds(u)'
      BY <1>1, <2>1, Entering DEF StartRequest, Acquire
    <2> QED BY <1>1, <2>2 DEF StartRequest, Acquire, Locked, Owned
  <1>2. CASE StartSection(t) /\ UNCHANGED streamLock
    <2>1. /\ Queued'
          /\ \A u : InLock(u)' <=> InLock(u)
          /\ \A u : Holds(u)' <=> Holds(u)
      BY <1>2, Standing
    <2>2. streamLock # Tail(streamLock)
      BY <1>2 DEF StartSection, Holds, Queued
    <2>3. streamTask = NoCapture /\ at' = [at EXCEPT ![t] = "start_open"]
      BY <1>2, <2>2 DEF StartSection, AlreadyStreaming
    <2> QED BY <1>2, <2>1, <2>3 DEF StartSection, stream, Locked, Owned
  <1>3. ASSUME Holds(t), streamLock' = Tail(streamLock),
               at[t] \in {"start_lock", "start_open"},
               \A u \in Tasks : \/ u # t /\ at'[u] = at[u]
                                \/ u = t /\ at'[u] \in Backs
                                \/ u = "retry" /\ u # t /\ at[u] = "none"
                                               /\ at'[u] = "sleep"
        PROVE  /\ Locked'
               /\ \A u \in Tasks : at'[u] # "start_open"
    <2>1. /\ Queued'
          /\ \A u : InLock(u)' <=> InLock(u) /\ u # t
      BY <1>3, Releasing
    <2>2. \A u \in Tasks : at'[u] # "start_open"
      BY <1>3, Ordering DEF Locked, Backs
    <2> QED BY <1>3, <2>1, <2>2 DEF Locked, Backs
  <1>4. CASE StartSection(t) /\ streamLock' = Tail(streamLock)
    <2>1. at' = [at EXCEPT ![t] = after[t]]
      <3>1. streamLock # Tail(streamLock)
        BY <1>4 DEF StartSection, Holds, Queued
      <3> QED BY <1>4, <3>1 DEF StartSection, Return
    <2> QED BY <1>3, <1>4, <2>1 DEF StartSection, stream, Owned
  <1>5. CASE OpenSucceeds(t)
    <2>1. /\ Locked'
          /\ \A u \in Tasks : at'[u] # "start_open"
      BY <1>3, <1>5 DEF OpenSucceeds, Return, Locked
    <2>2. PICK c \in Captures :
             /\ capture' = [capture EXCEPT ![c] = [state |-> "live", source |-> selected]]
             /\ streamTask' = c
      BY <1>5 DEF OpenSucceeds
    <2>3. capture \in [Captures -> [state : {"gone", "live", "failed", "closing"},
                                    source : Sources]]
      BY DEF Typed, TypeOK
    <2>4. streamTask = NoCapture /\ NoCapture \notin Captures /\ streaming' = TRUE
      BY <1>5, SourceAssumption DEF OpenSucceeds, Owned
    <2> QED BY <2>1, <2>2, <2>3, <2>4 DEF Owned
  <1>6. CASE OpenFails(t)
    BY <1>3, <1>6 DEF OpenFails, NeedsRetry, stream, Locked, Owned
  <1>7. CASE StartSection(t)
    BY <1>2, <1>4, <1>7 DEF StartSection
  <1> QED BY <1>1, <1>5, <1>6, <1>7

LEMMA PumpLocked ==
  ASSUME Typed, Locked, Owned, NEW c \in Captures,
         PumpFails(c) \/ CaptureClosed(c) \/ FailureHandled(c)
  PROVE  Locked' /\ Owned'
  <1> "retry" \in Tasks
    BY DEF Tasks
  <1> /\ at \in [Tasks -> Places] /\ NoCapture \notin Captures
      /\ streamTask \in Captures \cup {NoCapture}
      /\ capture \in [Captures -> [state : {"gone", "live", "failed", "closing"},
                                   source : Sources]]
    BY SourceAssumption DEF Typed, TypeOK
  <1>1. /\ streamLock' = streamLock
        /\ \A u \in Tasks : \/ at'[u] = at[u]
                            \/ u = "retry" /\ at[u] = "none" /\ at'[u] = "sleep"
    <2>1. CASE PumpFails(c) \/ CaptureClosed(c)
      BY <2>1 DEF PumpFails, CaptureClosed, control
    <2>2. CASE FailureHandled(c)
      BY <2>2 DEF FailureHandled, NeedsRetry, Goto
    <2> QED BY <2>1, <2>2
  <1>2. Locked'
    BY <1>1, Standing DEF Locked, LockPlaces
  <1>3. Owned'
    <2>1. CASE PumpFails(c)
      BY <1>1, <2>1 DEF PumpFails, Owned
    <2>2. CASE CaptureClosed(c)
      BY <1>1, <2>2 DEF CaptureClosed, Owned
    <2>3. CASE FailureHandled(c)
      BY <1>1, <2>3 DEF FailureHandled, Owned
    <2> QED BY <2>1, <2>2, <2>3
  <1> QED BY <1>2, <1>3

(* The invariant of every configuration.                                   *)
Safe == Typed /\ Locked /\ Owned

LEMMA SafeStep ==
  ASSUME Safe, Next
  PROVE  Safe'
  <1> USE DEF Safe
  <1>1. ASSUME NEW t \in Callers \cup {"connection"}, Stopping(t)
        PROVE  Safe'
    <2>1. Locked' /\ Owned'
      BY <1>1, StoppingLocked, QuietSteps, QuietKeeps DEF Stopping
    <2> QED BY <1>1, <2>1, StoppingTyped DEF Locked
  <1>2. ASSUME NEW t \in Callers \cup {"retry"},
               Starting(t) \/ OpenSucceeds(t) \/ OpenFails(t)
        PROVE  Safe'
    <2>1. Locked' /\ Owned'
      BY <1>2, StartingLocked
    <2> QED BY <1>2, <2>1, StartingTyped DEF Locked
  <1>3. ASSUME NEW c \in Captures,
               PumpFails(c) \/ CaptureClosed(c) \/ FailureHandled(c)
        PROVE  Safe'
    BY <1>3, PumpLocked, PumpTyped
  <1>4. CASE RetryWakes \/ Retried
    BY <1>4, RetryTyped, QuietSteps, QuietKeeps
  <1>5. CASE Command \/ CommitPhonoStop \/ \E c \in Commands : Receive(c)
    BY <1>5, CommandTyped, QuietSteps, QuietKeeps
  <1>6. ASSUME NEW t \in Selectors,
               (\E s \in Sources : Select(t, s)) \/ Switch(t) \/ SelectEnds(t)
        PROVE  Safe'
    BY <1>6, SelectTyped, QuietSteps, QuietKeeps
  <1>7. CASE \/ Enable \/ Disable \/ Off
             \/ DisableSource("phono", "phono_off", "bluetooth_off")
             \/ DisableSource("bluetooth", "bluetooth_off", "off")
             \/ \E t \in {"command", "output"} : SignalAbsent(t)
    BY <1>7, OutputTyped, QuietSteps, QuietKeeps
  <1>8. CASE Setup \/ Connect \/ ConnectFails \/ Drop \/ Teardown \/ Abandon
    BY <1>8, ConnectionTyped, QuietSteps, QuietKeeps
  <1> QED BY <1>1, <1>2, <1>3, <1>4, <1>5, <1>6, <1>7, <1>8 DEF Next

LEMMA SafeStutter ==
  ASSUME Safe, UNCHANGED vars
  PROVE  Safe'
  <1>1. Typed'
    BY DEF Safe, Typed, TypeOK, vars, link, stream, choice, server, control, locals
  <1>2. Quiet
    BY DEF vars, stream, control, Quiet
  <1> QED BY <1>1, <1>2, QuietKeeps DEF Safe

LEMMA AlwaysSafe == Spec => []Safe
  <1>1. Init => Safe
    BY InitTyped, InitLocked DEF Safe
  <1>2. Safe /\ [Next]_vars => Safe'
    BY SafeStep, SafeStutter
  <1> QED BY <1>1, <1>2, PTL DEF Spec

(* Every variable of the publisher keeps its type, for any captures and    *)
(* any number of waiting commands, whoever calls select_source.            *)
THEOREM TypeCorrect == Spec => []TypeOK
  BY AlwaysSafe, PTL DEF Safe, Typed

(* At most one capture runs, and it is the one _stream_task knows, however *)
(* server commands, selections, output switches, failures, retries and     *)
(* lost connections interleave: the lock lets one start at a time look at  *)
(* the stream task and open.                                               *)
THEOREM OneCaptureRuns == Spec => []OneLiveCapture
  <1>1. Safe => OneLiveCapture
    BY DEF Safe, Owned, OneLiveCapture
  <1> QED BY <1>1, AlwaysSafe, PTL
-----------------------------------------------------------------------------
(***************************************************************************)
(* Without select_source: where the tasks are, and who may request.        *)
(***************************************************************************)
Ruled == Whereabouts /\ Returning /\ Starts /\ Disabled /\ Obeyed

LEMMA InitRuled == Init => Ruled
  <1> SUFFICES ASSUME Init PROVE Ruled
    OBVIOUS
  <1>1. /\ at["command"] = "idle" /\ at["controller"] = "idle"
        /\ at["output"] = "idle" /\ at["connection"] = "down"
        /\ at["retry"] = "none" /\ requested = FALSE /\ selected = "phono"
    BY DEF Init, Tasks, Callers
  <1> QED
    BY <1>1 DEF Ruled, Whereabouts, Returning, Starts, Disabled, Obeyed, StopPlaces,
       StartPlaces

LEMMA StoppingRuled ==
  ASSUME Safe, Ruled, NEW t \in Callers \cup {"connection"}, Stopping(t)
  PROVE  Ruled'
  <1> USE DEF Ruled, Whereabouts, Returning, Starts, Disabled, Obeyed, StopPlaces,
              StartPlaces, Runs, Goto, Yield
  <1> /\ t \in {"command", "output", "connection"} /\ t \in Tasks
      /\ {"command", "controller", "output", "connection", "retry"} \subseteq Tasks
      /\ NoTask \notin Tasks
    BY SourceAssumption DEF Tasks, Callers, Stopping, StopRequest, StopRetryGone,
       StopSection, StopCaptureGone
  <1> at \in [Tasks -> Places] /\ after \in [Tasks -> Backs]
    BY DEF Safe, Typed, TypeOK
  <1>1. CASE StopRequest(t)
    BY <1>1 DEF StopRequest, Acquire, choice, server
  <1>2. CASE StopRetryGone(t)
    BY <1>2 DEF StopRetryGone, Acquire, stream, choice, server
  <1>3. CASE StopSection(t)
    BY <1>3 DEF StopSection, Return, choice, server
  <1>4. CASE StopCaptureGone(t)
    BY <1>4 DEF StopCaptureGone, Return, stream, choice, server
  <1> QED BY <1>1, <1>2, <1>3, <1>4 DEF Stopping

LEMMA StartingRuled ==
  ASSUME Safe, Ruled, NEW t \in Callers \cup {"retry"},
         Starting(t) \/ OpenSucceeds(t) \/ OpenFails(t)
  PROVE  Ruled'
  <1> USE DEF Ruled, Whereabouts, Returning, Starts, Disabled, Obeyed, StopPlaces,
              StartPlaces, Runs, Goto, Keep, Yield
  <1> /\ t \in {"command", "retry"} /\ t \in Tasks
      /\ {"command", "controller", "output", "connection", "retry"} \subseteq Tasks
      /\ NoTask \notin Tasks
    BY SourceAssumption DEF Tasks, Callers, Starting, StartRequest, StartSection,
       OpenSucceeds, OpenFails
  <1> at \in [Tasks -> Places] /\ after \in [Tasks -> Backs]
    BY DEF Safe, Typed, TypeOK
  <1>1. CASE StartRequest(t)
    BY <1>1 DEF StartRequest, Acquire, choice, server
  <1>2. CASE StartSection(t)
    BY <1>2 DEF StartSection, Return, stream, choice, server
  <1>3. CASE OpenSucceeds(t)
    BY <1>3 DEF OpenSucceeds, Return, choice, server
  <1>4. CASE OpenFails(t)
    BY <1>4 DEF OpenFails, NeedsRetry, stream, choice, server
  <1> QED BY <1>1, <1>2, <1>3, <1>4 DEF Starting

LEMMA PumpRuled ==
  ASSUME Safe, Ruled, NEW c \in Captures,
         PumpFails(c) \/ CaptureClosed(c) \/ FailureHandled(c)
  PROVE  Ruled'
  <1> USE DEF Ruled, Whereabouts, Returning, Starts, Disabled, Obeyed, StopPlaces,
              StartPlaces, choice, server, control
  <1> at \in [Tasks -> Places] /\ "retry" \in Tasks
    BY DEF Safe, Typed, TypeOK, Tasks
  <1>1. CASE PumpFails(c)
    BY <1>1 DEF PumpFails
  <1>2. CASE CaptureClosed(c)
    BY <1>2 DEF CaptureClosed
  <1>3. CASE FailureHandled(c)
    <2>1. at' = at \/ (at["retry"] = "none" /\ at' = [at EXCEPT !["retry"] = "sleep"])
      BY <1>3 DEF FailureHandled, NeedsRetry, Goto
    <2>2. UNCHANGED <<requested, choice, server, loop, after>>
      BY <1>3 DEF FailureHandled
    <2>3. CASE at' = at
      BY <2>2, <2>3
    <2>4. CASE at["retry"] = "none" /\ at' = [at EXCEPT !["retry"] = "sleep"]
      <3>1. /\ at'["command"] = at["command"] /\ at'["controller"] = at["controller"]
            /\ at'["output"] = at["output"] /\ at'["connection"] = at["connection"]
            /\ at'["retry"] = "sleep"
        BY <2>4
      <3> QED BY <2>2, <3>1
    <2> QED BY <2>1, <2>3, <2>4
  <1> QED BY <1>1, <1>2, <1>3

LEMMA OtherRuled ==
  ASSUME Safe, Ruled,
         \/ RetryWakes \/ Retried
         \/ \E c \in Commands : Receive(c)
         \/ Command \/ CommitPhonoStop
         \/ \E t \in {"command", "output"} : SignalAbsent(t)
         \/ Enable \/ Disable \/ Off
         \/ DisableSource("phono", "phono_off", "bluetooth_off")
         \/ DisableSource("bluetooth", "bluetooth_off", "off")
         \/ Setup \/ Connect \/ ConnectFails \/ Drop \/ Teardown \/ Abandon
  PROVE  Ruled'
  <1> USE DEF Ruled, Whereabouts, Returning, Starts, Disabled, Obeyed, StopPlaces,
              StartPlaces, Runs, Goto, Keep, Yield, Call, stream, choice, server,
              control
  <1> /\ {"command", "controller", "output", "connection", "retry"} \subseteq Tasks
      /\ NoTask \notin Tasks
    BY SourceAssumption DEF Tasks, Callers
  <1> at \in [Tasks -> Places] /\ after \in [Tasks -> Backs]
    BY DEF Safe, Typed, TypeOK
  <1>1. CASE RetryWakes
    BY <1>1 DEF RetryWakes, StillNeeded
  <1>2. CASE Retried
    BY <1>2 DEF Retried
  <1>3. ASSUME NEW c \in Commands, Receive(c)
        PROVE  Ruled'
    <2>1. commands # <<>> => Head(commands') = Head(commands)
      BY <1>3 DEF Receive, Safe, Typed, TypeOK
    <2>2. at["command"] # "idle" => commands # <<>>
      BY DEF Safe, Typed
    <2>3. UNCHANGED <<link, stream, choice, published, lastCommand, control, locals>>
      BY <1>3 DEF Receive
    <2> QED BY <2>1, <2>2, <2>3
  <1>4. CASE RefuseStart
    BY <1>4 DEF RefuseStart, Takes
  <1>5. CASE AcceptStart
    BY <1>5 DEF AcceptStart, Takes, DistributionAllowed
  <1>6. CASE AcceptStop
    BY <1>6 DEF AcceptStop, Takes
  <1>7. CASE StartFinished \/ StopFinished
    BY <1>7 DEF StartFinished, StopFinished, Finished
  <1>8. CASE CommitPhonoStop
    BY <1>8 DEF CommitPhonoStop
  <1>9. ASSUME NEW t \in {"command", "output"}, SignalAbsent(t)
        PROVE  Ruled'
    BY <1>9 DEF SignalAbsent
  <1>10. CASE Enable \/ Disable \/ Off
    BY <1>10 DEF Enable, Disable, Off
  <1>11. CASE \/ DisableSource("phono", "phono_off", "bluetooth_off")
              \/ DisableSource("bluetooth", "bluetooth_off", "off")
    BY <1>11 DEF DisableSource
  <1>12. CASE Setup \/ Connect \/ ConnectFails
    BY <1>12 DEF Setup, Connect, ConnectFails
  <1>13. CASE Drop \/ Teardown \/ Abandon
    BY <1>13 DEF Drop, Teardown, Abandon
  <1>14. ~PlayBluetooth
    BY DEF PlayBluetooth
  <1> QED
    BY <1>1, <1>2, <1>3, <1>4, <1>5, <1>6, <1>7, <1>8, <1>9, <1>10, <1>11, <1>12, <1>13,
       <1>14
    DEF Command
-----------------------------------------------------------------------------
(***************************************************************************)
(* Without select_source: nothing runs that nobody wants.                  *)
(***************************************************************************)
LEMMA WantedQuiet ==
  ASSUME Safe, Wanted, Quiet, requested' = requested
  PROVE  Wanted'
  <1> Stoppers \subseteq Tasks
    BY DEF Stoppers, Tasks, Callers
  <1> QED BY Standing DEF Safe, Locked, Wanted, Quiet, Waiting

LEMMA WantedStopping ==
  ASSUME Safe, Ruled, Wanted, NEW t \in Callers \cup {"connection"}, Stopping(t)
  PROVE  Wanted'
  <1> USE DEF Runs, Goto
  <1> /\ t \in Stoppers /\ t \in Tasks /\ Stoppers \subseteq Tasks
      /\ t # "retry" /\ "retry" \in Tasks /\ "retry" \notin Stoppers
    BY DEF Stoppers, Tasks, Callers, Ruled, Whereabouts, Stopping, StopRequest,
       StopRetryGone, StopSection, StopCaptureGone
  <1> at \in [Tasks -> Places] /\ after \in [Tasks -> Backs] /\ Queued
    BY DEF Safe, Typed, TypeOK, Locked
  <1>1. ASSUME at[t] \notin LockPlaces, Acquire(t, "stop_lock")
        PROVE  Wanted'
    <2>1. ~InLock(t)
      BY <1>1 DEF Safe, Locked
    <2>2. /\ at' = [at EXCEPT ![t] = "stop_lock"]
          /\ \A u, v : Ahead(u, v)' <=> Ahead(u, v) \/ (InLock(u) /\ v = t)
      BY <1>1, <2>1, Entering DEF Acquire
    <2>3. \A u \in Tasks : at'[u] \in {"start_lock", "start_open"} => InLock(u)
      BY <2>2 DEF Safe, Locked, LockPlaces
    <2> QED BY <2>2, <2>3 DEF Wanted
  <1>2. CASE StopRequest(t) /\ at["retry"] = "none"
    BY <1>1, <1>2 DEF StopRequest, LockPlaces
  <1>3. CASE StopRequest(t) /\ at["retry"] # "none"
    <2>1. at'[t] = "stop_retry"
      BY <1>3 DEF StopRequest
    <2> QED BY <2>1 DEF Wanted
  <1>4. CASE StopRetryGone(t)
    BY <1>1, <1>4 DEF StopRetryGone, LockPlaces
  <1>5. CASE StopSection(t)
    <2>1. /\ \A u : ~Ahead(u, t)
          /\ \A u, v : Ahead(u, v)' <=> Ahead(u, v) /\ u # t
      BY <1>5, Ordering, Releasing DEF StopSection
    <2>2. PICK place \in Backs \cup {"stop_capture"} : at' = [at EXCEPT ![t] = place]
      BY <1>5 DEF StopSection, Return
    <2>3. streaming' = FALSE /\ requested' = requested /\ at[t] = "stop_lock"
      BY <1>5 DEF StopSection
    <2>4. place \notin {"start_lock", "start_open"}
      BY DEF Backs
    <2>5. ASSUME NEW u \in Tasks, ~requested', at'[u] \in {"start_lock", "start_open"}
          PROVE  \E v \in Stoppers : \/ at'[v] = "stop_retry"
                                     \/ at'[v] = "stop_lock" /\ Ahead(u, v)'
      <3>1. u # t /\ at[u] = at'[u]
        BY <2>2, <2>4, <2>5
      <3>2. PICK v \in Stoppers : \/ at[v] = "stop_retry"
                                  \/ at[v] = "stop_lock" /\ Ahead(u, v)
        BY <2>3, <2>5, <3>1 DEF Wanted
      <3>3. v # t
        BY <2>1, <2>3, <3>2
      <3> QED BY <2>1, <2>2, <3>1, <3>2, <3>3
    <2> QED BY <2>3, <2>5 DEF Wanted
  <1>6. CASE StopCaptureGone(t)
    BY <1>6, QuietSteps, WantedQuiet DEF Safe, StopCaptureGone, stream
  <1> QED BY <1>2, <1>3, <1>4, <1>5, <1>6 DEF Stopping

LEMMA WantedStarting ==
  ASSUME Safe, Ruled, Wanted, NEW t \in Callers \cup {"retry"},
         Starting(t) \/ OpenSucceeds(t) \/ OpenFails(t)
  PROVE  Wanted'
  <1> USE DEF Runs, Goto, Starting
  <1> t \in Tasks /\ Stoppers \subseteq Tasks /\ "retry" \in Tasks /\ "retry" \notin Stoppers
    BY DEF Stoppers, Tasks, Callers
  <1> at \in [Tasks -> Places] /\ after \in [Tasks -> Backs] /\ Queued
    BY DEF Safe, Typed, TypeOK, Locked
  <1>1. CASE StartRequest(t)
    BY <1>1 DEF StartRequest, Wanted
  <1>2. CASE StartSection(t) /\ UNCHANGED streamLock
    <2>1. streamLock # Tail(streamLock)
      BY <1>2 DEF StartSection, Holds, Queued
    <2>2. /\ at[t] = "start_lock" /\ at' = [at EXCEPT ![t] = "start_open"]
          /\ UNCHANGED stream
      BY <1>2, <2>1 DEF StartSection
    <2>3. \A u, v : Ahead(u, v)' <=> Ahead(u, v)
      BY <1>2, Standing
    <2> QED BY <2>2, <2>3 DEF Wanted, stream
  <1>3. ASSUME Holds(t), streamLock' = Tail(streamLock), requested' = requested,
               at[t] \in {"start_lock", "start_open"},
               streaming' # streaming => at[t] = "start_open",
               \A u \in Tasks : \/ u # t /\ at'[u] = at[u]
                                \/ u = t /\ at'[u] \in Backs
                                \/ u = "retry" /\ u # t /\ at[u] = "none"
                                               /\ at'[u] = "sleep"
        PROVE  Wanted'
    <2>1. \A u, v : Ahead(u, v)' <=> Ahead(u, v) /\ u # t
      BY <1>3, Releasing
    <2>2. \A v \in Stoppers : at[v] \in {"stop_retry", "stop_lock"} => at'[v] = at[v]
      BY <1>3
    <2>3. \A u \in Tasks : at'[u] \in {"start_lock", "start_open"}
                           => u # t /\ at'[u] = at[u]
      BY <1>3 DEF Backs
    <2>4. ASSUME ~requested', streaming'
          PROVE  \E v \in Stoppers : at'[v] \in {"stop_retry", "stop_lock"}
      BY <1>3, <2>2, <2>4 DEF Wanted
    <2>5. ASSUME NEW u \in Tasks, ~requested', at'[u] \in {"start_lock", "start_open"}
          PROVE  \E v \in Stoppers : \/ at'[v] = "stop_retry"
                                     \/ at'[v] = "stop_lock" /\ Ahead(u, v)'
      <3>1. PICK v \in Stoppers : \/ at[v] = "stop_retry"
                                  \/ at[v] = "stop_lock" /\ Ahead(u, v)
        BY <1>3, <2>3, <2>5 DEF Wanted
      <3> QED BY <2>1, <2>2, <2>3, <2>5, <3>1
    <2> QED BY <2>4, <2>5 DEF Wanted
  <1>4. CASE StartSection(t) /\ streamLock' = Tail(streamLock)
    <2>1. at' = [at EXCEPT ![t] = after[t]]
      <3>1. streamLock # Tail(streamLock)
        BY <1>4 DEF StartSection, Holds, Queued
      <3> QED BY <1>4, <3>1 DEF StartSection, Return
    <2> QED BY <1>3, <1>4, <2>1 DEF StartSection, stream
  <1>5. CASE OpenSucceeds(t)
    BY <1>3, <1>5 DEF OpenSucceeds, Return, Safe, Locked
  <1>6. CASE OpenFails(t)
    BY <1>3, <1>6 DEF OpenFails, NeedsRetry, stream, Safe, Locked
  <1>7. CASE StartSection(t)
    BY <1>2, <1>4, <1>7 DEF StartSection
  <1> QED BY <1>1, <1>5, <1>6, <1>7

LEMMA WantedPump ==
  ASSUME Safe, Wanted, NEW c \in Captures,
         PumpFails(c) \/ CaptureClosed(c) \/ FailureHandled(c)
  PROVE  Wanted'
  <1> Stoppers \subseteq Tasks /\ "retry" \in Tasks /\ "retry" \notin Stoppers
    BY DEF Stoppers, Tasks, Callers
  <1> at \in [Tasks -> Places] /\ Queued
    BY DEF Safe, Typed, TypeOK, Locked
  <1>1. /\ streamLock' = streamLock /\ requested' = requested
        /\ streaming' \in {streaming, FALSE}
        /\ \A u \in Tasks : \/ at'[u] = at[u]
                            \/ u = "retry" /\ at[u] = "none" /\ at'[u] = "sleep"
    <2>1. CASE PumpFails(c) \/ CaptureClosed(c)
      BY <2>1 DEF PumpFails, CaptureClosed, control
    <2>2. CASE FailureHandled(c)
      BY <2>2 DEF FailureHandled, NeedsRetry, Goto
    <2> QED BY <2>1, <2>2
  <1>2. \A u, v : Ahead(u, v)' <=> Ahead(u, v)
    BY <1>1, Standing
  <1>3. \A v \in Stoppers : at'[v] = at[v]
    BY <1>1
  <1>4. \A u \in Tasks : at'[u] \in {"start_lock", "start_open"} => at[u] = at'[u]
    BY <1>1
  <1>5. ASSUME ~requested', streaming'
        PROVE  \E v \in Stoppers : at'[v] \in {"stop_retry", "stop_lock"}
    BY <1>1, <1>3, <1>5 DEF Wanted
  <1>6. ASSUME NEW u \in Tasks, ~requested', at'[u] \in {"start_lock", "start_open"}
        PROVE  \E v \in Stoppers : \/ at'[v] = "stop_retry"
                                   \/ at'[v] = "stop_lock" /\ Ahead(u, v)'
    <2>1. PICK v \in Stoppers : \/ at[v] = "stop_retry"
                                \/ at[v] = "stop_lock" /\ Ahead(u, v)
      <3>1. ~requested /\ at[u] \in {"start_lock", "start_open"}
        BY <1>1, <1>4, <1>6
      <3> QED BY <3>1 DEF Wanted
    <2> QED BY <1>2, <1>3, <2>1
  <1> QED BY <1>5, <1>6 DEF Wanted

-----------------------------------------------------------------------------
(* The invariant without select_source.                                    *)
Plain == Safe /\ Ruled /\ Wanted

LEMMA PlainStep ==
  ASSUME Selectors = {}, Plain, Next
  PROVE  Plain'
  <1> USE DEF Plain
  <1>1. Safe'
    BY SafeStep
  <1>2. ASSUME NEW t \in Callers \cup {"connection"}, Stopping(t)
        PROVE  Ruled' /\ Wanted'
    BY <1>2, StoppingRuled, WantedStopping
  <1>3. ASSUME NEW t \in Callers \cup {"retry"},
               Starting(t) \/ OpenSucceeds(t) \/ OpenFails(t)
        PROVE  Ruled' /\ Wanted'
    BY <1>3, StartingRuled, WantedStarting
  <1>4. ASSUME NEW c \in Captures,
               PumpFails(c) \/ CaptureClosed(c) \/ FailureHandled(c)
        PROVE  Ruled' /\ Wanted'
    BY <1>4, PumpRuled, WantedPump
  <1>5. ASSUME
         \/ RetryWakes \/ Retried
         \/ \E c \in Commands : Receive(c)
         \/ Command \/ CommitPhonoStop
         \/ \E t \in {"command", "output"} : SignalAbsent(t)
         \/ Enable \/ Disable \/ Off
         \/ DisableSource("phono", "phono_off", "bluetooth_off")
         \/ DisableSource("bluetooth", "bluetooth_off", "off")
         \/ Setup \/ Connect \/ ConnectFails \/ Drop \/ Teardown \/ Abandon
        PROVE  Ruled' /\ Wanted'
    <2>1. Ruled'
      BY <1>5, OtherRuled
    <2>2. Quiet
      BY <1>5, QuietSteps DEF Safe
    <2>3. requested' = requested
      <3> USE DEF stream
      <3>1. CASE RetryWakes \/ Retried \/ CommitPhonoStop \/ Enable \/ Disable \/ Off
        BY <3>1 DEF RetryWakes, Retried, CommitPhonoStop, Enable, Disable, Off
      <3>2. CASE Command \/ \E c \in Commands : Receive(c)
        BY <3>2 DEF Command, RefuseStart, PlayBluetooth, AcceptStart, AcceptStop,
           StartFinished, StopFinished, Receive
      <3>3. CASE \E t \in {"command", "output"} : SignalAbsent(t)
        BY <3>3 DEF SignalAbsent
      <3>4. CASE \/ DisableSource("phono", "phono_off", "bluetooth_off")
                 \/ DisableSource("bluetooth", "bluetooth_off", "off")
        BY <3>4 DEF DisableSource
      <3>5. CASE Setup \/ Connect \/ ConnectFails \/ Drop \/ Teardown \/ Abandon
        BY <3>5 DEF Setup, Connect, ConnectFails, Drop, Teardown, Abandon
      <3> QED BY <1>5, <3>1, <3>2, <3>3, <3>4, <3>5
    <2> QED BY <2>1, <2>2, <2>3, WantedQuiet
  <1> QED BY <1>1, <1>2, <1>3, <1>4, <1>5 DEF Next

LEMMA PlainStutter ==
  ASSUME Plain, UNCHANGED vars
  PROVE  Plain'
  <1> USE DEF vars, link, stream, choice, server, control, locals
  <1>1. Safe'
    BY SafeStutter DEF Plain
  <1>2. Ruled'
    BY DEF Plain, Ruled, Whereabouts, Returning, Starts, Disabled, Obeyed
  <1>3. Quiet /\ requested' = requested
    BY DEF Quiet
  <1> QED BY <1>1, <1>2, <1>3, WantedQuiet DEF Plain

LEMMA AlwaysPlain ==
  ASSUME Selectors = {}
  PROVE  Spec => []Plain
  <1>1. Init => Plain
    <2>1. Init => Wanted
      BY DEF Init, Wanted, Tasks, Callers
    <2> QED BY <2>1, InitTyped, InitLocked, InitRuled DEF Plain, Safe
  <1>2. Plain /\ [Next]_vars => Plain'
    BY PlainStep, PlainStutter
  <1> QED BY <1>1, <1>2, PTL DEF Spec

LEMMA QuietStreamIsWanted ==
  ASSUME Plain, Quiescent
  PROVE  streaming => requested
  BY DEF Plain, Wanted, Quiescent, Stoppers, Callers

(* A stream nobody wants does not survive: whatever withdraws the request  *)
(* queues for the lock behind every start that could still open it, with   *)
(* lost connections as well.                                               *)
THEOREM StreamsAreWanted ==
  ASSUME Selectors = {}
  PROVE  Spec => []StreamIsWanted
  <1>1. Plain => StreamIsWanted
    BY QuietStreamIsWanted DEF StreamIsWanted
  <1> QED BY <1>1, AlwaysPlain, PTL

(* The output that disables the distribution silences it: nothing asks for *)
(* a stream once its stop has withdrawn the request.                       *)
THEOREM DisablingSilences ==
  ASSUME Selectors = {}
  PROVE  Spec => []DisabledIsSilent
  <1>1. Plain => DisabledIsSilent
    <2> SUFFICES ASSUME Plain, Quiescent, ~enabled PROVE ~streaming
      BY DEF DisabledIsSilent
    <2>1. ~requested
      BY DEF Plain, Ruled, Disabled, Quiescent, Callers
    <2> QED BY <2>1, QuietStreamIsWanted
  <1> QED BY <1>1, AlwaysPlain, PTL

(* A stop that the server sent last is obeyed: neither a retry nor a start *)
(* that was under way, nor a reconnection, brings the stream back.         *)
THEOREM StopsStick ==
  ASSUME Selectors = {}
  PROVE  Spec => []StopSticks
  <1>1. Plain => StopSticks
    <2> SUFFICES ASSUME Plain, Quiescent, lastCommand = "stop"
                 PROVE  ~streaming /\ ~requested
      BY DEF StopSticks
    <2>1. ~requested
      BY DEF Plain, Ruled, Obeyed, Quiescent, Callers
    <2> QED BY <2>1, QuietStreamIsWanted
  <1> QED BY <1>1, AlwaysPlain, PTL
-----------------------------------------------------------------------------
(***************************************************************************)
(* Without select_source, on a connection that lasts.                      *)
(***************************************************************************)
Linked == Connection /\ Switched

LEMMA LinkedStep ==
  ASSUME ~Dropping, Selectors = {}, Plain, Linked, Next
  PROVE  Linked'
  <1> USE DEF Linked, Connection, Switched, Runs, Goto, Keep, Yield, Call, link, server,
              choice, stream, control
  <1> /\ {"command", "controller", "output", "connection", "retry"} \subseteq Tasks
      /\ at \in [Tasks -> Places] /\ after \in [Tasks -> Backs]
      /\ at["command"] # "idle" => commands # <<>>
    BY DEF Plain, Safe, Typed, TypeOK, Tasks, Callers
  <1>1. ASSUME NEW t \in Callers \cup {"connection"}, Stopping(t)
        PROVE  Linked'
    <2> t \in Tasks /\ t # "connection"
      BY <1>1 DEF Tasks, Stopping, StopRequest, StopRetryGone, StopSection,
         StopCaptureGone
    <2>1. /\ at'["connection"] = at["connection"]
          /\ at["output"] = "idle" => at'["output"] = "idle"
          /\ UNCHANGED <<connected, client, commands, enabled>>
          /\ requested' => requested
      BY <1>1 DEF Stopping, StopRequest, StopRetryGone, StopSection, StopCaptureGone,
         Acquire, Return
    <2> QED BY <2>1
  <1>2. ASSUME NEW t \in Callers \cup {"retry"},
               Starting(t) \/ OpenSucceeds(t) \/ OpenFails(t)
        PROVE  Linked'
    <2> t \in {"command", "retry"}
      BY <1>2 DEF Callers, Plain, Ruled, Whereabouts, Starting, StartRequest,
         StartSection, OpenSucceeds, OpenFails, StopPlaces, StartPlaces
    <2>1. /\ at'["connection"] = at["connection"]
          /\ at'["output"] = at["output"]
          /\ UNCHANGED <<connected, client, commands, enabled>>
      BY <1>2 DEF Starting, StartRequest, StartSection, OpenSucceeds, OpenFails,
         Acquire, Return, NeedsRetry
    <2>2. requested' => connected
      BY <1>2 DEF Starting, StartRequest, StartSection, OpenSucceeds, OpenFails,
         Plain, Ruled, Starts
    <2> QED BY <2>1, <2>2
  <1>3. ASSUME NEW c \in Captures,
               PumpFails(c) \/ CaptureClosed(c) \/ FailureHandled(c)
        PROVE  Linked'
    BY <1>3 DEF PumpFails, CaptureClosed, FailureHandled, NeedsRetry
  <1>4. CASE RetryWakes \/ Retried \/ CommitPhonoStop
    BY <1>4 DEF RetryWakes, Retried, CommitPhonoStop
  <1>5. CASE \E c \in Commands : Receive(c)
    BY <1>5 DEF Receive
  <1>6. CASE RefuseStart \/ PlayBluetooth \/ AcceptStart \/ AcceptStop
    BY <1>6 DEF RefuseStart, PlayBluetooth, AcceptStart, AcceptStop
  <1>7. CASE StartFinished \/ StopFinished
    BY <1>7 DEF StartFinished, StopFinished, Finished
  <1>8. CASE \E t \in {"command", "output"} : SignalAbsent(t)
    BY <1>8 DEF SignalAbsent
  <1>9. CASE Enable \/ Disable \/ Off
    BY <1>9 DEF Enable, Disable, Off
  <1>10. CASE \/ DisableSource("phono", "phono_off", "bluetooth_off")
              \/ DisableSource("bluetooth", "bluetooth_off", "off")
    BY <1>10 DEF DisableSource
  <1>11. CASE Setup \/ Connect
    BY <1>11 DEF Setup, Connect
  <1>12. ~ConnectFails /\ ~Drop /\ ~Teardown /\ ~Abandon
    BY DEF ConnectFails, Drop, Teardown, Abandon
  <1> QED
    BY <1>1, <1>2, <1>3, <1>4, <1>5, <1>6, <1>7, <1>8, <1>9, <1>10, <1>11, <1>12
    DEF Next, Command

Settled == Served /\ Stopped /\ Closing

LEMMA SettledStopping ==
  ASSUME Plain, Linked, Settled, NEW t \in Callers \cup {"connection"}, Stopping(t)
  PROVE  Settled'
  <1> USE DEF Runs, Goto
  <1> /\ t \in {"command", "output"} /\ t \in Tasks
      /\ "command" \in Tasks /\ "output" \in Tasks /\ "retry" \in Tasks
      /\ t \in Callers \cup {"connection"}
    BY DEF Tasks, Callers, Plain, Ruled, Whereabouts, Linked, Connection, Stopping,
       StopRequest, StopRetryGone, StopSection, StopCaptureGone
  <1> /\ at \in [Tasks -> Places] /\ after \in [Tasks -> Backs] /\ Queued
      /\ awaited \in [Callers \cup {"connection"} -> Captures \cup {NoCapture}]
    BY DEF Plain, Safe, Typed, TypeOK, Locked
  <1>1. ASSUME at[t] \in {"stop", "stop_retry"}, Acquire(t, "stop_lock"),
               ~requested', at["retry"] = "none",
               UNCHANGED <<streaming, streamTask, capture, awaited>>
        PROVE  Settled'
    <2>1. ~InLock(t)
      BY <1>1 DEF Plain, Safe, Locked, LockPlaces
    <2>2. /\ at' = [at EXCEPT ![t] = "stop_lock"]
          /\ \A u, v : Ahead(u, v)' <=> Ahead(u, v) \/ (InLock(u) /\ v = t)
      BY <1>1, <2>1, Entering DEF Acquire
    <2>3. at["command"] \in {"start_lock", "start_open"} => InLock("command")
      BY DEF Plain, Safe, Locked, LockPlaces
    <2>4. Stopped'
      BY <1>1, <2>2, <2>3 DEF Settled, Stopped, StartPlaces
    <2> QED BY <1>1, <2>2, <2>4 DEF Settled, Served, Closing
  <1>2. CASE StopRequest(t) /\ at["retry"] = "none"
    BY <1>1, <1>2 DEF StopRequest
  <1>3. CASE StopRequest(t) /\ at["retry"] # "none"
    <2>1. /\ at' = [at EXCEPT !["retry"] = "none", ![t] = "stop_retry"]
          /\ ~requested' /\ at[t] = "stop"
          /\ UNCHANGED <<streaming, streamTask, capture, awaited>>
      BY <1>3 DEF StopRequest
    <2>2. \A v \in {"command", "output"} :
             at[v] \notin {"stop_retry", "stop_lock", "stop_capture"}
      BY <1>3 DEF Settled, Stopped
    <2>3. Stopped'
      BY <2>1, <2>2 DEF Stopped
    <2> QED BY <2>1, <2>3 DEF Settled, Served, Closing
  <1>4. CASE StopRetryGone(t)
    <2>1. ~requested /\ at["retry"] = "none"
      BY <1>4 DEF StopRetryGone, Settled, Stopped
    <2> QED BY <1>1, <1>4, <2>1 DEF StopRetryGone, stream
  <1>5. CASE StopSection(t)
    <2>1. /\ ~Ahead("command", t)
          /\ \A u, v : Ahead(u, v)' <=> Ahead(u, v) /\ u # t
      BY <1>5, Ordering, Releasing DEF StopSection
    <2>2. /\ at[t] = "stop_lock" /\ ~requested /\ at["retry"] = "none"
          /\ requested' = requested /\ streamTask' = NoCapture
      BY <1>5 DEF StopSection, Settled, Stopped
    <2>3. PICK place \in Backs \cup {"stop_capture"} : at' = [at EXCEPT ![t] = place]
      BY <1>5 DEF StopSection, Return
    <2>4. at["command"] \notin StartPlaces
      BY <2>1, <2>2 DEF Settled, Stopped, StartPlaces, Plain, Ruled, Starts, Linked,
         Switched
    <2>5. Stopped'
      BY <2>1, <2>2, <2>3, <2>4 DEF Settled, Stopped, StartPlaces, Backs
    <2>6. Served'
      BY <2>2 DEF Served
    <2>7. Closing'
      <3>1. CASE streamTask = NoCapture
        <4>1. /\ UNCHANGED <<capture, awaited>>
              /\ \A v \in {"command", "output"} : v # t => at'[v] = at[v]
          BY <1>5, <2>3, <3>1 DEF StopSection
        <4> QED BY <2>2, <4>1 DEF Settled, Closing
      <3>2. CASE streamTask # NoCapture
        <4>1. /\ capture' = [capture EXCEPT ![streamTask].state = "closing"]
              /\ awaited' = [awaited EXCEPT ![t] = streamTask]
              /\ at' = [at EXCEPT ![t] = "stop_capture"]
          BY <1>5, <3>2 DEF StopSection
        <4>2. /\ streamTask \in Captures
              /\ capture \in [Captures -> [state : {"gone", "live", "failed", "closing"},
                                           source : Sources]]
          BY <3>2 DEF Plain, Safe, Typed, TypeOK
        <4>3. /\ at'[t] = "stop_capture" /\ awaited'[t] = streamTask
              /\ \A v \in {"command", "output"} :
                    v # t => at'[v] = at[v] /\ awaited'[v] = awaited[v]
          BY <4>1 DEF Callers
        <4>4. \A c \in Captures : c # streamTask => capture'[c] = capture[c]
          BY <4>1, <4>2
        <4> QED BY <2>2, <4>3, <4>4 DEF Settled, Closing
      <3> QED BY <3>1, <3>2
    <2> QED BY <2>5, <2>6, <2>7 DEF Settled
  <1>6. CASE StopCaptureGone(t)
    <2>1. /\ at[t] = "stop_capture" /\ capture[awaited[t]].state = "gone"
          /\ at' = [at EXCEPT ![t] = after[t]]
          /\ awaited' = [awaited EXCEPT ![t] = NoCapture]
          /\ UNCHANGED <<requested, streaming, streamTask, capture, streamLock>>
      BY <1>6 DEF StopCaptureGone, Return, stream
    <2>2. \A u, v : Ahead(u, v)' <=> Ahead(u, v)
      BY <2>1, Standing
    <2>3. Stopped'
      BY <2>1, <2>2 DEF Settled, Stopped, StartPlaces, Backs
    <2>4. Served'
      BY <2>1 DEF Settled, Served
    <2>5. Closing'
      BY <2>1 DEF Settled, Closing, Callers
    <2> QED BY <2>3, <2>4, <2>5 DEF Settled
  <1> QED BY <1>2, <1>3, <1>4, <1>5, <1>6 DEF Stopping

LEMMA SettledStarting ==
  ASSUME Plain, Linked, Settled, NEW t \in Callers \cup {"retry"},
         Starting(t) \/ OpenSucceeds(t) \/ OpenFails(t)
  PROVE  Settled'
  <1> USE DEF Runs, Goto, Starting
  <1> /\ t \in {"command", "retry"} /\ t \in Tasks
      /\ "command" \in Tasks /\ "output" \in Tasks /\ "retry" \in Tasks
    BY DEF Tasks, Callers, Plain, Ruled, Whereabouts, StartRequest, StartSection,
       OpenSucceeds, OpenFails, StopPlaces, StartPlaces
  <1> /\ at \in [Tasks -> Places] /\ after \in [Tasks -> Backs] /\ Queued
    BY DEF Plain, Safe, Typed, TypeOK, Locked
  (* A start that is under way has no stop behind its section.             *)
  <1>1. /\ \A v \in {"command", "output"} : at[v] # "stop_capture"
        /\ t = "retry" => \A v \in {"command", "output"} :
                            at[v] \notin {"stop_retry", "stop_lock", "stop_capture"}
    <2>1. at[t] \in StartPlaces
      BY DEF StartRequest, StartSection, OpenSucceeds, OpenFails, StartPlaces
    <2> QED BY <2>1 DEF Settled, Stopped, StartPlaces
  <1>2. CASE StartRequest(t)
    <2>1. /\ at[t] = "start" /\ at' = [at EXCEPT ![t] = "start_lock"]
          /\ UNCHANGED <<streaming, streamTask, capture, awaited>>
      BY <1>2 DEF StartRequest, Acquire
    <2>2. \A v \in {"command", "output"} :
             at[v] \notin {"stop_retry", "stop_lock", "stop_capture"}
      BY <1>1, <2>1 DEF Plain, Ruled, Starts, Linked, Switched
    <2>3. Stopped'
      BY <2>1, <2>2 DEF Stopped
    <2>4. Served'
      BY <2>1 DEF Served
    <2>5. Closing'
      BY <1>1, <2>1 DEF Settled, Closing
    <2> QED BY <2>3, <2>4, <2>5 DEF Settled
  <1>3. ASSUME UNCHANGED <<requested, awaited>>, at'["output"] = at["output"],
               at'["command"] \in Backs \cup {"start_open", at["command"]},
               at'["command"] = "start_open" => at["command"] \in {"start_lock", "start_open"},
               at["retry"] = "none" /\ ~requested => at'["retry"] = "none",
               \A v : at'["command"] \in {"start_lock", "start_open"}
                      /\ Ahead("command", v) => Ahead("command", v)'
        PROVE  Stopped'
    <2>1. \A v \in {"command", "output"} : at'[v] # "stop_capture"
      BY <1>1, <1>3 DEF Backs
    <2>2. ASSUME NEW v \in {"command", "output"}, at'[v] \in {"stop_retry", "stop_lock"}
          PROVE  /\ ~requested' /\ at'["retry"] = "none"
                 /\ at'[v] = "stop_lock" /\ at'["command"] \in {"start_lock", "start_open"}
                       => Ahead("command", v)'
      <3>1. at[v] = at'[v]
        BY <1>3, <2>2 DEF Backs
      <3>2. ~requested /\ at["retry"] = "none"
        BY <2>2, <3>1 DEF Settled, Stopped
      <3>3. at'["command"] \in {"start_lock", "start_open"}
              => at["command"] \in {"start_lock", "start_open"}
        BY <1>3 DEF Backs
      <3>4. at'[v] = "stop_lock" /\ at'["command"] \in {"start_lock", "start_open"}
              => Ahead("command", v)
        BY <3>1, <3>3 DEF Settled, Stopped
      <3> QED BY <1>3, <3>2, <3>4
    <2> QED BY <2>1, <2>2 DEF Stopped
  <1>4. \A c \in Captures : capture[c].state # "closing"
    BY <1>1 DEF Settled, Closing
  <1>5. ASSUME Holds(t), streamLock' = Tail(streamLock), at'[t] \in Backs
        PROVE  \A v : at'["command"] \in {"start_lock", "start_open"}
                      /\ Ahead("command", v) => Ahead("command", v)'
    BY <1>5, Releasing DEF Backs
  <1>6. CASE StartSection(t) /\ UNCHANGED streamLock
    <2>1. streamLock # Tail(streamLock)
      BY <1>6 DEF StartSection, Holds, Queued
    <2>2. /\ at[t] = "start_lock" /\ at' = [at EXCEPT ![t] = "start_open"]
          /\ UNCHANGED <<requested, streaming, streamTask, capture, awaited>>
      BY <1>6, <2>1 DEF StartSection, stream
    <2>3. \A u, v : Ahead(u, v)' <=> Ahead(u, v)
      BY <1>6, Standing
    <2>4. Stopped'
      BY <1>3, <2>2, <2>3
    <2> QED BY <1>4, <2>2, <2>4 DEF Settled, Served, Closing
  <1>7. CASE StartSection(t) /\ streamLock' = Tail(streamLock)
    <2>1. streamLock # Tail(streamLock)
      BY <1>7 DEF StartSection, Holds, Queued
    <2>2. /\ at[t] = "start_lock" /\ at' = [at EXCEPT ![t] = after[t]]
          /\ UNCHANGED <<requested, streaming, streamTask, capture, awaited>>
          /\ ~client \/ AlreadyStreaming
      BY <1>7, <2>1 DEF StartSection, Return, stream
    <2>3. Stopped'
      BY <1>3, <1>5, <1>7, <2>2 DEF StartSection
    <2>4. t = "retry" => after[t] = "retried"
      BY <2>2 DEF Plain, Ruled, Returning, StartPlaces
    <2>5. t = "command" => streaming
      BY <2>2 DEF AlreadyStreaming, Linked, Connection, Plain, Safe, Typed, Owned
    <2>6. Served'
      BY <2>2, <2>4, <2>5 DEF Settled, Served
    <2> QED BY <1>4, <2>2, <2>3, <2>6 DEF Settled, Closing
  <1>8. CASE OpenSucceeds(t)
    <2>1. PICK c \in Captures :
             /\ capture' = [capture EXCEPT ![c] = [state |-> "live", source |-> selected]]
             /\ at[t] = "start_open" /\ at' = [at EXCEPT ![t] = after[t]]
             /\ streaming' = TRUE /\ streamLock' = Tail(streamLock)
             /\ UNCHANGED <<requested, awaited>>
      BY <1>8 DEF OpenSucceeds, Return
    <2>2. Stopped'
      BY <1>3, <1>5, <2>1 DEF Plain, Safe, Locked
    <2>3. \A d \in Captures : capture'[d].state # "closing"
      BY <1>4, <2>1 DEF Plain, Safe, Typed, TypeOK
    <2> QED BY <2>1, <2>2, <2>3 DEF Settled, Served, Closing
  <1>9. CASE OpenFails(t)
    <2>1. /\ at[t] = "start_open" /\ streamLock' = Tail(streamLock)
          /\ at' = IF NeedsRetry THEN [at EXCEPT ![t] = after[t], !["retry"] = "sleep"]
                                 ELSE [at EXCEPT ![t] = after[t]]
          /\ UNCHANGED <<requested, streaming, streamTask, capture, awaited>>
      BY <1>9 DEF OpenFails, stream
    <2>2. Stopped'
      BY <1>3, <1>5, <2>1 DEF Plain, Safe, Locked, NeedsRetry
    <2>3. t = "retry" => after[t] = "retried"
      BY <2>1 DEF Plain, Ruled, Returning, StartPlaces
    <2>4. Served'
      <3>1. requested => connected
        BY DEF Linked, Connection
      <3> QED BY <2>1, <2>3, <3>1 DEF Served, NeedsRetry
    <2> QED BY <1>4, <2>1, <2>2, <2>4 DEF Settled, Closing
  <1>10. CASE StartSection(t)
    BY <1>6, <1>7, <1>10 DEF StartSection
  <1> QED BY <1>2, <1>8, <1>9, <1>10

LEMMA SettledPump ==
  ASSUME Plain, Linked, Settled, NEW c \in Captures,
         PumpFails(c) \/ CaptureClosed(c) \/ FailureHandled(c)
  PROVE  Settled'
  <1> "command" \in Tasks /\ "output" \in Tasks /\ "retry" \in Tasks
    BY DEF Tasks, Callers
  <1> /\ at \in [Tasks -> Places] /\ Queued
      /\ capture \in [Captures -> [state : {"gone", "live", "failed", "closing"},
                                   source : Sources]]
    BY DEF Plain, Safe, Typed, TypeOK, Locked
  <1>1. /\ UNCHANGED <<streamLock, requested, awaited>>
        /\ at'["command"] = at["command"] /\ at'["output"] = at["output"]
        /\ \/ /\ UNCHANGED <<streaming, streamTask>> /\ at'["retry"] = at["retry"]
           \/ /\ streamTask' = NoCapture
              /\ at'["retry"] = IF NeedsRetry THEN "sleep" ELSE at["retry"]
    <2>1. CASE PumpFails(c) \/ CaptureClosed(c)
      BY <2>1 DEF PumpFails, CaptureClosed, control
    <2>2. CASE FailureHandled(c)
      BY <2>2 DEF FailureHandled, Goto
    <2> QED BY <2>1, <2>2
  <1>2. \A u, v : Ahead(u, v)' <=> Ahead(u, v)
    BY <1>1, Standing
  <1>3. Stopped'
    BY <1>1, <1>2 DEF Settled, Stopped, NeedsRetry
  <1>4. Served'
    <2>1. requested => connected
      BY DEF Linked, Connection
    <2> QED BY <1>1, <2>1 DEF Settled, Served, NeedsRetry
  <1>5. \A d \in Captures : capture'[d].state = "closing" => capture[d].state = "closing"
    <2>1. CASE PumpFails(c)
      BY <2>1 DEF PumpFails
    <2>2. CASE CaptureClosed(c)
      BY <2>2 DEF CaptureClosed
    <2>3. CASE FailureHandled(c)
      BY <2>3 DEF FailureHandled
    <2> QED BY <2>1, <2>2, <2>3
  <1>6. Closing'
    BY <1>1, <1>5 DEF Settled, Closing
  <1> QED BY <1>3, <1>4, <1>6 DEF Settled

LEMMA SettledOther ==
  ASSUME Selectors = {}, Plain, Linked, Settled,
         \/ RetryWakes \/ Retried
         \/ \E c \in Commands : Receive(c)
         \/ Command \/ CommitPhonoStop
         \/ \E t \in {"command", "output"} : SignalAbsent(t)
         \/ Enable \/ Disable \/ Off
         \/ DisableSource("phono", "phono_off", "bluetooth_off")
         \/ DisableSource("bluetooth", "bluetooth_off", "off")
         \/ Setup \/ Connect \/ ConnectFails \/ Drop \/ Teardown \/ Abandon
  PROVE  Settled'
  <1> USE DEF Runs, Goto, Call, stream, control
  <1> "command" \in Tasks /\ "output" \in Tasks /\ "retry" \in Tasks
      /\ "connection" \in Tasks
    BY DEF Tasks, Callers
  <1> at \in [Tasks -> Places] /\ Queued
    BY DEF Plain, Safe, Typed, TypeOK, Locked
  <1>1. Quiet
    BY QuietSteps DEF Plain, Safe
  <1>2. \A u, v : Ahead(u, v)' <=> Ahead(u, v)
    BY <1>1, Standing DEF Quiet
  (* What these steps may do: a start is accepted while the output is idle. *)
  <1>3. ASSUME UNCHANGED <<requested, awaited>>,
               \A v \in {"command", "output"} :
                  at'[v] = "stop_capture" <=> at[v] = "stop_capture",
               at'["command"] \in StartPlaces
                  => \/ at["command"] \in StartPlaces
                     \/ at["command"] # "stop_capture" /\ at["output"] = "idle",
               at["retry"] = "none" => at'["retry"] = "none",
               at'["retry"] = "none" /\ requested => at["retry"] = "none" \/ streaming
        PROVE  Settled'
    <2>1. \A v \in {"command", "output"} :
             at'[v] \in {"stop_retry", "stop_lock"} => at[v] = at'[v]
      BY <1>1 DEF Quiet, Waiting
    <2>2. at'["command"] \in {"start_lock", "start_open"}
             <=> at["command"] \in {"start_lock", "start_open"}
      BY <1>1 DEF Quiet, Waiting
    <2>3. ASSUME NEW v \in {"command", "output"}
          PROVE  /\ at'[v] \in {"stop_retry", "stop_lock", "stop_capture"}
                       => ~requested' /\ at'["retry"] = "none"
                 /\ at'[v] = "stop_lock" /\ at'["command"] \in {"start_lock", "start_open"}
                       => Ahead("command", v)'
                 /\ at'[v] = "stop_capture"
                       => at'["command"] \notin StartPlaces /\ streamTask' = NoCapture
      <3>1. at'[v] \in {"stop_retry", "stop_lock", "stop_capture"}
               => ~requested' /\ at'["retry"] = "none"
        BY <1>3, <2>1 DEF Settled, Stopped
      <3>2. at'[v] = "stop_lock" /\ at'["command"] \in {"start_lock", "start_open"}
               => Ahead("command", v)'
        BY <1>2, <2>1, <2>2 DEF Settled, Stopped
      <3>3. at'[v] = "stop_capture"
               => at'["command"] \notin StartPlaces /\ streamTask' = NoCapture
        BY <1>1, <1>3 DEF Settled, Stopped, Quiet
      <3> QED BY <3>1, <3>2, <3>3
    <2>4. Stopped'
      BY <2>3 DEF Stopped
    <2>5. Served'
      BY <1>1, <1>3, <2>2 DEF Settled, Served, Quiet
    <2>6. Closing'
      BY <1>1, <1>3 DEF Settled, Closing, Quiet
    <2> QED BY <2>4, <2>5, <2>6 DEF Settled
  <1> USE DEF StartPlaces
  <1>4. CASE RetryWakes
    <2>1. requested => connected
      BY DEF Linked, Connection
    <2> QED BY <1>3, <1>4, <2>1 DEF RetryWakes, StillNeeded
  <1>5. CASE Retried
    <2>1. requested => connected
      BY DEF Linked, Connection
    <2>2. AlreadyStreaming => streaming
      BY DEF AlreadyStreaming, Plain, Safe, Owned
    <2> QED BY <1>3, <1>5, <2>1, <2>2 DEF Retried, StillNeeded
  <1>6. CASE CommitPhonoStop \/ \E c \in Commands : Receive(c)
    BY <1>3, <1>6 DEF CommitPhonoStop, Receive
  <1>7. CASE RefuseStart \/ AcceptStop
    BY <1>3, <1>7 DEF RefuseStart, AcceptStop, Takes
  <1>8. CASE AcceptStart
    <2>1. enabled /\ at["command"] = "idle"
      BY <1>8 DEF AcceptStart, Takes, DistributionAllowed, Plain, Ruled, Whereabouts,
         StopPlaces
    <2>2. at["output"] = "idle"
      BY <2>1 DEF Linked, Switched
    <2> QED BY <1>3, <1>8, <2>1, <2>2 DEF AcceptStart
  <1>9. CASE StartFinished \/ StopFinished
    BY <1>3, <1>9 DEF StartFinished, StopFinished, Finished
  <1>10. ASSUME NEW t \in {"command", "output"}, SignalAbsent(t)
         PROVE  Settled'
    BY <1>3, <1>10 DEF SignalAbsent
  <1>11. CASE Enable \/ Disable \/ Off
    BY <1>3, <1>11 DEF Enable, Disable, Off
  <1>12. CASE \/ DisableSource("phono", "phono_off", "bluetooth_off")
              \/ DisableSource("bluetooth", "bluetooth_off", "off")
    BY <1>3, <1>12 DEF DisableSource
  <1>13. CASE Setup \/ Connect \/ ConnectFails
    BY <1>3, <1>13 DEF Setup, Connect, ConnectFails
  <1>14. CASE Drop \/ Teardown \/ Abandon
    BY <1>3, <1>14 DEF Drop, Teardown, Abandon
  <1>15. ~PlayBluetooth
    BY DEF PlayBluetooth, Plain, Ruled, Whereabouts
  <1> QED
    BY <1>4, <1>5, <1>6, <1>7, <1>8, <1>9, <1>10, <1>11, <1>12, <1>13, <1>14, <1>15
    DEF Command

(* The invariant without select_source, on a connection that lasts.        *)
Steady == Plain /\ Linked /\ Settled

LEMMA AlwaysSteady ==
  ASSUME Selectors = {}, ~Dropping
  PROVE  Spec => []Steady
  <1>1. Init => Plain
    <2>1. Init => Wanted
      BY DEF Init, Wanted, Tasks, Callers
    <2> QED BY <2>1, InitTyped, InitLocked, InitRuled DEF Plain, Safe
  <1>2. Init => Linked /\ Settled
    <2> SUFFICES ASSUME Init PROVE Linked /\ Settled
      OBVIOUS
    <2>1. /\ at["command"] = "idle" /\ at["output"] = "idle"
          /\ at["connection"] = "down" /\ at["retry"] = "none"
          /\ \A c \in Captures : capture[c].state = "gone"
      BY DEF Init, Tasks, Callers
    <2> QED
      BY <2>1 DEF Init, Linked, Connection, Switched, Settled, Served, Stopped, Closing
  <1>3. Steady /\ Next => Steady'
    <2> SUFFICES ASSUME Steady, Next PROVE Steady'
      OBVIOUS
    <2>1. Plain' /\ Linked'
      BY PlainStep, LinkedStep DEF Steady
    <2>2. Settled'
      BY SettledStopping, SettledStarting, SettledPump, SettledOther DEF Steady, Next
    <2> QED BY <2>1, <2>2 DEF Steady
  <1>4. Steady /\ UNCHANGED vars => Steady'
    <2> SUFFICES ASSUME Steady, UNCHANGED vars PROVE Steady'
      OBVIOUS
    <2>1. Plain'
      BY PlainStutter DEF Steady
    <2>2. Linked' /\ Settled'
      BY DEF Steady, Linked, Connection, Switched, Settled, Served, Stopped, Closing,
         Ahead, vars, link, stream, choice, server, control
    <2> QED BY <2>1, <2>2 DEF Steady
  <1> QED BY <1>1, <1>2, <1>3, <1>4, PTL DEF Spec, Steady

(* On a connection that lasts, a wanted stream runs or is being retried    *)
(* whenever the publisher is at rest: no failure of a capture and no start *)
(* that failed loses the request.                                          *)
THEOREM RequestsAreServed ==
  ASSUME Selectors = {}, ~Dropping
  PROVE  Spec => []RequestServed
  <1>1. Steady => RequestServed
    BY DEF Steady, Settled, Served, RequestServed, Quiescent, Callers
  <1> QED BY <1>1, AlwaysSteady, PTL

(* On a connection that lasts, no capture is opened while another one      *)
(* closes: a stop waits for its capture only when every start that was     *)
(* ahead of it has left the lock, and none can follow it.                  *)
THEOREM CapturesAreApart ==
  ASSUME Selectors = {}, ~Dropping
  PROVE  Spec => []CapturesDoNotOverlap
  <1>1. Steady => CapturesDoNotOverlap
    <2> SUFFICES ASSUME Steady, NEW c \in Captures, NEW d \in Captures,
                        capture[c].state = "live", capture[d].state # "gone"
                 PROVE  c = d
      BY DEF CapturesDoNotOverlap
    <2>1. streamTask = c /\ NoCapture \notin Captures
      BY SourceAssumption DEF Steady, Plain, Safe, Owned
    <2>2. capture[d].state # "closing"
      BY <2>1 DEF Steady, Settled, Closing, Stopped
    <2>3. capture[d].state \in {"live", "failed"}
      BY <2>2 DEF Steady, Plain, Safe, Typed, TypeOK
    <2> QED BY <2>1, <2>3 DEF Steady, Plain, Safe, Owned
  <1> QED BY <1>1, AlwaysSteady, PTL
=============================================================================
