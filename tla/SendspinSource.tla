--------------------------- MODULE SendspinSource ---------------------------
(***************************************************************************)
(* The source client of SendspinSourcePublisher: the connection, the       *)
(* capture stream and everything that starts, stops, retries or switches   *)
(* it.                                                                     *)
(*                                                                         *)
(* Five tasks share the state: "command" runs the server's source.start    *)
(* and source.stop one at a time under _command_lock, "controller" and     *)
(* "output" call select_source, "output" also enables and disables the     *)
(* distribution, "retry" is _retry_stream and "connection" is run().  They *)
(* are coroutines of one event loop: a task that calls or returns without  *)
(* suspending keeps the loop (variable loop), so that an action is never   *)
(* interleaved where the code cannot be.  _stop_streaming and              *)
(* _start_streaming are subroutines: after[t] is where they return to.     *)
(*                                                                         *)
(* Abstracted: the three distribution flags are one (output disables       *)
(* _distribution_enabled first and enables all three without suspending);  *)
(* cancelling the retry task ends it at once; PCM, gain, activity          *)
(* detection and timestamps are left out.                                  *)
(***************************************************************************)
EXTENDS Naturals, Sequences, SequencesExt

CONSTANTS
    Captures,    \* capture sessions that may exist at once (bound)
    MaxPending,  \* server commands waiting for _command_lock (bound)
    Selectors,   \* tasks that call select_source
    Switching,   \* output enables and disables the distribution
    Dropping,    \* the connection may fail or be lost
    NoCapture, NoTask

Callers == {"command", "controller", "output"}
Tasks == Callers \cup {"retry", "connection"}
Sources == {"phono", "bluetooth"}
Commands == {"start", "stop"}

ASSUME SourceAssumption ==
    /\ MaxPending \in Nat \ {0}
    /\ Selectors \subseteq {"controller", "output"}
    /\ Switching \in BOOLEAN
    /\ Dropping \in BOOLEAN
    /\ NoCapture \notin Captures
    /\ NoTask \notin Tasks

VARIABLES
    connected,   \* _connected
    client,      \* _client is not None
    requested,   \* _stream_requested
    streaming,   \* _streaming
    streamTask,  \* _stream_task: the capture it pumps, or NoCapture
    selected,    \* _selected_source
    enabled,     \* a start of the selected source is allowed
    grace,       \* the _phono_stop_task: pending, cancelled or none
    published,   \* the StateStore's copy of the source state
    capture,     \* of each capture: its state and its source
    streamLock,  \* _stream_lock: holder, then waiters in order
    commands,    \* commands received and not finished, in wire order
    lastCommand, \* the last command that was finished
    loop,        \* the task that has not suspended yet, or NoTask
    at, after,   \* where a task is, where its subroutine returns to
    awaited,     \* the capture a stopping task waits for
    was, goal    \* locals of select_source

link == <<connected, client>>
stream == <<requested, streaming, streamTask, capture>>
choice == <<selected, enabled, grace>>
server == <<commands, lastCommand>>
control == <<streamLock, loop, at, after, awaited>>
locals == <<was, goal>>
vars == <<link, stream, choice, published, server, control, locals>>

Snapshot == [connected : BOOLEAN, streaming : BOOLEAN, requested : BOOLEAN,
             selected : Sources]

Places == {"idle", "signal", "media", "stop", "stop_retry", "stop_lock",
           "stop_capture", "start", "start_lock", "start_open", "started",
           "refused", "stopped", "switch", "select_end", "phono_off",
           "bluetooth_off", "off", "none", "sleep", "retried", "down",
           "connecting", "up", "teardown", "abandon"}

TypeOK ==
    /\ connected \in BOOLEAN /\ client \in BOOLEAN
    /\ requested \in BOOLEAN /\ streaming \in BOOLEAN
    /\ streamTask \in Captures \cup {NoCapture}
    /\ selected \in Sources /\ enabled \in BOOLEAN /\ grace \in {"none", "pending", "cancelled"}
    /\ published \in Snapshot
    /\ capture \in [Captures -> [state : {"gone", "live", "failed", "closing"},
                                 source : Sources]]
    /\ streamLock \in Seq(Tasks)
    /\ commands \in Seq(Commands)
    /\ lastCommand \in Commands
    /\ loop \in Tasks \cup {NoTask}
    /\ at \in [Tasks -> Places] /\ after \in [Tasks -> Places]
    /\ awaited \in [Callers \cup {"connection"} -> Captures \cup {NoCapture}]
    /\ was \in [Selectors -> BOOLEAN] /\ goal \in [Selectors -> Sources]

Init ==
    /\ connected = FALSE /\ client = FALSE
    /\ requested = FALSE /\ streaming = FALSE /\ streamTask = NoCapture
    /\ selected = "phono" /\ enabled \in BOOLEAN /\ grace = "none"
    /\ published = [connected |-> FALSE, streaming |-> FALSE,
                    requested |-> FALSE, selected |-> "phono"]
    /\ capture = [c \in Captures |-> [state |-> "gone", source |-> "phono"]]
    /\ streamLock = <<>>
    /\ commands = <<>> /\ lastCommand = "stop"
    /\ loop = NoTask
    /\ at = [t \in Tasks |-> CASE t = "retry" -> "none"
                               [] t = "connection" -> "down"
                               [] OTHER -> "idle"]
    /\ after = [t \in Tasks |-> "idle"]
    /\ awaited = [t \in Callers \cup {"connection"} |-> NoCapture]
    /\ was = [t \in Selectors |-> FALSE]
    /\ goal = [t \in Selectors |-> "phono"]

-----------------------------------------------------------------------------
(* The event loop.                                                         *)

Runs(t, place) == at[t] = place /\ loop \in {t, NoTask}

Goto(t, place) == at' = [at EXCEPT ![t] = place]
Keep(t) == loop' = t
Yield == loop' = NoTask

(* A subroutine call and its return do not suspend; the disconnection that *)
(* follows the stop of a lost connection does.                             *)
Call(t, place, back) ==
    /\ at' = [at EXCEPT ![t] = place]
    /\ after' = [after EXCEPT ![t] = back]
    /\ Keep(t)

Return(t) ==
    /\ Goto(t, after[t])
    /\ loop' = IF after[t] = "teardown" THEN NoTask ELSE t

(* Taking a free lock does not suspend.                                    *)
Acquire(t, place) ==
    /\ streamLock' = Append(streamLock, t)
    /\ at' = [at EXCEPT ![t] = place]
    /\ loop' = IF streamLock = <<>> THEN t ELSE NoTask

Holds(t) == streamLock # <<>> /\ Head(streamLock) = t

(* A cancelled task leaves the lock, which it holds or awaits once.        *)
Without(queue, t) ==
    IF \E i \in DOMAIN queue : queue[i] = t
      THEN RemoveAt(queue, CHOOSE i \in DOMAIN queue : queue[i] = t)
      ELSE queue

(* Mutant: a retry only for a stream that ran.                             *)
NeedsRetryStreaming ==
    streaming /\ requested /\ connected /\ at["retry"] = "none"

(* Mutant: the stream task is published for the flag that it runs.         *)
PublishTask ==
    published' = [connected |-> connected', streaming |-> streamTask',
                  requested |-> requested', selected |-> selected']

(* _publish_state: the values after the step.                              *)
Publish ==
    published' = [connected |-> connected', streaming |-> streaming',
                  requested |-> requested', selected |-> selected']

(* Whether _schedule_stream_retry creates a task.                          *)
NeedsRetry == requested /\ connected /\ at["retry"] = "none"

-----------------------------------------------------------------------------
(* _stop_streaming.                                                        *)

(* Mutant: only the request of a running stream is withdrawn.              *)
StopRequestOfStream(t) ==
    /\ Runs(t, "stop")
    /\ requested' = (requested /\ ~streaming)
    /\ IF at["retry"] = "none"
         THEN Acquire(t, "stop_lock")
         ELSE /\ at' = [at EXCEPT !["retry"] = "none", ![t] = "stop_retry"]
              /\ streamLock' = Without(streamLock, "retry")
              /\ Yield
    /\ UNCHANGED <<link, streaming, streamTask, capture, choice, published,
                   server, after, awaited, locals>>

(* The request is withdrawn before anything else, and the retry cancelled: *)
(* it lets go of the lock it held or waited for.                           *)
StopRequest(t) ==
    /\ Runs(t, "stop")
    /\ requested' = FALSE
    /\ IF at["retry"] = "none"
         THEN Acquire(t, "stop_lock")
         ELSE /\ at' = [at EXCEPT !["retry"] = "none", ![t] = "stop_retry"]
              /\ streamLock' = Without(streamLock, "retry")
              /\ Yield
    /\ UNCHANGED <<link, streaming, streamTask, capture, choice, published,
                   server, after, awaited, locals>>

StopRetryGone(t) ==
    /\ Runs(t, "stop_retry")
    /\ Acquire(t, "stop_lock")
    /\ UNCHANGED <<link, stream, choice, published, server, after, awaited,
                   locals>>

(* Mutants: the section without the lock; the pump is not waited for.      *)
StopSectionUnlocked(t) ==
    /\ Runs(t, "stop_lock")
    /\ streamLock' = Without(streamLock, t)
    /\ streamTask' = NoCapture
    /\ streaming' = FALSE
    /\ IF streamTask = NoCapture
         THEN Return(t) /\ UNCHANGED <<capture, awaited>>
         ELSE /\ capture' = [capture EXCEPT ![streamTask].state = "closing"]
              /\ awaited' = [awaited EXCEPT ![t] = streamTask]
              /\ Goto(t, "stop_capture")
              /\ Yield
    /\ UNCHANGED <<link, requested, choice, published, server, after, locals>>

StopSectionUnawaited(t) ==
    /\ Runs(t, "stop_lock")
    /\ Holds(t)
    /\ streamLock' = Tail(streamLock)
    /\ streamTask' = NoCapture
    /\ streaming' = FALSE
    /\ capture' = IF streamTask = NoCapture THEN capture
                  ELSE [capture EXCEPT ![streamTask].state = "closing"]
    /\ Return(t)
    /\ UNCHANGED <<link, requested, choice, published, server, after, awaited,
                   locals>>

(* The locked section forgets the stream task and cancels its pump.        *)
StopSection(t) ==
    /\ Runs(t, "stop_lock")
    /\ Holds(t)
    /\ streamLock' = Tail(streamLock)
    /\ streamTask' = NoCapture
    /\ streaming' = FALSE
    /\ IF streamTask = NoCapture
         THEN Return(t) /\ UNCHANGED <<capture, awaited>>
         ELSE /\ capture' = [capture EXCEPT ![streamTask].state = "closing"]
              /\ awaited' = [awaited EXCEPT ![t] = streamTask]
              /\ Goto(t, "stop_capture")
              /\ Yield
    /\ UNCHANGED <<link, requested, choice, published, server, after, locals>>

StopCaptureGone(t) ==
    /\ Runs(t, "stop_capture")
    /\ capture[awaited[t]].state = "gone"
    /\ awaited' = [awaited EXCEPT ![t] = NoCapture]
    /\ Return(t)
    /\ UNCHANGED <<link, stream, choice, server, streamLock, after, locals>>
    /\ Publish

-----------------------------------------------------------------------------
(* _start_streaming.                                                       *)

StartRequest(t) ==
    /\ Runs(t, "start")
    /\ requested' = TRUE
    /\ Acquire(t, "start_lock")
    /\ UNCHANGED <<link, streaming, streamTask, capture, choice, published,
                   server, after, awaited, locals>>

(* Mutant: no test for a stream task.                                      *)
NeverStreaming == FALSE

AlreadyStreaming == streamTask # NoCapture

(* Nothing to do, or wait for the clock and for the capture to start.      *)
StartSection(t) ==
    /\ Runs(t, "start_lock")
    /\ Holds(t)
    /\ IF ~client \/ AlreadyStreaming
         THEN streamLock' = Tail(streamLock) /\ Return(t)
         ELSE Goto(t, "start_open") /\ Yield /\ UNCHANGED streamLock
    /\ UNCHANGED <<link, stream, choice, published, server, after, awaited,
                   locals>>

OpenSucceeds(t) ==
    /\ Runs(t, "start_open")
    /\ \E c \in Captures :
          /\ capture[c].state = "gone"
          /\ \A u \in DOMAIN awaited : awaited[u] # c
          /\ capture' = [capture EXCEPT ![c] = [state |-> "live",
                                                source |-> selected]]
          /\ streamTask' = c
    /\ streaming' = TRUE
    /\ streamLock' = Tail(streamLock)
    /\ Return(t)
    /\ UNCHANGED <<link, requested, choice, server, after, awaited, locals>>
    /\ Publish

OpenFails(t) ==
    /\ Runs(t, "start_open")
    /\ streamLock' = Tail(streamLock)
    /\ at' = IF NeedsRetry
               THEN [at EXCEPT ![t] = after[t], !["retry"] = "sleep"]
               ELSE [at EXCEPT ![t] = after[t]]
    /\ Keep(t)
    /\ UNCHANGED <<link, stream, choice, server, after, awaited, locals>>
    /\ Publish

-----------------------------------------------------------------------------
(* _pump: it may fail at any time, and closes its capture when it ends.    *)

PumpFails(c) ==
    /\ loop = NoTask
    /\ capture[c].state = "live"
    /\ capture' = [capture EXCEPT ![c].state = "failed"]
    /\ UNCHANGED <<link, requested, streaming, streamTask, choice, published,
                   server, control, locals>>

(* The end of a pump that was cancelled: it is the stream task no more.    *)
CaptureClosed(c) ==
    /\ loop = NoTask
    /\ capture[c].state = "closing"
    /\ capture' = [capture EXCEPT ![c].state = "gone"]
    /\ UNCHANGED <<link, requested, streaming, streamTask, choice, published,
                   server, control, locals>>

(* The end of a pump that failed: unless a stop came first, the stream is  *)
(* gone and a retry takes over.                                            *)
FailureHandled(c) ==
    /\ loop = NoTask
    /\ capture[c].state = "failed"
    /\ capture' = [capture EXCEPT ![c].state = "gone"]
    /\ streamTask' = NoCapture
    /\ streaming' = FALSE
    /\ IF NeedsRetry THEN Goto("retry", "sleep") ELSE UNCHANGED at
    /\ UNCHANGED <<link, requested, choice, server, streamLock, loop, after,
                   awaited, locals>>
    /\ Publish

-----------------------------------------------------------------------------
(* _retry_stream.                                                          *)

StillNeeded == requested /\ connected

RetryWakes ==
    /\ Runs("retry", "sleep")
    /\ IF StillNeeded
         THEN Call("retry", "start", "retried")
         ELSE Goto("retry", "none") /\ Yield /\ UNCHANGED after
    /\ UNCHANGED <<link, stream, choice, published, server, streamLock, awaited,
                   locals>>

(* Mutant: one retry only.                                                 *)
RetriedOnce ==
    /\ Runs("retry", "retried")
    /\ Goto("retry", "none")
    /\ Yield
    /\ UNCHANGED <<link, stream, choice, published, server, streamLock, after,
                   awaited, locals>>

Retried ==
    /\ Runs("retry", "retried")
    /\ Goto("retry", IF ~AlreadyStreaming /\ StillNeeded THEN "sleep" ELSE "none")
    /\ Yield
    /\ UNCHANGED <<link, stream, choice, published, server, streamLock, after,
                   awaited, locals>>

-----------------------------------------------------------------------------
(* The server's commands.                                                  *)

Receive(c) ==
    /\ loop = NoTask
    /\ connected
    /\ Len(commands) < MaxPending
    /\ commands' = Append(commands, c)
    /\ UNCHANGED <<link, stream, choice, published, lastCommand, control, locals>>


Takes(c) ==
    /\ Runs("command", "idle")
    /\ commands # <<>>
    /\ Head(commands) = c

(* Mutant: a start is always allowed.                                      *)
AlwaysAllowed == TRUE

DistributionAllowed == enabled

(* A start that is not allowed signals absence and stops.                  *)
RefuseStart ==
    /\ Takes("start")
    /\ ~DistributionAllowed
    /\ Call("command", "signal", "refused")
    /\ UNCHANGED <<link, stream, choice, published, server, streamLock, awaited,
                   locals>>

(* Bluetooth is told to play before its capture starts.                    *)
PlayBluetooth ==
    /\ Takes("start")
    /\ DistributionAllowed
    /\ selected = "bluetooth"
    /\ Goto("command", "media")
    /\ Yield
    /\ UNCHANGED <<link, stream, choice, published, server, streamLock, after,
                   awaited, locals>>

AcceptStart ==
    /\ \/ Takes("start") /\ DistributionAllowed /\ selected = "phono"
       \/ Runs("command", "media")
    /\ grace' = IF grace = "pending" THEN "cancelled" ELSE grace
    /\ Call("command", "start", "started")
    /\ UNCHANGED <<link, stream, selected, enabled, published, server,
                   streamLock, awaited, locals>>

AcceptStop ==
    /\ Takes("stop")
    /\ Call("command", "stop", "stopped")
    /\ UNCHANGED <<link, stream, choice, published, server, streamLock, awaited,
                   locals>>

Finished ==
    /\ commands' = Tail(commands)
    /\ lastCommand' = Head(commands)
    /\ Goto("command", "idle")
    /\ Yield

StartFinished ==
    /\ Runs("command", "started") \/ Runs("command", "refused")
    /\ Finished
    /\ UNCHANGED <<link, stream, choice, published, streamLock, after, awaited,
                   locals>>

(* The stop of phono starts the grace period.                              *)
StopFinished ==
    /\ Runs("command", "stopped")
    /\ Finished
    /\ UNCHANGED <<link, stream, selected, enabled, streamLock, after, awaited,
                   locals>>
    /\ IF selected = "phono"
         THEN grace' = "pending" /\ Publish
         ELSE UNCHANGED <<grace, published>>

(* It publishes when it has elapsed and when it is cancelled.              *)
CommitPhonoStop ==
    /\ loop = NoTask
    /\ grace # "none"
    /\ grace' = "none"
    /\ UNCHANGED <<link, stream, selected, enabled, server, control, locals>>
    /\ Publish

(* _send_signal(False), before a stop; it suspends if it can be sent.      *)
SignalAbsent(t) ==
    /\ Runs(t, "signal")
    /\ Goto(t, "stop")
    /\ loop' = IF connected THEN NoTask ELSE t
    /\ UNCHANGED <<link, stream, choice, published, server, streamLock, after,
                   awaited, locals>>

-----------------------------------------------------------------------------
(* select_source.                                                          *)

Select(t, s) ==
    /\ Runs(t, "idle")
    /\ t = "output" => enabled
    /\ s # selected
    /\ was' = [was EXCEPT ![t] = requested]
    /\ goal' = [goal EXCEPT ![t] = s]
    /\ Call(t, "stop", "switch")
    /\ UNCHANGED <<link, stream, choice, published, server, streamLock, awaited>>

Switch(t) ==
    /\ Runs(t, "switch")
    /\ selected' = goal[t]
    /\ requested' = was[t]
    /\ IF was[t]
         THEN Call(t, "start", "select_end")
         ELSE Goto(t, "select_end") /\ Keep(t) /\ UNCHANGED after
    /\ UNCHANGED <<link, streaming, streamTask, capture, enabled, grace,
                   published, server, streamLock, awaited, locals>>

SelectEnds(t) ==
    /\ Runs(t, "select_end")
    /\ Goto(t, "idle")
    /\ Yield
    /\ UNCHANGED <<link, stream, choice, server, streamLock, after, awaited,
                   locals>>
    /\ Publish

-----------------------------------------------------------------------------
(* The output transition: three flags, each disabled with its own stop.    *)

Enable ==
    /\ Switching
    /\ Runs("output", "idle")
    /\ enabled' = TRUE
    /\ UNCHANGED <<link, stream, selected, grace, server, control, locals>>
    /\ Publish

Disable ==
    /\ Switching
    /\ Runs("output", "idle")
    /\ enabled' = FALSE
    /\ Call("output", "signal", "phono_off")
    /\ UNCHANGED <<link, stream, selected, grace, published, server, streamLock,
                   awaited, locals>>

(* set_source_distribution_enabled(s, False): a stop if s is selected.     *)
DisableSource(s, here, next) ==
    /\ Runs("output", here)
    /\ IF selected = s
         THEN Call("output", "signal", next)
         ELSE Goto("output", next) /\ Keep("output") /\ UNCHANGED after
    /\ UNCHANGED <<link, stream, choice, server, streamLock, awaited, locals>>
    /\ Publish

Off ==
    /\ Runs("output", "off")
    /\ Goto("output", "idle")
    /\ Yield
    /\ UNCHANGED <<link, stream, choice, server, streamLock, after, awaited,
                   locals>>
    /\ Publish

-----------------------------------------------------------------------------
(* run(): the connection.                                                  *)

Setup ==
    /\ Runs("connection", "down")
    /\ client' = TRUE
    /\ Goto("connection", "connecting")
    /\ Yield
    /\ UNCHANGED <<connected, stream, choice, published, server, streamLock,
                   after, awaited, locals>>

Connect ==
    /\ Runs("connection", "connecting")
    /\ connected' = TRUE
    /\ Goto("connection", "up")
    /\ Yield
    /\ UNCHANGED <<client, stream, choice, server, streamLock, after, awaited,
                   locals>>
    /\ Publish

ConnectFails ==
    /\ Dropping
    /\ Runs("connection", "connecting")
    /\ Goto("connection", "abandon")
    /\ Yield
    /\ UNCHANGED <<link, stream, choice, published, server, streamLock, after,
                   awaited, locals>>

Drop ==
    /\ Dropping
    /\ Runs("connection", "up")
    /\ connected' = FALSE
    /\ Call("connection", "stop", "teardown")
    /\ UNCHANGED <<client, stream, choice, published, server, streamLock,
                   awaited, locals>>

(* client.disconnect() has returned.                                       *)
Teardown ==
    /\ Runs("connection", "teardown")
    /\ client' = FALSE
    /\ Goto("connection", "down")
    /\ Yield
    /\ UNCHANGED <<connected, stream, choice, server, streamLock, after, awaited,
                   locals>>
    /\ Publish

(* The same after a connection that was never made: nothing is published.  *)
Abandon ==
    /\ Runs("connection", "abandon")
    /\ client' = FALSE
    /\ Goto("connection", "down")
    /\ Yield
    /\ UNCHANGED <<connected, stream, choice, published, server, streamLock,
                   after, awaited, locals>>

-----------------------------------------------------------------------------
Stopping(t) ==
    StopRequest(t) \/ StopRetryGone(t) \/ StopSection(t) \/ StopCaptureGone(t)

Starting(t) == StartRequest(t) \/ StartSection(t)

Command ==
    \/ RefuseStart \/ PlayBluetooth \/ AcceptStart \/ AcceptStop
    \/ StartFinished \/ StopFinished

Next ==
    \/ \E t \in Callers \cup {"connection"} : Stopping(t)
    \/ \E t \in Callers \cup {"retry"} :
          Starting(t) \/ OpenSucceeds(t) \/ OpenFails(t)
    \/ \E c \in Captures : PumpFails(c) \/ CaptureClosed(c) \/ FailureHandled(c)
    \/ RetryWakes \/ Retried
    \/ \E c \in Commands : Receive(c)
    \/ Command \/ CommitPhonoStop
    \/ \E t \in {"command", "output"} : SignalAbsent(t)
    \/ \E t \in Selectors, s \in Sources : Select(t, s)
    \/ \E t \in Selectors : Switch(t) \/ SelectEnds(t)
    \/ Enable \/ Disable \/ Off
    \/ DisableSource("phono", "phono_off", "bluetooth_off")
    \/ DisableSource("bluetooth", "bluetooth_off", "off")
    \/ Setup \/ Connect \/ ConnectFails \/ Drop \/ Teardown \/ Abandon

Spec == Init /\ [][Next]_vars

(* Every await ends: the server, BlueZ and the capture devices answer.     *)
Awaits ==
    /\ \A t \in Callers \cup {"connection"} : WF_vars(Stopping(t))
    /\ \A t \in Callers \cup {"retry"} :
          /\ WF_vars(Starting(t))
          /\ WF_vars(OpenSucceeds(t) \/ OpenFails(t))
    /\ \A c \in Captures : WF_vars(CaptureClosed(c) \/ FailureHandled(c))
    /\ WF_vars(RetryWakes) /\ WF_vars(Retried) /\ WF_vars(Command)
    /\ \A t \in {"command", "output"} : WF_vars(SignalAbsent(t))
    /\ WF_vars(Setup) /\ WF_vars(Connect)

(* A capture that is tried for ever starts in the end.                     *)
CaptureRecovers == \A t \in Callers \cup {"retry"} : SF_vars(OpenSucceeds(t))

FairSpec == Spec /\ Awaits /\ CaptureRecovers

-----------------------------------------------------------------------------
(* Properties.                                                             *)

Quiescent ==
    /\ loop = NoTask
    /\ \A t \in Callers : at[t] = "idle"
    /\ at["connection"] \in {"down", "connecting", "up"}
    /\ at["retry"] \in {"none", "sleep"}
    /\ commands = <<>>
    /\ \A c \in Captures : capture[c].state \in {"gone", "live"}

(* Whatever starts, stops, fails and reconnects, at most one capture feeds *)
(* the server, and the publisher knows it.                                 *)
OneLiveCapture ==
    \A c \in Captures : capture[c].state = "live" => streamTask = c

(* Once everything has come to rest, a stream runs only if it is wanted.   *)
StreamIsWanted == Quiescent /\ streaming => requested

(* Once everything has come to rest, the server's last word was obeyed: a  *)
(* stop is not undone by a retry, a late start or a reconnection.          *)
StopSticks == Quiescent /\ lastCommand = "stop" => ~streaming /\ ~requested

(* Server commands and output switches never open a capture while another  *)
(* is closing.                                                             *)
CapturesDoNotOverlap ==
    \A c, d \in Captures :
        capture[c].state = "live" /\ capture[d].state # "gone" => c = d

(* Once everything has come to rest, a wanted stream on a connected        *)
(* publisher runs or is being retried.                                     *)
RequestServed ==
    Quiescent /\ connected /\ requested => streaming \/ at["retry"] = "sleep"

(* Once everything has come to rest, a disabled publisher is silent.       *)
DisabledIsSilent == Quiescent /\ ~enabled => ~streaming

(* A wanted stream is opened in the end, however often captures fail.      *)
StreamComesBack == requested ~> streaming \/ ~requested

----------------------------------------------------------------------------
(* What the documents say and the code does not do.  TLC finds each of     *)
(* these violated; the README says how.                                    *)

(* Once everything has come to rest, the capture is of the selected source.*)
CaptureFollowsSelection ==
    Quiescent /\ streaming => capture[streamTask].source = selected
=============================================================================
