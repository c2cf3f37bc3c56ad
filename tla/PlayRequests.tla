---------------------------- MODULE PlayRequests ----------------------------
(***************************************************************************)
(* Starting and stopping the published source on Music Assistant: the      *)
(* registry of play requests of MusicAssistantAdapter.                     *)
(*                                                                         *)
(* A call of play_vinyl_source joins the registered request while its task *)
(* is in flight or has not settled, and otherwise registers a new one.     *)
(* The task is shielded: only stop_players, which takes the request out of *)
(* the registry first, cancels it.  The sections under _play_request_lock  *)
(* do not suspend, so each is one action and the lock is not a variable.   *)
(*                                                                         *)
(* One source and one target, as runtime.py always passes them.  External: *)
(* the server, which executes what it received in order and answers.       *)
(***************************************************************************)
EXTENDS Naturals, Sequences

CONSTANTS
    Callers,      \* tasks that call play_vinyl_source
    Stoppers,     \* tasks that call stop_players
    MaxRequests,  \* bound: request ids that may be given out
    MaxInbox      \* bound: commands the server has not executed yet

ASSUME PlayAssumption == MaxRequests \in Nat /\ MaxInbox \in Nat

NoRequest == 0
Requests == 1 .. MaxRequests

VARIABLES
    sequence,    \* _play_request_sequence
    registered,  \* the request in _play_requests, or NoRequest
    settling,    \* its retry_at is still to come
    task,        \* of each request: what its task does
    joined,      \* of each caller: the request it awaits, or NoRequest
    at,          \* of each stopper: where it is
    cancelled,   \* of each stopper: the request it took out, or NoRequest
    issued,      \* of each stopper: _play_request_sequence when it began
    inbox,       \* what the server has received and not executed
    playing,     \* the request the target plays, or NoRequest
    stopped      \* the latest request a stop executed so far was meant for

registry == <<sequence, registered, settling>>
stops == <<at, cancelled, issued>>
server == <<inbox, playing, stopped>>
vars == <<registry, task, joined, stops, server>>

Running == {"connecting", "asking"}
Done == {"started", "missing", "failed", "cancelled"}

Play(r) == [kind |-> "play", request |-> r]
Stop(s) == [kind |-> "stop", stopper |-> s, request |-> issued[s]]

Messages ==
    [kind : {"play"}, request : Requests]
    \cup [kind : {"stop"}, stopper : Stoppers, request : {NoRequest} \cup Requests]

TypeOK ==
    /\ sequence \in {NoRequest} \cup Requests
    /\ registered \in {NoRequest} \cup Requests
    /\ settling \in BOOLEAN
    /\ task \in [Requests -> {"none", "cancelling"} \cup Running \cup Done]
    /\ joined \in [Callers -> {NoRequest} \cup Requests]
    /\ at \in [Stoppers -> {"idle", "gathering", "connecting", "stopping"}]
    /\ cancelled \in [Stoppers -> {NoRequest} \cup Requests]
    /\ issued \in [Stoppers -> {NoRequest} \cup Requests]
    /\ inbox \in Seq(Messages)
    /\ playing \in {NoRequest} \cup Requests
    /\ stopped \in {NoRequest} \cup Requests
    /\ settling => registered # NoRequest
    /\ \A s \in Stoppers : at[s] = "gathering" <=> cancelled[s] # NoRequest

Init ==
    /\ sequence = 0
    /\ registered = NoRequest
    /\ settling = FALSE
    /\ task = [r \in Requests |-> "none"]
    /\ joined = [c \in Callers |-> NoRequest]
    /\ at = [s \in Stoppers |-> "idle"]
    /\ cancelled = [s \in Stoppers |-> NoRequest]
    /\ issued = [s \in Stoppers |-> NoRequest]
    /\ inbox = <<>>
    /\ playing = NoRequest
    /\ stopped = NoRequest

-----------------------------------------------------------------------------
(* play_vinyl_source.                                                      *)

Suppressed ==
    /\ registered # NoRequest
    /\ task[registered] \notin Done \/ settling

Join(c) ==
    /\ joined[c] = NoRequest
    /\ Suppressed
    /\ joined' = [joined EXCEPT ![c] = registered]
    /\ UNCHANGED <<registry, task, stops, server>>

(* Mutant: the sequence is not advanced.                                   *)
SubmitUncounted(c) ==
    /\ joined[c] = NoRequest
    /\ ~Suppressed
    /\ UNCHANGED sequence
    /\ registered' = sequence
    /\ settling' = TRUE
    /\ task' = [task EXCEPT ![sequence] = "connecting"]
    /\ joined' = [joined EXCEPT ![c] = sequence]
    /\ UNCHANGED <<stops, server>>

Submit(c) ==
    /\ joined[c] = NoRequest
    /\ ~Suppressed
    /\ sequence < MaxRequests
    /\ sequence' = sequence + 1
    /\ registered' = sequence + 1
    /\ settling' = TRUE
    /\ task' = [task EXCEPT ![sequence + 1] = "connecting"]
    /\ joined' = [joined EXCEPT ![c] = sequence + 1]
    /\ UNCHANGED <<stops, server>>

(* Time passes: _play_request_timeout_seconds after the submission.        *)
Settle ==
    /\ settling
    /\ settling' = FALSE
    /\ UNCHANGED <<sequence, registered, task, joined, stops, server>>

(* The shielded task has a result, or was cancelled, which is raised here. *)
Return(c) ==
    /\ joined[c] # NoRequest
    /\ task[joined[c]] \in Done \ {"failed"}
    /\ joined' = [joined EXCEPT ![c] = NoRequest]
    /\ UNCHANGED <<registry, task, stops, server>>

(* Mutant: whatever is registered is forgotten.                            *)
ForgetAny(r) == registered' = NoRequest /\ settling' = FALSE

(* A failed request is forgotten, unless a newer one has taken its place.  *)
Forget(r) ==
    IF registered = r
      THEN registered' = NoRequest /\ settling' = FALSE
      ELSE UNCHANGED <<registered, settling>>

Raise(c) ==
    /\ joined[c] # NoRequest
    /\ task[joined[c]] = "failed"
    /\ Forget(joined[c])
    /\ joined' = [joined EXCEPT ![c] = NoRequest]
    /\ UNCHANGED <<sequence, task, stops, server>>

-----------------------------------------------------------------------------
(* _play_vinyl_source_once.                                                *)

Becomes(r, state) == task' = [task EXCEPT ![r] = state]

(* The connection is there and the player is known: play_media is sent.    *)
Ask(r) ==
    /\ task[r] = "connecting"
    /\ Len(inbox) < MaxInbox
    /\ Becomes(r, "asking")
    /\ inbox' = Append(inbox, Play(r))
    /\ UNCHANGED <<registry, joined, stops, playing, stopped>>

PlayerMissing(r) ==
    /\ task[r] = "connecting"
    /\ Becomes(r, "missing")
    /\ UNCHANGED <<registry, joined, stops, server>>

ConnectFails(r) ==
    /\ task[r] = "connecting"
    /\ Becomes(r, "failed")
    /\ UNCHANGED <<registry, joined, stops, server>>

(* task.cancel() takes effect when the task runs next.                     *)
Cancelled(r) ==
    /\ task[r] = "cancelling"
    /\ Becomes(r, "cancelled")
    /\ UNCHANGED <<registry, joined, stops, server>>

-----------------------------------------------------------------------------
(* stop_players.                                                           *)

Cancel(r) ==
    IF r # NoRequest /\ task[r] \in Running
      THEN Becomes(r, "cancelling")
      ELSE UNCHANGED task

(* Mutant: the stop is sent without a look at the registry.                *)
InvalidateNothing(s) ==
    /\ at[s] = "idle"
    /\ issued' = [issued EXCEPT ![s] = sequence]
    /\ at' = [at EXCEPT ![s] = "connecting"]
    /\ UNCHANGED <<registry, task, joined, cancelled, server>>

invalidate_play_requests(s) ==
    /\ at[s] = "idle"
    /\ issued' = [issued EXCEPT ![s] = sequence]
    /\ cancelled' = [cancelled EXCEPT ![s] = registered]
    /\ Cancel(registered)
    /\ registered' = NoRequest
    /\ settling' = FALSE
    /\ at' = [at EXCEPT ![s] = IF registered = NoRequest THEN "connecting"
                               ELSE "gathering"]
    /\ UNCHANGED <<sequence, joined, server>>

(* The gather of what was cancelled has ended.                             *)
Gathered(s) ==
    /\ at[s] = "gathering"
    /\ task[cancelled[s]] \in Done
    /\ at' = [at EXCEPT ![s] = "connecting"]
    /\ cancelled' = [cancelled EXCEPT ![s] = NoRequest]
    /\ UNCHANGED <<registry, task, joined, issued, server>>

SendStop(s) ==
    /\ at[s] = "connecting"
    /\ Len(inbox) < MaxInbox
    /\ at' = [at EXCEPT ![s] = "stopping"]
    /\ inbox' = Append(inbox, Stop(s))
    /\ UNCHANGED <<registry, task, joined, cancelled, issued, playing, stopped>>

(* The connection fails or the player is unknown.                          *)
StopFails(s) ==
    /\ at[s] = "connecting"
    /\ at' = [at EXCEPT ![s] = "idle"]
    /\ UNCHANGED <<registry, task, joined, cancelled, issued, server>>

-----------------------------------------------------------------------------
(* The server and the connection.                                          *)

Answered(r, state) ==
    IF task[r] = "asking" THEN Becomes(r, state) ELSE UNCHANGED task

ExecutePlay ==
    /\ inbox # <<>>
    /\ Head(inbox).kind = "play"
    /\ inbox' = Tail(inbox)
    /\ \/ playing' = Head(inbox).request /\ Answered(Head(inbox).request, "started")
       \/ UNCHANGED playing /\ Answered(Head(inbox).request, "failed")
    /\ UNCHANGED <<registry, joined, stops, stopped>>

ExecuteStop ==
    /\ inbox # <<>>
    /\ Head(inbox).kind = "stop"
    /\ inbox' = Tail(inbox)
    /\ playing' = NoRequest
    /\ stopped' = IF Head(inbox).request > stopped THEN Head(inbox).request
                  ELSE stopped
    /\ at' = [at EXCEPT ![Head(inbox).stopper] =
                IF @ = "stopping" THEN "idle" ELSE @]
    /\ UNCHANGED <<registry, task, joined, cancelled, issued>>

(* The connection is lost: nobody gets an answer, and the server may have  *)
(* received any part of what was sent.                                     *)
LoseConnection ==
    /\ inbox # <<>>
    /\ \E received \in 0 .. Len(inbox) : inbox' = SubSeq(inbox, 1, received)
    /\ \E state \in {"failed", "cancelled"} :
          task' = [r \in Requests |-> IF task[r] = "asking" THEN state ELSE task[r]]
    /\ at' = [s \in Stoppers |-> IF at[s] = "stopping" THEN "idle" ELSE at[s]]
    /\ UNCHANGED <<registry, joined, cancelled, issued, playing, stopped>>

-----------------------------------------------------------------------------
TaskSteps(r) == Ask(r) \/ PlayerMissing(r) \/ ConnectFails(r) \/ Cancelled(r)

StopSteps(s) == Gathered(s) \/ SendStop(s) \/ StopFails(s)

Next ==
    \/ \E c \in Callers : Join(c) \/ Submit(c) \/ Return(c) \/ Raise(c)
    \/ Settle
    \/ \E r \in Requests : TaskSteps(r)
    \/ \E s \in Stoppers : invalidate_play_requests(s) \/ StopSteps(s)
    \/ ExecutePlay \/ ExecuteStop \/ LoseConnection

Spec == Init /\ [][Next]_vars

-----------------------------------------------------------------------------
(* Properties.                                                             *)

(* However calls join, fail, settle and are invalidated, at most one start *)
(* that nobody cancelled is in flight.                                     *)
OneStartInFlight ==
    \A q, r \in Requests : task[q] \in Running /\ task[r] \in Running => q = r

(* What the target plays was submitted after every stop it has executed    *)
(* began: a stop is never followed by a start that it was meant to end.    *)
StopIsFinal == playing # NoRequest => playing > stopped

----------------------------------------------------------------------------
(* What the documents say and the code does not do.  TLC finds each of     *)
(* these violated; the README says how.                                    *)

(* What a further call would take for a start that has succeeded is what   *)
(* the target plays: a call never reuses a start that was stopped.         *)
ReusedStartPlays ==
    registered # NoRequest /\ settling /\ task[registered] = "started"
    => playing = registered
=============================================================================
