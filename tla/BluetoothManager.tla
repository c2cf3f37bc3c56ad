-------------------------- MODULE BluetoothManager --------------------------
(***************************************************************************)
(* BluetoothManager: run keeps one agent process alive, open_pairing and   *)
(* close_pairing and a timer make a pairing window, and a poll publishes   *)
(* what the phone plays and hands its volume on.                           *)
(*                                                                         *)
(* Writing a command to the agent does not suspend (a pipe is never full   *)
(* of such short lines), so opening a window is one step, and closing one  *)
(* is two: up to the programs that list and trust the paired devices, and  *)
(* after them.  These programs start and end; a window is longer than they *)
(* take, so that one timer at most is past its sleep.  An agent that has   *)
(* ended is known to have.  Volumes are numbers without meaning here.      *)
(***************************************************************************)
EXTENDS Naturals

CONSTANTS
    Requests,  \* requests to close a window that may be under way
    Volumes    \* volumes of the phone

VARIABLES
    pc,        \* where run is
    process,   \* _process: "none", "alive", "exited"
    active,    \* _pairing_active
    timer,     \* _pairing_task sleeps
    closing,   \* who is past the first part of close_pairing
    announced, \* "pairing" in StateStore.bluetooth
    adapter,   \* what BlueZ was told last
    phone,     \* what the phone plays and how loud
    media,     \* "media_status" in StateStore.bluetooth
    seen,      \* what a refresh of the media state was told and not applied
    poll,      \* where _watch_media is
    transport  \* _last_transport_volume

agentvars == <<pc, process>>
window == <<active, timer, closing, announced, adapter>>
mediavars == <<phone, media, seen, poll, transport>>
vars == <<agentvars, window, mediavars>>

Statuses == {"playing", "paused", "absent"}
Unseen == "unseen"
Pollers == {"poll", "command"}
Closers == Requests \cup {"timer"}
Off == [discoverable |-> FALSE, pairable |-> FALSE]
On == [discoverable |-> TRUE, pairable |-> TRUE]

TypeOK ==
    /\ pc \in {"start", "register", "ready", "backoff", "stopped"}
    /\ process \in {"none", "alive", "exited"}
    /\ {active, timer, announced} \subseteq BOOLEAN
    /\ closing \subseteq Closers
    /\ adapter \in [discoverable : BOOLEAN, pairable : BOOLEAN]
    /\ phone \in [status : Statuses, volume : Volumes]
    /\ media \in Statuses
    /\ seen \in [Pollers -> Statuses \cup {Unseen}]
    /\ poll \in {"media", "volume", "acting", "sleep", "ended"}
    /\ transport \in Volumes \cup {0}

Init ==
    /\ pc = "start" /\ process = "none"
    /\ active = FALSE /\ timer = FALSE /\ closing = {} /\ announced = FALSE
    /\ adapter \in {Off, On}         \* as the last run of the daemon left it
    /\ phone \in [status : Statuses, volume : Volumes] /\ media = "absent"
    /\ seen = [p \in Pollers |-> Unseen] /\ poll = "media" /\ transport = 0

----------------------------------------------------------------------------
(* run: the agent is started, set up, watched, and started again.          *)

Start ==
    /\ pc \in {"start", "backoff"}
    /\ process' = "alive" /\ pc' = "register"
    /\ UNCHANGED <<window, mediavars>>

(* Mutant: a new agent does not close what the old one left open.          *)
SetUpNothing == announced' = FALSE /\ UNCHANGED adapter

(* Mutant: the dashboard is not told that the window of the old agent is   *)
(* gone.                                                                   *)
SetUpUnpublished == adapter' = Off /\ UNCHANGED announced

SetUp == announced' = FALSE /\ adapter' = Off

Registered ==
    /\ pc = "register" /\ process = "alive"
    /\ pc' = "ready"
    /\ SetUp
    /\ UNCHANGED <<process, active, timer, closing, mediavars>>

_stop_agent ==
    /\ process' = "none" /\ active' = FALSE

(* It does not start, does not register in time, or ends meanwhile.        *)
StartFails ==
    /\ pc \in {"start", "backoff", "register"}
    /\ pc' = "backoff"
    /\ _stop_agent
    /\ UNCHANGED <<timer, closing, announced, adapter, mediavars>>

AgentExits ==
    /\ process = "alive" /\ process' = "exited"
    /\ UNCHANGED <<pc, window, mediavars>>

(* An agent that ended leaves the window as it is.                         *)
ExitNoticed ==
    /\ pc = "ready" /\ process = "exited"
    /\ pc' = "backoff"
    /\ UNCHANGED <<process, window, mediavars>>

(* close, at the end of run: BlueZ is told nothing.                        *)
Stop ==
    /\ pc \in {"start", "ready", "backoff"}
    /\ pc' = "stopped" /\ poll' = "ended"
    /\ _stop_agent
    /\ timer' = FALSE /\ announced' = FALSE
    /\ UNCHANGED <<closing, adapter, phone, media, seen, transport>>

----------------------------------------------------------------------------
(* The pairing window.                                                     *)

(* The timer of an older window is cancelled, a new one sleeps.            *)
RestartTimer == timer' = TRUE

(* Without an agent the request fails, but not before active is set.       *)
open_pairing ==
    /\ active' = TRUE
    /\ IF process = "alive"
       THEN RestartTimer /\ announced' = TRUE /\ adapter' = On
       ELSE UNCHANGED <<timer, announced, adapter>>
    /\ UNCHANGED <<agentvars, closing, mediavars>>

(* A request or the timer; a command to a dead agent is not sent.          *)
close_pairing(c) ==
    /\ c \notin closing
    /\ closing' = closing \cup {c}
    /\ active' = FALSE /\ timer' = FALSE
    /\ adapter' = IF process = "alive" THEN Off ELSE adapter
    /\ UNCHANGED <<agentvars, announced, mediavars>>

_close_after_timeout == timer /\ close_pairing("timer")

Trusted(c) ==
    /\ c \in closing
    /\ closing' = closing \ {c}
    /\ announced' = FALSE
    /\ UNCHANGED <<agentvars, active, timer, adapter, mediavars>>

(* What the agent is told when it asks whether a phone may pair.           *)
Accepts == active /\ process = "alive"

----------------------------------------------------------------------------
(* The phone, as the poll and every media command see it: asked first, and *)
(* published when the answer is there.                                     *)

PhoneChanges ==
    /\ phone' \in [status : Statuses, volume : Volumes]
    /\ UNCHANGED <<agentvars, window, media, seen, poll, transport>>

Look(p, status) ==
    /\ seen[p] = Unseen
    /\ p = "poll" => poll = "media"
    /\ seen' = [seen EXCEPT ![p] = status]
    /\ UNCHANGED <<agentvars, window, phone, media, poll, transport>>

(* Mutant: a phone that is gone keeps its last state.                      *)
PublishPresent(p) == IF seen[p] = "absent" THEN media ELSE seen[p]

(* Mutant: a phone that is gone has no state.                              *)
PublishUnknown(p) == IF seen[p] = "absent" THEN Unseen ELSE seen[p]

Publish(p) == seen[p]

_refresh_media_state(p) ==
    /\ seen[p] # Unseen
    /\ p = "poll" => poll = "media"
    /\ media' = Publish(p)
    /\ seen' = [seen EXCEPT ![p] = Unseen]
    /\ poll' = IF p = "poll" THEN "volume" ELSE poll
    /\ UNCHANGED <<agentvars, window, phone, transport>>

(* A volume that was seen before, or none, is not handed on.               *)
_refresh_transport_volume ==
    /\ poll = "volume"
    /\ \/ /\ phone.status # "absent" /\ phone.volume # transport
          /\ transport' = phone.volume /\ poll' = "acting"
       \/ UNCHANGED transport /\ poll' = "sleep"
    /\ UNCHANGED <<agentvars, window, phone, media, seen>>

(* The volume action returns or raises; then it is time for the next poll. *)
Polled ==
    /\ poll \in {"acting", "sleep"}
    /\ poll' = IF poll = "acting" THEN "sleep" ELSE "media"
    /\ UNCHANGED <<agentvars, window, phone, media, seen, transport>>

----------------------------------------------------------------------------
Next ==
    \/ Start \/ Registered \/ StartFails \/ AgentExits \/ ExitNoticed \/ Stop
    \/ open_pairing \/ _close_after_timeout
    \/ \E c \in Requests : close_pairing(c)
    \/ \E c \in Closers : Trusted(c)
    \/ PhoneChanges
    \/ \E p \in Pollers : Look(p, phone.status) \/ Look(p, "absent") \/ _refresh_media_state(p)
    \/ _refresh_transport_volume \/ Polled

Spec == Init /\ [][Next]_vars

(* The loop runs, sleeps end, programs end, Music Assistant answers a      *)
(* volume.  Starting an agent and asking BlueZ for the phone succeed now   *)
(* and then.                                                               *)
FairSpec ==
    /\ Spec
    /\ WF_vars(Start) /\ SF_vars(Registered) /\ WF_vars(ExitNoticed)
    /\ WF_vars(pc = "register" /\ process = "exited" /\ StartFails)
    /\ WF_vars(_close_after_timeout) /\ \A c \in Closers : WF_vars(Trusted(c))
    /\ SF_vars(Look("poll", phone.status)) /\ WF_vars(_refresh_media_state("poll"))
    /\ WF_vars(_refresh_transport_volume) /\ WF_vars(Polled)

----------------------------------------------------------------------------
(* A window that the dashboard shows, and that has not been asked to       *)
(* close, is one: phones find the console and the agent lets them pair,    *)
(* although agents come and go and an older close may still be under way.  *)
ShownWindowIsOpen ==
    announced /\ timer /\ pc = "ready" /\ process = "alive"
        => adapter = On /\ Accepts

(* Without further requests every window ends, for BlueZ and for the       *)
(* dashboard, whatever agents die in it and whatever closes overlap with   *)
(* openings.                                                               *)
WindowCloses ==
    <>[][~open_pairing]_vars
        => <>[](pc = "stopped" \/ (adapter = Off /\ ~announced /\ ~timer))

(* What is published of the phone is the truth again and again, although   *)
(* answers to a poll and to a command overtake each other.                 *)
MediaFollowsPhone ==
    \A s \in Statuses :
        <>[](phone.status = s) => []<>(media = s \/ poll = "ended")
=============================================================================
