------------------------------ MODULE Amplifier ------------------------------
(***************************************************************************)
(* CecAmplifier and those who set the volume through it: the tick of the   *)
(* controller, the encoder, HTTP requests (the dashboard and the volume    *)
(* hook of Music Assistant) and a phone.  They share one cec-client, whose *)
(* replies carry no name, so every dialogue holds a lock from its question *)
(* to the last answer.                                                     *)
(*                                                                         *)
(* calls is that lock: the calls in order of arrival, the first one holds  *)
(* it and phase says how far its dialogue is.  What a call returns to does *)
(* not suspend and belongs to the step that ends the call.  Volumes of     *)
(* Music Assistant groups are not the amplifier's: those branches have no  *)
(* effect here, and its hook is a request.                                 *)
(*                                                                         *)
(* Nobody else changes the receiver, and a reply that comes after the end  *)
(* of its cec-client is lost with it.  A client that has ended is noticed  *)
(* at its next use.  Modelled for amplifier.enabled and wake_on_audio, and *)
(* a router that starts what it is asked to.                               *)
(***************************************************************************)
EXTENDS Integers, Sequences, SequencesExt

CONSTANTS
    Requests,    \* HTTP requests that may be under way at the same time
    Asked,       \* volumes that requests and phones ask for
    Top,         \* 100, the top of the logical scale
    VolumeMin, VolumeMax,   \* the range of the receiver
    VolumeStep,  \* logical volume of one detent
    MaxDetents,  \* detents that one turn collects
    MaxCalls,    \* calls that wait or are served at the same time
    LocalPhonoVolume, UnknownVolume  \* the volumes assumed when none is known

ASSUME AmplifierAssumption ==
    /\ Top \in Nat \ {0, 1}
    /\ VolumeMin \in Nat /\ VolumeMax \in Nat /\ VolumeMin < VolumeMax
    /\ Asked \subseteq 0 .. Top
    /\ Requests \cap {"tick", "encoder", "phone", "daemon"} = {}
    /\ {VolumeStep, MaxDetents, MaxCalls} \subseteq Nat \ {0}
    /\ {LocalPhonoVolume, UnknownVolume} \subseteq 0 .. Top

Routes == {"idle", "local_phono", "local_bluetooth", "distributed_bluetooth",
           "other_ma"}
Users == {"tick", "encoder", "phone", "daemon"} \cup Requests
NoVolume == -1    \* None

VARIABLES
    route,    \* StateStore.status.route
    going,    \* the route the tick activates, "none" between activations
    profile,  \* local_phono_volume, in memory and on file
    reported, \* volume of the component "amplifier"
    calls, phase,
    keys,     \* volume keys the dialogue has yet to press, with their sign
    client,   \* _process: "none", "running", "exited"
    replies,  \* what it printed and nobody read
    owed,     \* questions the receiver has yet to answer
    level, muted,   \* the receiver
    ended     \* the daemon has begun to stop

tickvars == <<route, going>>
volumes == <<profile, reported>>
line == <<client, replies, owed>>
receiver == <<level, muted>>
vars == <<tickvars, volumes, calls, phase, keys, line, receiver, ended>>

Volumes == 0 .. Top
Kinds == {"audio", "power"}
Calls == [who : Users, does : Kinds \cup {"close"}, target : Volumes, hook : BOOLEAN]

TypeOK ==
    /\ route \in Routes /\ going \in Routes \cup {"none"}
    /\ profile \in Volumes /\ reported \in Volumes \cup {NoVolume}
    /\ calls \in Seq(Calls)
    /\ phase \in {"open", "ask", "read", "press", "confirm"}
    /\ keys \in VolumeMin - VolumeMax .. VolumeMax - VolumeMin
    /\ client \in {"none", "running", "exited"}
    /\ owed \in Seq(Kinds)
    /\ level \in VolumeMin .. VolumeMax /\ {muted, ended} \subseteq BOOLEAN

Init ==
    /\ route = "idle" /\ going = "none"
    /\ profile = LocalPhonoVolume /\ reported = NoVolume
    /\ calls = <<>> /\ phase = "open" /\ keys = 0
    /\ client = "running" /\ replies = <<>> /\ owed = <<>>
    /\ level \in VolumeMin .. VolumeMax /\ muted \in BOOLEAN
    /\ ended = FALSE

----------------------------------------------------------------------------
(* The two scales.  Python rounds halves to the even neighbour.            *)

Rounded(n, d) ==
    LET q == n \div d  r == n % d IN
    IF 2 * r > d \/ (2 * r = d /\ q % 2 = 1) THEN q + 1 ELSE q

Clamped(v, low, high) == IF v < low THEN low ELSE IF v > high THEN high ELSE v

Span == VolumeMax - VolumeMin

logical_to_cec(v) ==
    Rounded(VolumeMin * (Top - 1) + (Clamped(v, 1, Top) - 1) * Span, Top - 1)

cec_to_logical(v) ==
    Rounded(Span + (Clamped(v, VolumeMin, VolumeMax) - VolumeMin) * (Top - 1), Span)

----------------------------------------------------------------------------
(* Calls are queued.                                                       *)

VolumeCall(u, target) ==
    [who |-> u, does |-> "audio", target |-> target, hook |-> FALSE]
WakeCall == [who |-> "tick", does |-> "power", target |-> 0, hook |-> FALSE]
CloseCall == [who |-> "daemon", does |-> "close", target |-> 0, hook |-> FALSE]

Waits(u) == \E c \in ToSet(calls) : c.who = u
Begin(c) == Len(calls) < MaxCalls /\ calls' = Append(calls, c)
Beginning == UNCHANGED <<volumes, phase, keys, line, receiver>>

(* amplifier_volume_action, as the API calls it.                           *)
Request(u, target, hook) ==
    /\ u \in Requests /\ ~Waits(u)
    /\ Begin([VolumeCall(u, target) EXCEPT !.hook = hook])
    /\ UNCHANGED <<tickvars, ended>> /\ Beginning

(* A phone moves the group, or the receiver if the group is not found.     *)
bluetooth_volume_action(target) ==
    /\ ~Waits("phone") /\ ~ended
    /\ route \in {"distributed_bluetooth", "local_bluetooth"}
    /\ Begin(VolumeCall("phone", target))
    /\ UNCHANGED <<tickvars, ended>> /\ Beginning

CurrentVolume ==
    CASE route = "local_phono" -> profile
      [] route # "local_phono" /\ reported # NoVolume -> reported
      [] OTHER -> UnknownVolume

(* Mutant: a turn goes past the ends of the scale.                         *)
TurnedUnbounded(detents) == CurrentVolume + detents * VolumeStep

Turned(detents) == Clamped(CurrentVolume + detents * VolumeStep, 0, Top)

(* Local playback only: otherwise the group is moved, or nothing.          *)
hardware_volume_action(detents) ==
    /\ ~Waits("encoder") /\ ~ended
    /\ route \in {"local_phono", "local_bluetooth"}
    /\ Begin(VolumeCall("encoder", Turned(detents)))
    /\ UNCHANGED <<tickvars, ended>> /\ Beginning

(* What the tick still does for a route: its volume, then its status.      *)
activate_route(r, queue) ==
    \/ /\ r = "local_phono"
       /\ calls' = Append(queue, VolumeCall("tick", profile))
       /\ going' = r /\ UNCHANGED route
    \/ /\ r \in {"distributed_bluetooth", "other_ma"}
       /\ \E v \in Asked : calls' = Append(queue, VolumeCall("tick", v))
       /\ going' = r /\ UNCHANGED route
    \/ /\ r # "local_phono"          \* also if MA has told no volume yet
       /\ calls' = queue
       /\ route' = r /\ going' = "none"

(* Whatever follows silence wakes the receiver first.                      *)
Activate(r) ==
    /\ going = "none" /\ r # route /\ ~ended
    /\ \/ route = "idle" /\ Begin(WakeCall) /\ going' = r /\ UNCHANGED route
       \/ route # "idle" /\ Len(calls) < MaxCalls /\ activate_route(r, calls)
    /\ UNCHANGED ended /\ Beginning

(* The daemon stops once tick, encoder and Bluetooth are done; the API     *)
(* still serves requests, also after the client was closed.                *)
Close ==
    /\ ~ended /\ going = "none"
    /\ \A c \in ToSet(calls) : c.who \in Requests
    /\ ended' = TRUE
    /\ Begin(CloseCall)
    /\ UNCHANGED tickvars /\ Beginning

----------------------------------------------------------------------------
(* The first call returns, or raises.                                      *)

first == Head(calls)

(* Mutant: every direct control is saved, whatever plays.                  *)
SavesForAnyRoute(ok) == ok /\ ~first.hook /\ first.who \in Requests \cup {"encoder"}

(* The route is read when the dialogue is over.                            *)
Saves(ok) ==
    /\ ok /\ ~first.hook
    /\ first.who \in Requests \cup {"encoder"}
    /\ route = "local_phono"

(* A failure that the tick reports takes the known volume away, and so     *)
(* does waking, whose report has none.                                     *)
Return(ok, heard) ==
    /\ phase' = "open" /\ keys' = 0
    /\ profile' = IF Saves(ok) THEN first.target ELSE profile
    /\ reported' = IF ok \/ first.who = "tick" THEN heard ELSE reported
    /\ \/ first.does = "power" /\ activate_route(going, Tail(calls))
       \/ /\ first.does = "audio" /\ first.who = "tick"
          /\ calls' = Tail(calls)
          /\ route' = going /\ going' = "none"
       \/ /\ first.who # "tick"
          /\ calls' = Tail(calls)
          /\ UNCHANGED tickvars
    /\ UNCHANGED <<receiver, ended>>

(* Mutant: a dialogue that failed leaves its client in use.                *)
InvalidateNothing == UNCHANGED line

Invalidate == client' = "none" /\ replies' = <<>> /\ owed' = <<>>

(* Mutant: no deadline for an answer.                                      *)
NeverWaiting == FALSE

Waiting == phase \in {"read", "confirm"}

(* The client has ended, or an answer is overdue.                          *)
Fails ==
    /\ phase # "open"
    /\ client # "running" \/ Waiting
    /\ Invalidate
    /\ Return(FALSE, NoVolume)

----------------------------------------------------------------------------
(* The dialogue of the first call.                                         *)

_open ==
    /\ calls # <<>> /\ phase = "open" /\ first.does # "close"
    /\ IF client = "running" THEN UNCHANGED line
       ELSE client' = "running" /\ replies' = <<>> /\ owed' = <<>>
    /\ phase' = "ask"
    /\ UNCHANGED <<tickvars, volumes, calls, keys, receiver, ended>>

OpenFails ==
    /\ calls # <<>> /\ phase = "open" /\ first.does # "close"
    /\ client # "running"
    /\ UNCHANGED line
    /\ Return(FALSE, NoVolume)

SendQuestion(next) ==
    /\ client = "running"
    /\ owed' = Append(owed, first.does)
    /\ phase' = next
    /\ UNCHANGED <<tickvars, volumes, calls, keys, client, replies, receiver, ended>>

Ask == phase = "ask" /\ SendQuestion("read")
Confirm == phase = "press" /\ keys = 0 /\ SendQuestion("confirm")

(* _read_match: what comes before the first match is dropped.              *)
FirstOf(kind) == SelectInSeq(replies, LAMBDA r : r.kind = kind)

_read_match(kind) ==
    /\ client = "running" /\ FirstOf(kind) # 0
    /\ replies' = SubSeq(replies, FirstOf(kind) + 1, Len(replies))
    /\ UNCHANGED <<client, owed>>

(* Waking: asked again until the receiver is on, or eight seconds are over.*)
StillStandby ==
    /\ phase = "read" /\ first.does = "power" /\ _read_match("power")
    /\ phase' = "ask"
    /\ UNCHANGED <<tickvars, volumes, calls, keys, receiver, ended>>

Awake ==
    /\ phase = "read" /\ first.does = "power" /\ _read_match("power")
    /\ Return(TRUE, NoVolume)

(* The mute key toggles.                                                   *)
Toggle(target, status) == (target = 0) # status.muted

(* The first answer says which keys to press.                              *)
HearVolume ==
    /\ phase = "read" /\ first.does = "audio" /\ _read_match("audio")
    /\ LET status == replies[FirstOf("audio")] IN
        /\ muted' = (muted # Toggle(first.target, status))
        /\ keys' = IF first.target = 0 THEN 0
                   ELSE logical_to_cec(first.target) - status.level
    /\ phase' = "press"
    /\ UNCHANGED <<tickvars, volumes, calls, level, ended>>

Press ==
    /\ phase = "press" /\ keys # 0 /\ client = "running"
    /\ level' = IF keys > 0 THEN level + 1 ELSE level - 1
    /\ keys' = IF keys > 0 THEN keys - 1 ELSE keys + 1
    /\ UNCHANGED <<tickvars, volumes, calls, phase, line, muted, ended>>

(* The second answer is what the call returns and publishes.               *)
HearResult ==
    /\ phase = "confirm" /\ _read_match("audio")
    /\ LET status == replies[FirstOf("audio")] IN
        Return(TRUE, IF status.muted THEN 0 ELSE cec_to_logical(status.level))

CloseClient ==
    /\ calls # <<>> /\ phase = "open" /\ first.does = "close"
    /\ Invalidate
    /\ Return(TRUE, reported)

----------------------------------------------------------------------------
(* External: the receiver answers in the order it was asked, and the       *)
(* client may end.                                                         *)

Answer ==
    /\ client = "running" /\ owed # <<>>
    /\ replies' = Append(replies, [kind |-> Head(owed), level |-> level, muted |-> muted])
    /\ owed' = Tail(owed)
    /\ UNCHANGED <<tickvars, volumes, calls, phase, keys, client, receiver, ended>>

ClientEnds ==
    /\ client = "running" /\ client' = "exited"
    /\ UNCHANGED <<tickvars, volumes, calls, phase, keys, replies, owed, receiver, ended>>

Dialogue ==
    \/ _open \/ OpenFails \/ Fails \/ Ask \/ Confirm \/ StillStandby \/ Awake
    \/ HearVolume \/ Press \/ HearResult \/ CloseClient

Detents == (-MaxDetents .. MaxDetents) \ {0}

Next ==
    \/ \E u \in Requests, v \in Asked, hook \in BOOLEAN : Request(u, v, hook)
    \/ \E v \in Asked : bluetooth_volume_action(v)
    \/ \E d \in Detents : hardware_volume_action(d)
    \/ \E r \in Routes : Activate(r)
    \/ Close
    \/ Dialogue
    \/ Answer \/ ClientEnds

Spec == Init /\ [][Next]_vars

(* The loop runs, and the clock passes every deadline.                     *)
FairSpec == Spec /\ WF_vars(Dialogue) /\ SF_vars(Awake)

----------------------------------------------------------------------------
(* A volume call that returns has set the receiver to what it was asked    *)
(* for, and what it reports is what the receiver has: no answer to         *)
(* another question was taken for its own, whatever hung or died before.   *)
SetMeansSet ==
    [][phase = "confirm" /\ phase' = "open" /\ client' = "running" =>
        /\ muted <=> first.target = 0
        /\ first.target # 0 => level = logical_to_cec(first.target)
        /\ reported' = IF muted THEN 0 ELSE cec_to_logical(level)]_vars

(* A record begins at the volume of records as it is then, although        *)
(* others turned and asked while the receiver woke: only a dialogue that   *)
(* failed leaves it elsewhere.                                             *)
RecordBeginsAtProfile ==
    [][route # "local_phono" /\ route' = "local_phono" /\ client' = "running" =>
        /\ muted <=> profile' = 0
        /\ profile' # 0 => level = logical_to_cec(profile')]_vars

(* The tick gets through waking and volume whatever hangs, and whoever     *)
(* else was first: a receiver that does not answer does not hold up the    *)
(* control loop.                                                           *)
ActivationEnds == going # "none" ~> going = "none"

(* During local Bluetooth a turn moves the receiver in its direction, if   *)
(* the volume known is the one the receiver has.                           *)
TurnMovesReceiver ==
    [][/\ phase = "read" /\ phase' = "press" /\ first.who = "encoder"
       /\ route = "local_bluetooth" /\ ~muted /\ reported = cec_to_logical(level)
       => /\ first.target > reported /\ level < VolumeMax => keys' > 0
          /\ first.target \in 1 .. reported - 1 /\ level > VolumeMin => keys' < 0]_vars
=============================================================================
