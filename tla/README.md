# Verification of phono-console

phono-console is the daemon of a record console: a turntable input, a Bluetooth
input and Music Assistant (MA) share one amplifier. A local source plays
directly (output *Console*) or is published to MA, which plays it in a group of
speakers and returns it to the cabinet (output *Downstairs*). The daemon is one
asyncio process with a few child processes and a native capture engine.

This directory holds TLA+ modules that model parts of that daemon, the TLC
configurations that check them on small instances, and TLAPS proofs. Paths below
are relative to `src/src/phono_console/` unless they start with `docs/`.
`PROJECT.json` is the index: components, runs, mutants, source lines of every
definition, findings, hazards, theorems.

## 1. Inventory

| component | state | operations | what is hard | correct means |
| --- | --- | --- | --- | --- |
| Output intent (`state.py`, `api.py` 174-291, `runtime.py` 517-609, 659-682) | target, generation, phase, session; file `output-target`; two locks | HTTP request, encoder press, transition, rollback, restart | three handlers interleave at awaits on MA; answers come late, raise or are cancelled; crash between file and publisher | file, publisher and phase end up where the last choice says; stale work is harmless |
| Sendspin publisher (`sendspin_source.py`) | connection, stream task, request, retry task, selected source, flags, grace task | `run`, `source.start`/`stop`, select, enable/disable, retry, line sense | five tasks, two locks, captures that fail at any time, connections that drop | one capture; it is wanted, allowed and of the selected source; a wanted one comes back |
| MA play requests (`ma.py` 211-371) | request per key, its deadline, its task | play (coalesced), invalidate, stop | shielded task, settling window, stop racing a start | one start in flight; a start after a stop is a new one |
| Routing policy (`policy.py`, `controls.py` 36-55) | none | `choose_route`, `reduce_routing`, `distribution_confirmed` | many inputs | the decision table of `docs/state-machine-spec.md` |
| Controller (`controller.py`, `runtime.py` 342-426) | route, detectors, pending start, previous status | `tick`, `run` | awaits in the middle of a tick; reads status of the previous tick | route never contradicts the output; local sound until confirmed |
| Audio router and processes (`router.py`, `processes.py`, `audio_engine_playback.py`) | three owners of one device, backoff | apply, reconcile, start, stop | exclusive device, children that die or hang | never two owners; recovery |
| Engine client and fan-out (`audio_engine_*.py`) | connection, history, queues of subscribers | publish, subscribe with replay, leave | slow subscribers, epochs | gaps are announced; subscribers are independent |
| Native engine (`native/src/engine.c`) | one client, PCM handle, clock fit | accept, capture, recover | device and client vanish | epochs and sequence numbers mean what the protocol says |
| Hardware controls (`controls.py`) | queue of 128 events, pending events | turn, press | GPIO thread, dropped events, coalescing | presses are kept in order, turns add up |
| Bluetooth manager (`bluetooth.py`) | agent process, pairing window, media state | open, close, expire, prompts, polling | agent restarts inside a window | window, flag and published state agree |
| CEC amplifier (`amplifier.py`) | cec-client process, pending power-on | volume, on, standby | shared dialogue under a lock | answers belong to the question |
| Activity detector (`detector.py`) | active, candidate since | update, reset, force | boundaries | attack, release, hysteresis |
| Level monitor (`alsa.py`) | capture process, backoff | read, close | stalls, EOF | fresh samples or an error |

Configuration, levels and PCM arithmetic, diagnostics, simulation, dashboard and
installer hold no concurrent state and are not modelled.

Interactions: the API and the encoder change the intent and call the transition
in `runtime.py`; that calls the publisher (flags, `select_source`), MA (play,
stop) and the StateStore. The controller reads the StateStore and calls the
router, the publisher and MA. The publisher is commanded by the server and
reports into the StateStore. Everything shares one event loop; only GPIO
callbacks come from another thread.

## 2. Plan

Done: the modules of the table, and the `MC` modules that give them constants
for TLC.

| module | of the code | extends or uses |
| --- | --- | --- |
| `OutputChoice`, `OutputIntent`, `OutputIntentProofs` | output choice and its transition | `OutputIntent` implements `OutputChoice` |
| `SendspinSource`, `SendspinSourceProofs` | the publisher | |
| `PlayRequests`, `PlayRequestsProofs` | play and stop on MA | |
| `RoutingPolicy` | pure functions of `policy.py` | extended by `Controller` |
| `Controller`, `ControllerProofs` | the control loop, its callbacks and detectors | `RoutingPolicy` |
| `ExclusiveOutput`, `AudioRouter`, `AudioRouterProofs` | router and children | `AudioRouter` implements `ExclusiveOutput` |
| `Amplifier`, `AmplifierProofs` | the receiver on CEC and everybody who sets a volume | |
| `BluetoothManager`, `BluetoothManagerProofs` | agent, pairing window, media polling | |
| `FrameStream`, `FrameStreamProofs` | native engine, socket, client, fan-out, readers | |

Proved: every invariant and every safety action property of a passing run, and
both refinements (section 11). Next:

1. `SendspinSource` with `Selectors # {}`: which of the invariants of its second
   layer survive a `select_source` that restores a request.
2. `Controller`: what a tick publishes when the output was changed in one of its
   awaits, and the policy of `RoutingPolicy` against the table of the
   specification, row by row.

Runs stay few: one per question. Liveness of every module stays with TLC.

Still to be modelled after that: the queue of `HardwareControls`, `LevelMonitor`,
the marker migration of `runtime.py` 120-151 with a crash between any two steps,
the line sense of the publisher, the polling and backoff of `ma.py`.

## 3. Output intent

**Modules.** `OutputIntent` has one process per HTTP request (`Requests`) and one
for the encoder. A handler is `idle`, waits for one of the two locks, or is
suspended at an await of `output_mode_action` (`disable_phono`,
`disable_bluetooth`, `stop_players`, `playing`). An action is the code between
two awaits that can suspend: `Submit`/`Press` record the intent, `Enter` is the
generation test of `api.py` 250, `Superseded` is the target test of `runtime.py` 534,
`StartConsole` ... `FinishConsole` and `StartDownstairs` are the two branches, and
`Play*` are the ways `play_vinyl_source` ends. `Restart` may happen at any await:
only the file survives. `OutputChoice` is the abstract promise: one choice, a
file that only takes the value chosen at that moment, a publisher that only
moves toward what the file says. `OutputIntent` implements it with
`choice <- target, file <- saved, published <- enabled`.

**Abstractions.** Taking an uncontended asyncio lock does not suspend in the
code; the model lets others run there, which only adds behaviours. The status of
the controller is an arbitrary source. MA answers in any of the ways in
`PlayOutcomes`. The file can always be written. The controller's own writes to the phase are not in the module.

**Runs.** Two requests, the encoder and three intents (`MaxGeneration = 3`): two
handlers compete for each lock while a third is superseded, and every test of a
generation can be both true and false; handlers are reused after they return.

| run | shows |
| --- | --- |
| `intent` | with every way a start can end: the abstract choice is implemented, Downstairs is durable, the answer to a superseded start changes nothing |
| `intent_live` | if no start raises: once all handlers have returned, file, publisher and phase follow the last intent; every handler returns and Console is applied, under `FairSpec` |

**Fairness.** `Scheduled`: weak fairness of every step that only needs the event
loop. `Answered`: MA answers or its connection fails, which also ends the call.
The code has no timeout there (`runtime.py` 595), so without `Answered` a newer
intent can wait for ever for the start of an older one.

**What the documents say and the code does not do.** A start that raises is
rolled back in memory and not on disk (`api.py` 280;
`docs/state-machine-spec.md` 19 and 143-145): `OnePersistedIntent` fails with
`MCOutputIntent.cfg`. Downstairs chosen before the publisher has an identity
leaves it disabled for good (`runtime.py` 568; specification 139):
`DownstairsOpensPublisher` fails with `MCOutputIntentLive.cfg`.

The same rollback also leaves the publisher enabled under Console, and a Console
transition that waited for MA declares the routing stable (`runtime.py` 565)
without the comparison of generations that the Downstairs branch makes (598).

**Proved** (`OutputIntentProofs`, for any set of requests, any bound and any set
of outcomes): `TypeCorrect`, `LocksHold`, `DownstairsIsDurable`,
`ChoiceIsApplied` (if no start raises), `SupersededStartIsHarmless`,
`HandlersImplementChoice`. The assumptions are `IntentAssumption`, and for
`ChoiceIsApplied` that `"raised" \notin PlayOutcomes`. The argument: `LockInv`
says a handler at work is first on the locks it holds, so that at most one is
critical. `SettledAgreement` speaks of moments when nobody works and is not
inductive; its strengthening says *the current choice is in force, or someone
owes it*: a handler that waits with the current mode, or one that is past the
write of the file and has applied so much of it (`Applied`), numbered by the
generation it read (`Numbered`). The theorems are checked with no bound on
intents other than `MaxGeneration \in Nat`.

Model-checked only: the two liveness properties.

## 4. Sendspin source

**Module.** `SendspinSource` models the five tasks that share the publisher:
server commands (one at a time, in wire order, under `_command_lock`), the
controller and the output transition (both call `select_source`; the output also
enables and disables), the retry task and `run`. They are coroutines of one
loop: `loop` is the task that has not suspended since its last step, and an
action of another task needs `loop = NoTask`. So `StartRequest` and
`StartSection` of a task are one uninterrupted piece of code when the lock is
free, as in Python. `_stop_streaming` and `_start_streaming` are subroutines:
`at[t]` is where a task is, `after[t]` where the subroutine returns to.
`_stream_lock` is a FIFO queue, holder first. A capture is live from the moment
its pump is created, `failed` when the pump met an error, `closing` when it was
cancelled, and gone when its `finally` has ended.

**Abstractions.** The three distribution flags are one (the transition changes
the first one first and the others while it already stops); a cancelled retry
task ends at once; what is in the PCM is left out. A pump runs from the moment
it is created (a task cancelled before its first step is listed as a hazard).
A timeout of the clock and a failure of the capture are both `OpenFails`.

**Runs.**

| run | instance | shows |
| --- | --- | --- |
| `source_commands` | commands, output switches, failing captures, `FairSpec` | a stop sticks, captures do not overlap, a start is served unless something supersedes it, a wanted stream comes back |
| `source_outages` | and lost connections | one live capture, no unwanted stream, silence when disabled |
| `source_selection` | one selector, output switches, one command at a time | one live capture |

**Bounds.** Three captures are enough for one live, one closing and one being
opened; two pending commands for a stop with a start behind it. With selectors
and two pending commands the state space exceeds the budget, so
`source_selection` has one.
"Once everything has come to rest" (`Quiescent`) means no task is inside a
subroutine, no command is pending, no capture is closing; a sleeping retry and a
connection in any of its stable states are allowed.

**Fairness.** `Awaits`: locks are passed on, the server, BlueZ and devices
answer (BlueZ and captures end with an error otherwise), sleeps end.
`CaptureRecovers`: strong fairness of a successful open, that is, the device is
not broken for ever; without it nothing can promise a stream.

**What the documents say and the code does not do.** Replace the properties of
`MCSendspinSourceSelection.cfg` by the one named.

- `CaptureFollowsSelection`: `select_source` reads the request, waits in
  `_stop_streaming` outside `_command_lock`, and restores the request
  (`sendspin_source.py` 341; specification 102-104): a start handled meanwhile
  opens the old source and stays.
- `DisabledIsSilent`: with Bluetooth selected, a start waits for BlueZ after it
  tested the distribution and does not test again (482; comment 460-462). With
  a phono source the property holds and is a property of `source_outages`.
- `StreamComesBack` with `Dropping = TRUE`, two captures and `FairSpec`: a start
  handled after the connection was lost is neither served nor retried after
  the reconnection (504; `runtime.py` 396).

The start that opens the old source can do so beside a capture that is still
closing; a stop handled while `select_source` waits is undone by the restored
request; a stop of a Bluetooth stream that never opened is not published (732).

**Proved** (`SendspinSourceProofs`, for any captures and any number of pending
commands, from `SourceAssumption`), in three layers, each an inductive invariant
on top of the one before:

| layer | for | says | gives |
| --- | --- | --- | --- |
| `Safe` | every configuration | the tasks in the queue of the lock are those that are at it (`Locked`); the stream task owns the only capture that runs, and who opens one holds the lock and finds none (`Owned`) | `TypeCorrect`, `OneCaptureRuns` |
| `Plain` | `Selectors = {}` | a task is where its kind can be, and returns where it was called (`Ruled`); whatever streams or is being opened without being requested has a stop behind it in the queue (`Wanted`) | `StreamsAreWanted`, `DisablingSilences`, `StopsStick` |
| `Steady` | and `~Dropping` | a request always has a stream, a retry or the start of a command (`Served`); a stop waits for its capture after every start ahead of it has left the lock (`Stopped`, `Closing`) | `RequestsAreServed`, `CapturesAreApart` |

The hypotheses are those of the runs that check the same properties, and they are
needed: with selectors `StopSticks` and `DisabledIsSilent` fail as described
above, and on a connection that drops a start is not served. None of the
invariants behind them speaks of quiescence, which is why they had to be found:
the properties say what holds when everything rests, the invariants who still owes
it. A retry that is cancelled leaves the queue of the lock wherever it stands in it
(`Without`).

Model-checked only: `StreamComesBack` (liveness).

## 5. Play requests

**Module.** `PlayRequests` is the registry of `ma.py` 211-371 for one source and
one target, which is all `runtime.py` uses. `Callers` run `play_vinyl_source`:
`Join` or `Submit` is the section under `_play_request_lock`, `Return` and
`Raise` are the two ends of the shielded wait. `task[r]` is what the task of
request `r` does, `invalidate_play_requests`, `Gathered`, `SendStop` and
`StopFails` are `stop_players`. Nothing under `_play_request_lock` suspends, so
the lock is not a variable. Callers are the transition, the controller and the
API; stops come from the controller, the transition and the long press, so the
two do overlap.

**External.** The server executes what it received in order (`inbox`), and a lost
connection leaves any prefix of it to be executed, with nobody told. The history
variables `issued` and `stopped` say how far the requests had come when a stop
began, and which stop was executed.

**Runs.** Two callers, one stop at a time, three requests and three commands under
way: one request that is finished with, one that runs, and one that a mistake
could start beside it. `play_requests` shows that one start is in flight and that
no start outlives a stop that began after it.

**What the documents say and the code does not do.** A start submitted while a
stop waits for the cancelled one or for the connection is stopped by it, yet
stays registered, and the next Downstairs joins it for the settling time instead
of submitting a new one (`ma.py` 360; specification 220-221): `ReusedStartPlays`
fails with `MCPlayRequests.cfg`.

**Proved** (`PlayRequestsProofs`, for any callers, stoppers and bounds, from
`PlayAssumption`): `TypeCorrect`, `StartsAreCoalesced`, `StopsAreFinal`. The
argument: a running task is the registered one (`RunningIsRegistered`); what is
registered is the latest request and newer than every stop that is under way,
received or executed (`Newer`); in the inbox a start is newer than the stops
before it (`Ordered`). Together they are inductive. How long calls wait is not
modelled: there is no fairness in this module.

## 6. Controller

**Modules.** `RoutingPolicy` has the functions of `policy.py` as operators over
the values of the enumerations; an observation keeps of the publisher and of MA
the set of signals that hold (`Signals`), because every decision asks for all of
them. `Controller` is `Controller.run` calling `tick` for ever. `pc` is the await
at which the tick is suspended and `tick` its local variables: `Sample` and
`SampleFails` read the levels and update both detectors, `Preactivate` and
`PreactivateOutput` are the early opening of the direct route,
`HearMusicAssistant` and `HearBluetooth` end with the decision, `StartAttempted`,
`Released`, `Prepared` are the calls of the runtime's distribution callbacks, and
`Applied`, `ApplyFailed`, `Woken`, `RouteActivated` drive router and amplifier and
publish the status. `Choose` and the four steps of `Transition` are the output
choice and `output_mode_action` as far as they touch what a tick reads; they may
fall into every await of the tick.

**Abstractions.** A routing generation is only compared with the current one, so a
session is the source it is of, or none. What the publisher and MA report
(`Links`) may differ at each reading. A duration has elapsed or not: attack,
release and start timeout take any number of ticks. A level is below, between or
above the thresholds of the hysteresis. Modelled for the timestamped backend with
publisher and Bluetooth enabled.

**Run.** `controller` has no constants to bound: both sources, both outputs, every
report, a choice at every await, and the state space is finite. It shows
that between ticks the router keeps the player of the published route
(`PlayerMatchesRoute`); that a detected source which a tick selects is heard, from
its own player or from MA for its own distributed route, and that silence is left
to a player that fails to start (`SelectedSourceIsHeard`); that a tick turns to a
distributed route only when the publisher carries the source of that route, also
when the status it reads still names another (`DistributedSourceIsPublished`); that
a dead capture is silent in the same tick (`DeadCaptureIsSilent`); and that Console,
once chosen and left, gets rid of the distributed route (`ConsoleEventuallyLocal`).

**Fairness.** The tick is never stuck and never pauses for ever, said of `pc`: each
await has a timeout or ends with its connection.

**What the documents say and the code does not do.** With `MCController.cfg` and
`SPECIFICATION Spec`:

- `LoopOutlivesStarts` (specification 206 and 225): whoever stops the players (a
  Console transition, a press that stops, the API) invalidates the start the tick
  waits for; the `CancelledError` is no `Exception`, passes
  `controller.py` 377 and 498 and ends `run` and the gather of `runtime.py` 760,
  and with it the daemon (`StartCancelled`).
- `ConfirmedSourceIsPublished` (specification 104-108): a record is confirmed and
  ends, Bluetooth takes over without fresh PCM, and the status of the previous tick
  still confirms the record. A source that cannot be started skips the preparation
  (`controller.py` 491-496), so the tick turns to `distributed_bluetooth` while the
  publisher carries phono (`runtime.py` 343). Every other source is selected first,
  which is `DistributedSourceIsPublished`. A transition that reads the old status
  can still select the other source once the tick has decided.
- `ConfirmedIsRequested` (specification 108-110): a tick that read the output
  before the choice of Console publishes a distributed route as stable afterwards
  (`controller.py` 594, `state.py` 211-215).

Also seen: records return to local after the inactive interval (`README.md` 81-84)
for one tick only, because `runtime.py` 428-455 passes none of the callbacks that
would change the output; and `README.md` 97-100 says that direct phono stays
muted until synchronization when Downstairs was chosen, while the code plays it
until the distribution is confirmed, as the specification has it.

**Proved** (`ControllerProofs`; the module has no constants, so the theorems add to
the run that they do not depend on an enumeration, and say why they hold):
`TypeCorrect`, `PlayerIsPublished`, `SelectionIsHeard`, `DistributionIsPublished`,
`DeadCapturesAreSilent`, and two facts no run checks: `DistributedIsConfirmed` (the policy returns a
distributed route only for Downstairs and a confirmed session, whatever the
observation) and `ConsoleDecidesLocal` (a tick that decides while Console is
chosen decides for a local route and submits no start). The invariant
`Consistent` has one part per concern: which player the router keeps at each
`pc` (`Kept`), where an early start can have happened (`Early`), that a dead
capture selects nothing (`Dead`), and which routes fit the source that was
selected (`Decided`). `PlayerMatchesRoute` itself speaks of the sleep between two ticks only
and is not inductive without them.

Model-checked only: `ConsoleEventuallyLocal` (liveness).

## 7. Audio router

**Modules.** `ExclusiveOutput` promises one device that changes hands only through
silence and goes only to the player that is wanted. `AudioRouter` is
`ProcessAudioRouter` with its two `ManagedProcess` children and
`TimestampedLocalPlayback`. A call of the controller (`Apply`, `Close`) is a list
of players to stop and one to start; `Terminate`, `Kill`, `StopReturns` are
`stop`, with the three seconds as a choice; `FindDead`, `RefuseToStart`,
`Launch`, `LaunchFails`, `Replace` are `start`. A call that raises is followed by
one for silence, as the controller does. Children exit at any moment, also
between the stop of one and the start of the next.

**Abstractions.** Routes with the same player are one; `MaxDelay` is the number
of doublings between the shortest and the longest delay, and time passes by
`Elapse`.

**Run.** `router`, with all three players and two doublings (first, later and
longest delay): the refinement, under which two children alive at once would
be an owner that the abstract device does not know; a call for the player that
plays neither tells its child to stop nor cancels its pump, although the same call
stops what is left of a Bluetooth player that ended; a player that stays wanted
plays again; the end of the daemon leaves the device free, whatever does not end
when told to. `Close` comes between two calls only, as the loop looks at the stop
event between ticks and a cancelled start leaves the tick before it applies.

**Fairness.** The loop runs, cancelled pumps and killed children end, time passes;
`StartsRecover`: a start that is tried for ever succeeds (the program exists).

Seen: a child that starts and dies at once is restarted at the shortest delay
for ever, because a successful exec resets the doubling.

**Proved** (`AudioRouterProofs`, for any `MaxDelay`, from `RouterAssumption`):
`TypeCorrect`, `RouterIsExclusive` (the refinement: every step of the router is a
step of `ExclusiveOutput` or leaves owner and wish alone), `WantedIsLeftAlone`,
`ClosedIsSilent`. The invariant `Discipline` says which children may be alive at
each `pc`: while a call stops players, the wanted one and those still to be
stopped; at `start` at most the wanted one; at most one ever. That
is why a launch always finds the device free. It also says that a call which is to
stop the player it wants is replacing a Bluetooth player that does not play, which
is what `WantedIsLeftAlone` needs.

Model-checked only: `WantedPlayerPlays`, `ClosesInSilence` (liveness).

## 8. Volume and the receiver

**Module.** `Amplifier` is `CecAmplifier` with everybody who sets a volume through
it: the tick that activates a route, the encoder, a phone, HTTP requests and the
volume hook of MA. `calls` is the lock, in order of arrival. A dialogue asks,
reads the first matching line, presses keys one by one, asks again and returns;
the client may end at any moment and an answer may be overdue (`Fails`). `Return`
holds what each caller does when its call is back: the profile of records is
saved for the route that plays *then*, and the status of the receiver is
published.

**Abstractions.** One `cec-client` line is one answer; nobody else turns the
receiver; groups of MA have no effect here; the early waking of a preactivated
output (`controller.py` 217-232) is left out, as is a phone's dialogue that the end
of the daemon cuts short (`bluetooth.py` 423). Scales are integers with the rounding
of the code (`Rounded` is half to even).

**Runs.** `volume`: a scale of four values, a receiver of three, one request at a
time beside tick, encoder and phone, two calls in the lock (one at work, one
waiting; those that come later do not see whom they wait for). `volume_scale`: the configured scale
(0 to 100 on 15 to 45, two per detent) and no concurrency to speak of, because the
question is of numbers.

`volume` shows that a call that returns has set the receiver to what was asked
and reports it, whatever came late or died before (`SetMeansSet`); that a record
begins at its profile, whatever was turned while the receiver woke
(`RecordBeginsAtProfile`); that a receiver that does not answer never holds up
the control loop (`ActivationEnds`).

**Fairness.** The loop runs. Strong fairness of `Awake` stands for the deadline of
eight seconds, which ends the repetition of the question.

**Finding.** `volume_scale`: during local Bluetooth one detent is two logical
volumes, less than a step of the receiver. At receiver levels 23, 30, 33, 43 a
turn upward rounds back to the same level and nothing moves, however often it is
repeated; at 17, 20, 27, 37, 40 downward.

Also seen: waking, and every activation that fails, publishes the component
without a volume, so that the next detent starts from 50 (`README.md` 117 says
that waking never resets the volume); a turn or a phone volume queued under one
route is applied under the next (against the comment of `runtime.py` 225-228);
after the amplifier is closed the API still serves, and opens a client again
(`runtime.py` 761-763).

**Proved** (`AmplifierProofs`, for any scales, steps, callers and lengths of the
lock's queue, from `AmplifierAssumption`: a logical scale of at least two steps, a
receiver with at least two volumes, callers with names of their own):
`TypeCorrect`, `CallsSetTheReceiver` (`SetMeansSet`), `RecordsBeginAtTheirVolume`
(`RecordBeginsAtProfile`). The invariant has three parts. `Queue`: at most one
call is the tick's, there is one only during an activation, and what it asks for a
record is still the profile, because a profile is saved only while records play
and an activation leads to another route. `Conducted`: what is still to be
pressed leads from where the receiver is to where the call wants it. `Answers`: a
client in use owes and has printed nothing but the answer to the question of
the dialogue at work, since a dialogue that failed has thrown its client away. The
arithmetic the type needs, that both roundings stay in their ranges, is proved for
all scales (`ReceiverRange`, `LogicalRange`).

Model-checked only: `ActivationEnds` (liveness); `TurnMovesReceiver`, which fails
on the configured scale.

## 9. Bluetooth manager

**Module.** `BluetoothManager` has `run` with its agent process, the window
(`_pairing_active`, the timer, what BlueZ and the dashboard were told) and the
poll. `open_pairing` is one step, because writing to the agent does not
suspend; `close_pairing` is two, around the programs that list and trust devices.
`_refresh_media_state` is two, asked and published, for the poll and for a
command. Listing and trusting devices (309) is taken to end without raising.

**Run.** `bluetooth`, one request that closes beside the timer, any number of
openings, agents that fail to start or die at any point, one volume besides none: a
window that is shown and running is open for phones and accepted by the
agent; without further requests every window ends, for BlueZ and for the
dashboard; what is published of the phone is the truth again and again. A
second closing request adds no outcome, as closing is idempotent.

**Fairness.** The loop, sleeps and programs; strong fairness where the environment
must succeed now and then: an agent registers, BlueZ answers the poll.
`WindowCloses` needs the first: no agent, no one to tell BlueZ.

Seen and not against a document: a request to open without an agent fails but
leaves `_pairing_active` set with no timer; an opening while an older close trusts
devices is published as closed; the end of the daemon tells BlueZ nothing; the
volume of the phone is remembered before the action, so one that fails is not
repeated; an action that hangs stops the polling.

**Proved** (`BluetoothManagerProofs`, for any requests and volumes): `TypeCorrect`,
`ShownIsOpen`. `ShownWindowIsOpen` is inductive as it stands: the window is shown
and has a timer only since `open_pairing` told BlueZ and the agent, a close takes
the timer before it tells them, and a new agent takes the announcement back before
it serves.

Model-checked only: `WindowCloses`, `MediaFollowsPhone` (liveness).

## 10. Frames

**Module.** `FrameStream` follows the frames of one source: capture and mark of the
native engine (`engine.c`), the socket, the one connection of
`AudioEngineClient`, and `FrameFanout` with its history and a bounded queue per
reader. Intervals of the source are numbered whether or not a frame carries them,
so that a gap is a missing number. Lost are: what the device overran, what a full
socket did not take, what was in the socket when the connection ended, what a full
queue dropped. The engine serves one client and dies at any moment.

**Abstractions.** Sequence, epoch and time stamps only feed counters and the clock
fit, and are left out, as is everything inside a frame.

**Run.** `frames`, two readers (the first queue and another, and the two changing
places), queues of three, a socket of two, eight intervals: enough to fill the
queue, to drop a marked frame from it, to lose the connection and to fill it
again. `LossIsTold`: a reader learns of every gap, from the frame after it or
from a later one already in its queue. There is no liveness: nothing obliges a reader to
read.

**What the documents say and the code does not do.**
`docs/timestamped-audio-engine-plan.md` 125-126 says the frame that follows a
dropped one is marked. The code (`audio_engine_client.py` 79-83) marks the newest,
which is at the other end of a queue: the reader passes the gap unmarked and
learns later. `GapIsMarked` fails with `MCFrameStream.cfg`. A frame the socket
did not take begins no new epoch (rule 2, line 121). The level monitor reads one
frame per tick of 100 ms from a stream of 20 ms frames, so that its queue is
always full and what it shows is as old as the queue is long.

**Proved** (`FrameStreamProofs`, for any readers, capacities and length of the
source, from `StreamAssumption`: a queue holds two frames at least, as
`FrameFanout` demands, and the two markers name no reader): `TypeCorrect`, also that no queue, history or socket exceeds its
capacity, and `LossesAreTold` (`LossIsTold`). `LossIsTold` speaks of the queues,
but a gap may still be on its way there. The invariant `Way` follows it: in the
history and in the socket the frame after a gap is marked itself; the engine has
its mark set unless the last frame on the way is the interval just captured; only in
a queue may the mark have moved to a later frame, and each drop at its head
leaves one behind.

## 11. Proved and model-checked

Proved, for every value of the constants: every invariant and every safety action
property of a passing run, and the refinements `ImplementsChoice` and
`ImplementsExclusive`, in eight modules of proofs. The theorems about
`SendspinSource` beyond type and `OneLiveCapture` have the hypotheses of their runs
(section 4), `ChoiceIsApplied` that no start raises (section 3).

| module of proofs | its invariant | runs where TLC checks the same properties |
| --- | --- | --- |
| `OutputIntentProofs` | `Numbered`, `LockInv`, and who owes the choice | `intent`, `intent_live` |
| `PlayRequestsProofs` | `RunningIsRegistered`, `Newer`, `Ordered` | `play_requests` |
| `AudioRouterProofs` | `Discipline` | `router` |
| `FrameStreamProofs` | `Way` | `frames` |
| `ControllerProofs` | `Consistent` | `controller` |
| `BluetoothManagerProofs` | `ShownWindowIsOpen` | `bluetooth` |
| `SendspinSourceProofs` | `Safe`, `Plain`, `Steady` | `source_commands`, `source_outages`, `source_selection` |
| `AmplifierProofs` | `Queue`, `Conducted`, `Answers` | `volume` |

TLC had checked each of these invariants on the constants of the runs before it
was proved.

Model-checked only, because liveness under fairness is beyond the prover:
`EveryHandlerReturns`, `ConsoleEventuallyApplied`, `StreamComesBack`,
`ConsoleEventuallyLocal`, `WantedPlayerPlays`, `ClosesInSilence`, `ActivationEnds`,
`WindowCloses`, `MediaFollowsPhone`.

## 12. Not modelled

- The queue of `HardwareControls` (bounded, coalescing, filled from a GPIO
  thread): turns and presses are taken one at a time.
- The ALSA level monitor: one sequential capture with a backoff, which the
  controller sees as a sample or a failure.
- Line sense and pacing of the publisher; polling and reconnection of `ma.py`;
  the start-up migration of the old markers.
- The clock fit of the native engine: floating point.
- Configuration, levels, PCM and limiter, diagnostics, probe, simulation,
  dashboard, installer: no behaviour in time that other parts depend on.

## 13. Running

`tlc -config X.cfg M` for the runs of `PROJECT.json`, `tlapm M.tla` for each module
of proofs; the longest, `SendspinSourceProofs`, takes some minutes. A property of an end section "What the documents
say and the code does not do" is seen to fail by putting it in place of the
properties of the configuration named above.
Operators introduced by the word *Mutant* are plausible bugs: put in place of the
definition they follow, each makes TLC refute the property `PROJECT.json` names
for it. They are not used otherwise.
