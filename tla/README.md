# Verification of ROS2_SALUS

TLA+ models, TLC runs and TLAPS proofs about the control software of the SALUS
robot (`src/src/`): a rover that drives under Nav2, is teleoperated from a web
console, and takes RTK corrections from NTRIP casters. Paths below are relative
to `src/src/`; `nav` stands for `navegacion_gps/navegacion_gps`, `ctl` for
`controller_server/controller_server`, `sens` for `sensores/sensores`, `web` for
`map_tools/map_tools`.

## 1. The system

The command chain, from the planner to the wheels:

    Nav2 -> /cmd_vel -> collision_monitor -> /cmd_vel_safe -+
                                                            v
    console -> web_zone_server -> /cmd_vel_teleop -> nav_command_server
                 |  services: goal, cancel, brake, manual    |
                 +------------------------------------------>|
                                                             v
         UART <- CommsClient <- controller_server_node <- /cmd_vel_final

### Components

| component | state it keeps | operations | interacts with | what is hard |
|---|---|---|---|---|
| `nav/nav_command_server.py` | tracked goal handle, navigating flag, mode (`idle`, `point_to_point`, `loop`), loop plan, manual mode and last manual command, goal status of others, collision stop | services `set_goal_ll`, `cancel_goal`, `brake`, `set_manual_mode`; subscriptions to `/cmd_vel_safe`, `/cmd_vel_teleop`, collision state, goal status; 10 Hz watchdog; result callbacks | Nav2 action servers (goal, cancel, result), clients of its services, `controller_server` | two executor threads, blocking waits in callbacks, state read under a lock and used after it, late answers |
| `nav/nav_status_gate.py` | none | is any goal in a list active? | `nav_command_server` | |
| `ctl/controller_server_node.py`, `ctl/transport_backends.py` | last command and its time | take `/cmd_vel_final`, control tick, telemetry tick, shutdown | `CommsClient` or the Gazebo backend | command applied by five setters while another thread reads |
| `ctl/rpy_esp32_comms/` | `CommandState`, threads, statistics | transmit loop, receive loop, `stop()` with safe frames | the serial port | held frames, lost writes, order at exit |
| `ctl/control_logic.py`, `rpy_esp32_comms/protocol.py` | none; parser buffer | message to command, command to frame; frame parser | | deadband, enforced minimum, 16-bit frame |
| `ctl/sim_gazebo_backend.py` | simulated actuator | same interface as the UART client | Gazebo | ramps in real arithmetic |
| `sens/rtk_source_manager.py` | sources, active id, connected flag, socket | select, upsert, delete, reconnect; reader thread | casters, the sources file, the console | two threads, socket closed by the other thread, file that cannot be written |
| `sens/rtk_bridge.py`, `rtk_bridge_core.py` | last messages, RTCM counters | forward RTCM, resolve the RTK status | MAVROS | freshness of several sources |
| `sens/pixhawk_driver.py`, `mavros_compat_bridge.py` | last sensor values, RTCM queue | convert MAVLink to ROS, read an RTCM stream | Pixhawk | frames over a broken connection |
| `sens/web_server.py`, `sens/camara.py` | none of their own | HTTP pages, camera pan and zoom | camera | |
| `web/web_zone_server.py` | cached state of the other nodes, recording process | WebSocket requests to services; recording | all services | each request is a task; stale cache; requests that time out but are executed |
| `nav/zones_manager.py` (+ `zones_geojson_utils`, `keepout_mask_utils`) | zones in memory, GeoJSON file, mask files | set, reload | map server, `fromLL` | four copies of one state written one after another |
| `nav/datum_setter.py` | datum, RTK flags, pending auto-set | set/get datum, automatic datum at the RTK edge | navsat services | three callbacks complete one edge |
| `nav/goal_pose_to_follow_path_v2.py` | active path, handle, replan flags | goal pose, replan, result | FollowPath | cancel-then-resend; `LOCAL_NAV_V2.md` calls it historic |
| `nav/nav_snapshot_server.py` | last grids and polygons | draw an image | console | |
| velocity bridges, stationary gates, heading estimators, observability, benchmarks, simulation tools | filters and statistics | per-sample functions | | real arithmetic |
| launch files, configuration | launch configurations, started nodes | include, scope, condition, timer | every node | included files share their configurations with the one that includes them |
| `interfaces` | | message types | | |
| `rslidar_sdk`, `rslidar_msg` | | vendored lidar driver | | |

What makes the main ones correct:

* `nav_command_server`: manual takeover and watchdog stops are final; a cancelled
  goal does not drive and a cancelled loop does not go on; the goal it tracks is
  one that can still be cancelled; no goal is tracked for ever.
* controller and UART: what stops the robot reaches the wire, with a bounded
  number of frames after it; silence stops it; the exit is safe; the frame
  carries the speed that was asked for, and the speed is one the vehicle holds.
* `rtk_source_manager`: the active source exists, corrections of a source that
  was left stop, a switch completes, the status does not claim a connection that
  is gone.
* `zones_manager`: memory, files and map server agree after every operation and
  every restart. `web_zone_server`: at most one recording, and one can always be
  stopped; manual mode comes back on request only; the zones and the mode shown
  are those in force. `datum_setter`: no RTK edge is lost, and the datum reported
  is the one in use. `goal_pose_to_follow_path_v2`: the hold that follows a result
  never stops a goal that runs.
* readers of framed streams: a frame that arrives whole is handed on, and nothing
  else. `rtk_bridge`: RTK that is lost is not claimed for ever.
* launch files: every input has one source, what a session goes without is known,
  and every lifecycle node has one manager.

`PROJECT.json` lists every component and the hazards, each at its line.

## 2. Modules

| module | what it is |
|---|---|
| `NavCommandServer` | `nav_command_server` with the threads of its executor and an external Nav2 |
| `DriveAuthority` | what `nav_command_server` promises of `/cmd_vel_final`: the abstract specification it implements |
| `MCNavCommandServer` | its instances for TLC (symmetry of the goals) |
| `NavCommandServer_proofs` | its theorems, the refinement among them |
| `DriveCommand` | the pure path message -> command -> `CommandState` -> frame |
| `MCDriveCommand` | a sweep over requests, with the reference definitions it is compared with |
| `DriveCommand_proofs` | the same facts for all parameters and requests |
| `ControllerServer` | the node's thread and the transmit thread, composed with `DriveCommand` (EXTENDS) |
| `SafeWire` | what `controller_server` promises of the frames that leave its port: the abstract specification it implements |
| `MCControllerServer` | its instance |
| `ControllerServer_proofs` | its theorems, the refinement among them |
| `RtkSourceManager` | the node's thread and the reader thread, the sources file, crash and restart |
| `MCRtkSourceManager` | its instance |
| `RtkSourceManager_proofs` | its theorems |
| `ZonesManager` | the set, reload and load transaction of `zones_manager`, with an external map server |
| `ZoneStore` | what `zones_manager` promises: the abstract specification it implements |
| `MCZonesManager` | its instance, with the refinement mapping |
| `ZonesManager_proofs` | its theorems, the refinement among them |
| `RosbagRecorder` | the recording control of `web_zone_server` |
| `OperatorGateway` | the requests of the pages, the manual gate and the caches of `web_zone_server` |
| `OperatorGateway_proofs` | the theorems of these two |
| `DatumSetter` | `datum_setter` |
| `FollowPathReplan` | `goal_pose_to_follow_path_v2` |
| `DatumAndPaths_proofs` | the theorems of these two |
| `FrameStreams` | the four readers of framed byte streams |
| `FrameStreams_proofs` | its theorem |
| `RtkStatus` | the status `rtk_bridge` resolves |
| `MCGateway` | the instances of the six modules above |
| `LaunchProfiles` | the launch files |
| `MCLaunch` | the seven profiles and the flags an operator sets |

Definitions whose name ends in `Mutant` are plausible mistakes; none is used by
a specification. Each one, put in the place of the definition it is named after,
breaks the property `PROJECT.json` pairs it with.

### NavCommandServer

A thread of the executor is one of `"svc"` (services, one at a time), `"sub"`
(subscriptions and timer, one at a time) or a goal `g` (its result callback,
reentrant). `job[t]` is what the thread is doing; a callback starts only when
fewer than `NumThreads` callbacks are running (`ThreadFree`), and an answer of
Nav2 to a waiting callback is taken by a free thread too (`Answered`,
`CancelAnswered`). The callback that waits polls its future, so it finds the answer
later (`Accepted`, `CancelAcked`), when that thread may be running something else.
One step is one section under `_lock`, one publication, or one wait: this is the
grain at which the code can be interrupted.

| variable | code |
|---|---|
| `nav` | `_is_navigating`, `_auto_mode`, `_current_goal_handle`, `_loop_enabled`, the loop plan |
| `man` | `_manual_enabled`, `_last_manual_cmd` and its age, `_manual_watchdog_stop_sent` |
| `ext` | `_external_nav_active`, `"unknown"` when never set or too old |
| `collision` | `_collision_stop_active` |
| `pendingBrakes` | messages the `nav_cmd_brake_seq` threads still owe |
| `out` | the last `/cmd_vel_final` |
| `nav2`, `cancelReq`, `watched`, `safeMsg`, `statusMsg` | Nav2 and the queues, external |
| `cancelled`, `lateAuto`, `overtaken` | history for the properties |

| actions | code |
|---|---|
| `SetGoal` ... `LoopConfig` | `set_goal_ll`: cancel of the goal before, reset, conversion, send with its 5 s wait, adoption, loop configuration |
| `Send`, `NotSent`, `Answered`, `Accepted`, `Watches` | sending, also from a loop restart: the request, the answer, the adoption under the lock, and the result callback added after it |
| `Result`, `Restarted` | `_on_nav_action_result_done` and the loop segment that follows |
| `CancelGoal`, `CancelPublish`, `AsyncBrake` | `cancel_goal` and its asynchronous brake sequence |
| `BrakeService`, `Braking` | `brake`, and the synchronous brake sequences |
| `ManualOn`, `ManualOff`, `TeleopTakeOver`, `TakeOverDetach`, `ManualStop`, `Teleop`, `TeleopCmd` | manual mode by service and by teleop |
| `Watchdog`, `WatchdogStop`, `WatchdogMark` | the 10 Hz manual watchdog |
| `CmdVelSafe`, `Publish`, `CollisionState`, `ExternalStatus` | subscriptions |
| `CommandAges`, `ExternalAges` | time: the two timeouts may pass at any moment |
| `Nav2...` | the action servers |

`NavigatingHasAGoal` has one exception, `overtaken`: a `set_goal_ll` that fails
while a loop segment is being sent. Its reset clears the mode (1311), the segment is
adopted and turns looping on again (1241), the failure drops the mode (1344), the
result of the segment the handle (1430) and not the loop, and the restart that was
under way then declares the loop active with no handle (1457).

Velocities are `"zero"`, `"move"` and `"brake"`. Left out: telemetry, events and
failure codes; which poses a loop segment holds; the numbers inside the
conversion `fromLL`, of which only the failure is kept.

`DriveAuthority` has no threads, goals or messages: one party is in charge (Nav2,
the operator or nobody), a command is taken from the party in charge and published
later, whoever is in charge then, and only one command is between the two at a
time. Anyone may stop the robot; a stop for silence stands until the operator takes
charge anew or commands. In the mapping `charge` is what the gate of
`_on_cmd_vel_safe` and the manual mode say, with nobody in charge during a collision
stop, `held` is the velocity the subscription thread is about to publish, and
`stopped` is the mark of the watchdog. `IsDriveAuthority` is the refinement as a
property of the run, `ImplementsDriveAuthority` its proof.

### DriveCommand and ControllerServer

`DriveCommand` translates `control_logic.py`, the clamps of `CommandState` and
the frame of `protocol.py` in integers: a speed is counted in units of which `Centi`
make the cm/s of the wire, so that the scaling, the rounding (`Rounded`, half to
even) and the two bytes of the frame (`Frame`) lose what the code loses.
`FrameCarriesSpeed` says that this is half a cm/s at most. The steering percentage
is an arctangent of the curvature, angular speed over a reference speed; the model
keeps its sign and its reference speed, which is what the deadband decides, and the
curvature up to which the percentage rounds to 0 (`StraightCurvature`, in 0.0001/m:
tan(0.005 `steering_limit_rad`) / `wheelbase_m`, 28 for the vehicle). Floats are
taken to be exact, and the header and the checksum of a frame sent are left out.
`ControllerServer` has
the node (`OnCmdVelFinal`, `ControlTick`, then one `Setter` for each of the five
calls of `apply_command`), the transmit thread (`TxSnapshot`, then `TxWrite` or
`TxFails`: the exception is counted and dropped), `stop()` step by step
(`StopResets`, `StopSignals`, `StopJoins`, `StopSends` three times), an
interrupt at any point of the node, a kill, and a restart that leaves the last
frame on the wire. `stop()` joins for at most 1.5 s; a write is bounded by the
50 ms write timeout, so `StopJoins` waits for the thread to have ended
(`StopJoinsMutant` shows what happens otherwise).

`SafeWire` has no threads, setters or protocol: a frame that moves the vehicle is
taken only while a command that moves is granted, one at a time, and may go out
after the grant has ended, or be lost; the first safe frame of the exit that gets
through seals the wire until the next launch. In the mapping `held` is a frame that
moves between snapshot and write, `moving` what the last frame on the wire does, and
`sealed` that a safe frame was sent. `IsSafeWire` is the refinement as a property of
the run, `ImplementsSafeWire` its proof. It implies `AtMostOneLateFrame` (one frame
is held at most, and taking another one needs a grant) and `SafeAtExit`, which is
therefore proved but has no run of its own.

### RtkSourceManager

`sources`, `active` and `connected` are the fields under `_data_lock`; `socket`
says whether a stream is registered in `_socket`; `stream` is the source the
reader took and whether its socket was closed. Requests are `SelectSource`,
`Upsert` and `Delete`, each with the branch in which the file cannot be written;
`Disconnect`, `CloseTakes` and `CloseClears` are the rest of a request, in the
node's thread. The reader goes `Pick`, `OpenSucceeds` or `OpenFails`,
`MarkConnected`, `Consume`, `Check`, `Receive`, `Fail`, `Close`. The history
variable `gap` records the two cases in which the code does not tell the reader
of a change: a close that finds no registered socket, and a file write that
fails after memory was changed.

`file` is the sources file. A write that cannot be opened leaves it as it was; one
that does not end leaves a file that cannot be read (`Torn`) or that lacks sources
(`Cut`). `Crash` ends both threads at any point, `Restart` begins from the file,
and `RestartFails` is the constructor that raises on a torn one: it stays down
until somebody repairs the file. `unsaved` records that a write failed and none
followed it.

### ZonesManager

A request runs alone (mutually exclusive group), so `job` is what the only
service thread, or the constructor, is doing; its steps are those of
`_apply_geojson` in the order of the code: `Convert` (`fromLL` may fail for any
polygon), `OpenImage`, `WriteImage`, `OpenYaml`, `WriteYaml`, `CallLoadMap`,
`LoadAnswered` or `LoadTimeout`, `ClearCostmap`, `SaveGeojson`, `WriteDoc`,
`Commit`. A file is truncated by one step and whole after the next, and
`WriteFails` or `Crash` may come between them: `Torn` is what they leave.

| variable | code |
|---|---|
| `memory` | `_geojson_doc`, `_mask_ready` |
| `geojson`, `image`, `yaml` | the three files |
| `served`, `answer`, `late` | the map server, external: its mask, and the `load_map` requests it still has |
| `reply` | `ok` of the last response |
| `unsettled` | history: the image was touched since memory was last set |

A document is its set of enabled polygons and a mask the set it was made of;
parsing, rasterising and costs are left out. The constructor applies the zones
before the executor spins, so in it no `fromLL` answer arrives (`Converted`) and
`load_map` can only time out, although the map server may well execute it: after
a start `mask_ready` is false until the first request, whatever the map server
serves. A start from a torn GeoJSON file takes the empty document, and writes an
empty mask; `RestartKeepsMask` has that as an exception. When a write fails after
the map server loaded the new mask, memory keeps the old zones and the old
`mask_ready`: `ReadyIsServed` has that as an exception (`unsettled`), and the
answer is not ok.

`ZoneStore` has no files, steps or timeouts: a saved document, a mask in force, and
a reply. Its mask may change only after a request has touched it or while the
store does not vouch for it, a saved document is replaced only by a request to set
zones, and ok is answered only with a mask in force that enforces the document
just reported. The mapping takes the image's history for `touched`, the GeoJSON
file for `saved`, what the map server serves for `mask`. `IsZoneStore` is the
refinement as a property of the run; `ImplementsZoneStore` is its proof.

### RosbagRecorder

A start or a stop is served by a thread of its own. `stored` is `_rosbag_process`;
`process` says of each recording whether it is new, runs or ended, independently
of who knows it, because a recording runs in a session of its own. A start goes
`StartRosbag`, `Spawn` or `SpawnFails`, `PollStarted`, `StoreFailed` or `Store`;
a stop goes `StopRosbag`, `Interrupt`, `WaitEnds`, `Terminate`, `FinishStop`, or
`ClearStored` when nothing runs. A stop may fail at both ends: no signal can be sent
(`Interrupt` then answers), or the process survives SIGKILL for 5 s (`StopFails`);
the recording stays stored. `Waiter` is a waiter thread. `start_rosbag` looks
for a recording under the lock and stores its own at least 0.4 s later: a second
start in between loses the first one's process for good. `overlapped` records that
a start ran together with another request, and the property promises nothing then.

### OperatorGateway

`task[t]` is the message a thread serves: the operation, the service call it is at
(`ServiceCalls` lists the calls of each operation), what became of the request.
`late` holds requests the gateway gave up and the node may still serve. `cache` is
what the pages are shown; `nav` and `zones` are the truth in the other nodes.
`Gate` is the check of the cached mode for a manual command and `PublishTeleop`
the publication after it, a step later. Goals, cancel, brake and snapshots are one
operation, `"relay"`. What the other nodes do to a request is `Effect`: zones sent or
reloaded are those of `zones_manager` once its mask is written, also when `load_map`
or the costmap clear fails after it and the answer is an error, which is as
`ZonesManager!Commit` has it; the gateway then asks for no refresh. Properties with history: `asked` is reset only in a state in
which manual mode is off and nothing made under it is on its way (`SettlesQuiet`,
a step that changes nothing else), `unsure` says that requests on zones
overlapped, that one was served late, that the refresh after a change failed
(which `set_zones_geojson` does not report), or that zones were taken over with an
error for an answer. The next request on the zones that is answered alone ends it.

### DatumSetter

The subscriptions (`"sub"`) and the services (`"srv"`) are two callbacks that may
run together and occupy both threads of the executor. `OnGpsFix`, `OnRtkStatus`
and `OnImu` are the three ways to an automatic datum, `OnSetDatum` the request;
then `Apply`, `TakeLock`, `CallSetDatum`, `ResponseArrives`, `CallTimesOut` with
its retries, `Commit`. A response is taken only by a free thread: when both
callbacks wait, only the timeout ends it (`LockIsReleased`). `edge` records an RTK
edge for which nothing was started. A call that fails after the edge was taken is
not tried again until the next edge or request; that is the code's behaviour, and
`EdgeIsKept` speaks only of the time until the attempt has started. `lateSet`
records that a call that was given up may be handled last.

### FollowPathReplan

One action for each callback. A replan cancels the goal, and sends the new one
when the cancel is answered; one flag, `ignore`, is to swallow the result of the
old goal. `HoldSparesRunningGoal` says what the flag achieves, and `overtaken`
the cases in which it does not: a goal pose during a replan, a result that comes
after the next replan, a cancelled goal that ends otherwise.

### FrameStreams

A frame is cut into `Size` units; a unit may begin like a header (`Disguised`).
The UART loses and corrupts units and its parser has a checksum; the RTCM readers
over TCP lose nothing but their connection, and look at no checksum. `rtk_bridge`
and `pixhawk_driver` keep a partial frame over a reconnection, and join it to the
next one; `rtk_source_manager` begins with an empty buffer. `FramesAreFound`
states the difference: each break costs those two at most one frame, and hands on
at most one that was never sent.

A reader is in one of three phases. While it is `"waiting"` or `"reading"` units
reach its read one by one (`Arrives`, `IsLost`); `EspReads`, `BridgeReads`,
`PixhawkReads` and `NtripReads` return what came, however much that is; then
it is `"parsing"`, one step for each iteration of the parser's loop: `EspSkips`
(`find` the next header, or clear) and `RtcmSkips` (`pop(0)`), `EspRejects` (a
wrong checksum drops one byte), `HandsOn`, and `ParserStops` when the rest may still
become a frame. `next` is what the wire carries next; `damaged`, `breaks` and
`fooled` are history. A connection is given up only between two reads.

### RtkStatus

`raw`, `assist` and `rtcm` are the last messages with their freshness, `gps` the
last `NavSatFix`, which has no freshness check. `Resolve` is the resolution, and
`RtkClaimEnds` says that a receiver that lost RTK, or went away, is not said to
have it for ever. It needs a receiver that is there to go on sending `NavSatFix`:
if that topic alone died on an RTK fix while the others stayed fresh, the status
would keep it.

### MCGateway

Six modules in eight parts: the recordings, the manual control, the zones and the
camera of the gateway, the datum, the replanned poses, the streams and the status.
`part` is chosen at the start and a behaviour runs that part alone, so the states
of the parts add up and do not multiply. The manual control, the zones and the
camera are one instance of `OperatorGateway`: `Pages` says which operations the
open pages ask for, and the requests of different pages touch different parts of
its state. The theorems are about `OperatorGateway` with all its operations in
turn. The parts are not a composition; each interacts with its own environment
only.

### LaunchProfiles

A launch file is a sequence of actions (start nodes, include, scoped include,
timer, raise) that reads the launch configurations when it is executed. What an
included file declares or is passed stays set for the files after it, unless it
was included in a scope: this is what makes the files hard to read one at a time.
`Execute`, `Leave` and `Fire` are the launch service. `Node(name, needs, gives)`
is a node with what it subscribes to or calls, and what it publishes, broadcasts or
serves; `"srv /x"` stands for the services of node `x`. Left out are `/diagnostics`
and the inputs of `nav_observability`, which only legacy profiles start.

`GapsAreKnown` says that the inputs nobody gives are exactly the ones below, for the
v2 profiles and replay. `asked` keeps the arguments a profile was launched with,
since included files overwrite configurations.

| profile | goes without |
|---|---|
| `real_global_v2` | for the gateway, the services of the zones manager, the snapshot server and the camera, and the RTK status when neither `enable_rtk` nor a heading that insists on it turns the RTK chain on; without the gateway, teleop commands |
| `sim_global_v2` | the camera; the polygons of the collision monitor as markers, which no configuration publishes; the keepout mask and its server for the zones manager and the snapshot with `use_keepout:=False` (as `launch_sim_global_v2.sh` starts it); without the gateway, teleop commands |
| `real_local_v2` | the fix of `nav_command_server`, which is configured with `/gps/fix` while MAVROS is included without its compatibility bridge (the gateway gets the right topic only because the default of the MAVROS launch file stays set); `fromLL`; for the gateway, what it lacks in `real_global_v2` and the RTK status; without it, teleop commands |
| `sim_local_v2` | `fromLL` and teleop commands |
| `replay` | nothing, with the topics of the recording |

It is not stated for the legacy profiles: the monitor of `real` is configured with
ultrasound sources nobody publishes, and flags of `real` and `simulacion` turn off
what other nodes read. Two more things that reading the files this way showed:

* `mavros.launch.py` compares with `== 'true'` and `nav_*_v2` with `== 'True'`,
  where `IfCondition` takes both: `use_keepout:=true` starts the mask server and
  leaves the costmap without its filter (`LOCAL_NAV_V2.md` writes `True`). The
  runs use the spelling of the documentation.
* `rviz_real` and `rviz_real_local_v2`, which always start a robot state publisher,
  and `controller_server.launch.py`, whose node would have the name of Nav2's
  controller server, are not modelled.

## 3. Runs

| run | question | instance | result |
|---|---|---|---|
| `nav_goals` | is the goal bookkeeping consistent? | 3 goals, loops, cancel, brake | holds |
| `nav_manual` | is a manual takeover final? is the node a `DriveAuthority`, the watchdog's stop included? does a stale manual command end in a stop? is cancel final without loops and goal status? | 1 goal, manual service, teleop, cancel, collision, fair threads | holds |
| `nav_settles` | is every tracked goal given up at last? | 2 goals, loops, goal status, fair threads and Nav2 | holds |
| `nav_cancel_loop` | is cancel final with loops? | 2 goals | violated |
| `nav_threads` | can a waiting service be served? | 3 goals | violated |
| `nav_late_goal` | is a goal refused in manual mode? | 1 goal | violated |
| `controller` | late frames, is the node a `SafeWire`, the exit included? silence | one forward, one reverse speed, brake 0 and 130, kill and restart | holds |
| `drive_requests` | speed, curvature, frame | -4.5 to 4.5 m/s by 2.5 mm/s, straight and turning gently or hard to either side | holds |
| `rtk` | switch, stale streams, status, restart | 2 sources, 2 configurations, cut files, crashes | holds |
| `zones` | do the copies of the zones agree after an answer, and survive a restart? is it a `ZoneStore`? | 2 polygons, all failures and crashes | holds |
| `gateway` | recordings, manual gate, caches, datum, replan, frames, RTK status | 2 threads, 2 recordings, 2 documents, 3 messages, 2 positions, 3 goals, 4 frames | holds |
| `launch` | one source and one manager each? which inputs are missing? | 7 profiles over their flags | holds |

Bounds and why they are enough:

* `Goals`: three goals give a goal that is tracked, one that ended and one that
  is being sent, the most the code can confuse at a time (the code remembers one
  handle). `NumThreads` is 2, as in `main`.
* `BrakeCount` is 2 and `MaxPendingBrakes` 1: a first and a later message are
  what the code tells apart. The proofs have no such bound.
* `Requests` are split over the runs so that each one has all that its question
  involves; `ForwardWithoutGoal` and `OtherClients` are FALSE, the values under
  which a velocity of Nav2 can only be one of the node's own goals. The theorems
  hold for both.
* The history counters stop at 2, one more than the properties allow.
* `controller`: one speed of each sign, with brake values below and above the
  clamp, and `estop_brake_pct` 120, which nothing in the node bounds.
* `drive_requests` passes both deadbands, both maxima and zero, with four speeds to
  the cm/s, so that a tie of the rounding occurs, and speeds above 2.55 m/s, which
  need the second byte; the turns lie on both sides of the one that steers 0
  percent. A state is a request, so it has no deadlock and no interleavings.
* `rtk`: with two sources one can be deleted, changed or selected while the reader
  has the other one; the code tells apart only the active source and the one the
  reader took. The theorems hold for any number.
* `zones`: with two polygons a document can be replaced by a smaller, a larger and
  a disjoint one, and converted in part. Nothing else is bounded: requests and
  crashes may follow each other for ever.

* `gateway`: two recordings and two threads are the overlap in which one is lost;
  three messages are a change, a refresh and a third that overlaps both;
  `MaxQueue` 1 lets one telemetry message and one command be overtaken. Two retries
  make a first and a last attempt. Three goals are one cancelled, one sent for it,
  and one sent in between. Four frames of three units, and up to four units in the
  buffer, give reads that end inside a frame and parse across two; the false length 4
  is longer than a frame.
* `launch`: `Choices` are the flags that the documentation or the scripts set, with
  every combination, invalid words included where the file raises on them.

Deadlock is checked in every run but `launch`, which ends. Requests, teleop messages and messages on
`/cmd_vel_final` come at any moment or never, so their loss is included; answers
of Nav2 may be late or missed, writes to the serial port may fail, streams may
end at any moment.

### What the violated runs show

1. `nav_cancel_loop`: `cancel_goal` while a loop's next segment is being sent
   finds no handle; the segment is accepted and driven.
2. `nav_threads`: a service and a loop restart that wait together occupy both
   threads; no answer can be taken until one of them times out.
3. `nav_late_goal`: manual mode is looked at when the goal request arrives, not
   when the goal is adopted.

Two exceptions the passing runs name instead: a request of exactly the deadband
speed (`<` for the speed, `<=` for the steering) moves with the steering of a
standing vehicle, and `CurvatureKept` leaves it out; and `_on_cmd_vel_safe` also
forwards when the goal status topic says active, which it may still do while Nav2
cancels, so `nav_manual` runs without status messages.

## 4. Fairness

* `NavCommandServer!ThreadFairness`: a callback that runs gets on, because every
  wait of the code has a timeout; daemon threads publish; commands age with the
  clock; the watchdog gets a thread again and again (strong fairness: rclpy's
  executor takes ready timers before subscriptions, and a busy group is free
  infinitely often).
* `Nav2Fairness`, only for `TrackedGoalSettles`: Nav2 answers, handles cancels and
  ends its goals, and the executor takes the results. Answers may still come
  after the node stopped waiting.
* `ControllerServer!Fairness`: both threads run; the port does not refuse every
  write for ever (strong fairness of `TxWrite`). Without it silence on the wire
  would be all one could promise.
* `RtkSourceManager!LiveSpec`: both threads run. Opening is bounded by the connect
  timeout, reading by `settimeout`, the pause between connections by its
  timeout. No fairness is assumed of what a stream returns.
* `RosbagRecorder!Fairness`: threads run, since every wait of a stop has a timeout,
  and a waiter thread returns when its process has ended. No fairness makes a
  recording end.
* `OperatorGateway!Fairness`: threads and callbacks run, telemetry is published by a
  timer, and `nav_command_server` takes the commands sent to it. A service need not
  answer: the wait has a timeout.
* `DatumSetter!Fairness`: the callbacks run and their waits end. Nothing is assumed
  of `navsat_transform`.
* `RtkStatus!LiveSpec`: the timer of the diagnostics runs; a receiver that is there
  goes on sending `NavSatFix`; an outdated `GPSRAW` is replaced or gets too old; and
  nothing stays fresh once the receiver is gone.
* `ZonesManager!LiveSpec`: the thread of a job gets on, since every wait has a
  timeout; nothing is assumed of `fromLL` or the map server.

## 5. Proofs

All are checked by TLAPS for every value of the constants, under the assumptions
the modules name (`NoneAssumption`, `ThreadNames`, `CountsAssumption`,
`FlagsAssumption`; `DriveParameters`, `MessageParameters`, `BoundAssumption`, with
the parameters of the frame below 65536 where a theorem says so;
`SourcesAssumption`; `FilesAssumption`). TLC evaluates the assumptions in the runs.
The modules of `gateway` are instantiated and have no assumption of their own: what
their theorems need of the constants is the hypothesis of the theorem
(`NoRecordingApart`, `DatumConstants`, `FollowConstants`: a "none" that is no
value, and at least one retry; `StreamConstants`: a frame and what a false header
promises have at least one unit). Two theorems of `NavCommandServer` have a
hypothesis that says something about the system:

* `TwoThreads`: at most two executor threads, as `main` builds them, and finitely
  many goals. `NavigatingHasAGoal` depends on it: with three threads TLC finds a
  brake between its two sections while a result is taken and the next segment is
  adopted.
* `NoLoops`: no loop is set, no goal status arrives (`_on_cmd_vel_safe` forwards for
  another client's goal too), and `forward_cmd_vel_safe_without_goal` is off, as it
  is by default. With loops `NoVelocityAfterCancel` is false, which is the finding
  of `nav_cancel_loop`.

| theorem | states |
|---|---|
| `TypeCorrect` | `TypeOK` of `NavCommandServer` |
| `WatchdogStopHoldsAlways` | the watchdog's stop stands until a new teleop command |
| `OneLateVelocity` | at most one Nav2 velocity after a manual takeover |
| `ImplementsDriveAuthority` | `NavCommandServer` implements `DriveAuthority` |
| `TrackedGoalIsWatchedAlways` | the handle the node would cancel has a result to come |
| `PlanOnlyWhileLoopingAlways` | a loop plan never outlives looping |
| `CancelEndsLoopAlways` | after a cancel no result starts another segment (action property) |
| `NavigatingAlwaysHasAGoal` | who navigates has a goal to cancel or is restarting a loop, with two threads, unless a `set_goal_ll` failed during a restart |
| `NoVelocityAfterCancelAlways` | after a cancel no velocity of Nav2 is taken for forwarding, without loops (action property) |
| `ControllerTypes`, `SafeExit`, `OneLateFrame` | the safety part of `ControllerServer` |
| `ImplementsSafeWire` | `ControllerServer` implements `SafeWire` |
| `ExitIsSealed` | from the first safe frame of the exit on, nothing is granted, held or moving until the next launch |
| `SpeedAdmissible`, `SpeedMonotone` | `DriveCommand`, for all requests |
| `FrameCarriesEverySpeed` | the bytes of the frame carry every speed to the nearest cm/s |
| `TurnsAsRequested` | the steering never goes to the other side, and goes to the one requested beyond the curvature that rounds to 0 percent |
| `SpeedAlwaysAdmissible`, `CurvatureAlwaysKept`, `FrameAlwaysCarriesSpeed` | the invariants of `drive_requests`, for all parameters and bounds of the sweep |
| `RtkTypes`, `ActiveIsAlwaysConfigured`, `OneOldChunk`, `StaleStreamAlwaysEnds`, `RestartAlwaysKeepsSources` | the safety part of `RtkSourceManager`, the last one an action property |
| `ZoneTypes`, `OkMeansAlwaysApplied`, `ReadyIsAlwaysServed`, `RestartAlwaysKeepsMask` | the safety part of `ZonesManager`, the last one an action property |
| `ImplementsZoneStore` | `ZonesManager` implements `ZoneStore` |
| `RunningIsAlwaysReachable` | a recording that runs can be stopped |
| `ManualAlwaysOnlyOnRequest` | manual mode comes back on request only |
| `ShownZonesAlwaysInForce` | the pages are shown the zones in force, but for the exceptions of `unsure` |
| `EdgeIsAlwaysKept`, `DatumAlwaysAgrees` | the safety part of `DatumSetter` |
| `HoldAlwaysSparesRunningGoal` | the hold after a result never stops a goal that runs, unless the monitor was overtaken |
| `FramesAreAlwaysFound` | a frame that arrives whole is found and nothing else is handed on, but for what a broken connection costs `rtk_bridge` and `pixhawk_driver` |

The arguments:

* `NavCommandServer`. `TypeInv` adds to `TypeOK` that a braking thread has a
  message left and that a thread waiting for a goal response names a goal.
  `WatchdogStopHolds` and
  `AtMostOneLateVelocity` are not inductive: they speak of `out` and of a
  counter, and what may still change these is in `job["sub"]`. `ManualInv` adds
  that the subscription thread holds no publication while the watchdog's stop
  stands, marks that stop only while the output is still, and holds at most one
  velocity of Nav2 when manual mode comes on. `TrackInv` adds who may write what:
  the loop waypoints are stored only by the thread of `set_goal_ll`, which then
  cannot be about to adopt a point-to-point goal, a result callback only ever
  sends loop segments, and after a cancel no `set_goal_ll` is running. The steps
  of `Next` are put into groups by what they leave alone (`Quiet`, `Aside`,
  `SvcSafe`, `ResultSafe`); one lemma for each group says that it keeps the
  invariant, and the few steps outside the groups are proved one by one.
* `ImplementsDriveAuthority`: under `ManualInv`, a step of another thread than the
  subscriptions' is `Quiet`, so it takes no command; it decides who is in charge or
  stops the robot, never both in one step (`QuietRefines`). The subscription
  thread's steps are mapped one by one: taking a command (`TeleopCmd`,
  `CmdVelSafe`), publishing it, and marking the stop for silence.
  `WatchdogStopHolds` follows from the refinement as well.
* `NavigatingHasAGoal` is not inductive either. A result callback whose segment was
  adopted declares the loop active in a later section, if looping is still on
  (`Adopter`), and the handle may be dropped in between. An answer is taken only
  while nothing but the callback that waits for it runs, so at most one callback has
  an answer it has not looked at, and every other callback under way began after
  that answer. `LoopInv` says so (`OneAnswered`), and that such an adopter, while
  looping is on, either has another callback restarting the loop beside it, or
  there is a handle whose result would restart the loop, or which a takeover or a
  brake is about to detach (`AdopterHasGoal`). The steps that break this are those
  of `overtaken`, which is cleared only where navigation and looping end together.
  `NothingElseRuns` is where the threads are counted: a step that needs a free
  thread finds all callbacks but one idle. The thread is free when the answer
  arrives, not when the waiter looks at it: between the two any callback may run.
* `NoVelocityAfterCancel`. `IdleInv` says that after a cancel nothing navigates, and
  that what could make it navigate is not there: no loop is stored or on its way
  in `job["svc"]`, so a result restarts nothing, and a goal status never says
  active. `StepsQuieter` and `SvcStaysOneWay` are the two halves of its proof.
* `ControllerServer`. `ExitInv` follows `stop()`: once the join has returned the
  transmit thread has ended and the command state is the safe one, and no safe
  frame is counted before that. `LateInv` says that while no command that moves
  is granted the speed of the state is zero (or the vehicle is not to drive at
  all), so that the only frame that still moves is the one the transmit thread
  took before, and it is not counted yet; it needs to know what the setters
  already applied of a command that stops.
* `ImplementsSafeWire` needs both, and `WireInv`: from the reset of `stop()` on
  nothing is granted, also after a kill, and the transmit thread is gone before the
  first safe frame, so that the step that seals the wire finds nothing on its way.
  `FrameMovesAsCommand` says that a frame moves exactly when the speed of the command
  does not round to zero. `ExitIsSealed` is an invariant of `SafeWire` carried over by the refinement.
* `DriveCommand`: arithmetic over the deadband, the least effective speed and the
  maxima, case by case. `RoundedIsNearest` is about the rounding, `TwoBytes` about the
  division into bytes and back (`Division`, `Remainders`), and `SpeedOfFrame` puts
  them together. The sweep of `drive_requests` never leaves its messages, so
  its invariants are facts about each of them.
* `RtkSourceManager`. `LateInv` says that a reader about to publish a chunk of a
  source that was left has not published one: after it, `Check` sends it away.
* `ZonesManager`. `OkMeansApplied` speaks of the end of a transaction, so the
  invariant says how far it is: `MaskInv` what the image and the served mask are
  at each step of the job (a `load_map` that was answered well served the mask of
  this job, because the image is not touched any more), `DiskInv` what the file
  holds (the document of a reload or of a start was read from it), `OkInv` that a
  good answer stands only while nothing has begun since.
* `ImplementsZoneStore`: the initial states map to initial states, and each step
  of a handler to one step of the store or a stutter, under the invariants of
  `OkMeansApplied`, which say at `Commit` that the mask served enforces the document
  of the job.
* `RosbagRecorder`: while nothing has overlapped, a start is alone, and what
  it started is the only recording there is (`AloneInv`); a process that is held or
  stored was started, so a new one is never confused with it (`HeldInv`).
* `OperatorGateway`. `QuietInv` lists what could bring manual mode back: the
  mode itself, the cached one, telemetry and commands on their way, a request given
  up that asks for it, and, of each thread, one past the gate, one that asks for
  it, and one that was answered that it is on. That a call which sets the mode is
  one of an operation that asks for it is `CallsOfOperations`. `ZonesInv` is about
  the zones: a request that is alone on them stays alone while it runs, an answer it
  got is what is in force, and when the pages show something else there is a
  request past its change whose refresh is still to come (`Changed`).
* `DatumAndPaths_proofs`. An RTK edge is pending or on its way to the look at the yaw
  (`EdgeInv`); the lock is held by whoever is in a call, and the two datums differ
  only between the two ends of a call (`DatumInv`). For the poses, `FollowInv`: of
  the goals whose end the node was not told there are never more than two, and two
  only while one replaces the other; the old one is then cancelled, and its
  result will be ignored once the new one may run (`Replaced`).
* `FrameStreams_proofs`. What a parser finds in a buffer is a recursive function of
  it, but one iteration is a step, so an invariant of the steps is enough. `LineInv`
  is about the buffer with the next unit of the wire behind it: a frame that lost
  nothing is followed there by the rest of itself (`Unbroken`), and on TCP two
  units of one frame are as far apart as they were sent (`Together`). So a frame
  that lost nothing, once at the front, is a whole candidate; and a candidate that is
  not whole begins with what is left of a damaged frame, which then leaves the
  buffer with it, and hides at most one frame that lost nothing (`OneHead`).
  `CountInv` counts: the candidates garbled so far and the damaged frames still in the
  buffer (`Cuts`) are no more than the breaks, and the frames that lost nothing but
  were neither found nor are still to be found (`Missing`) no more than the garbled
  candidates. A reader that waits has fewer than `Size` units, so none of them
  begins a frame that has arrived whole (`NothingWaits`): all such frames were found
  or are missing, and to empty the buffer of `rtk_source_manager` then loses none.

### Only model-checked

* The liveness properties (`ManualTimeoutStops`, `TrackedGoalSettles`,
  `SilenceStops`, `SwitchCompletes`, `ConnectedSettles`, `RequestsAreAnswered`,
  `EndedIsForgotten`, `CachedModeSettles`, `LockIsReleased`, `RtkClaimEnds`): liveness
  under fairness is out of the prover's reach here.
* `OneSource`, `GapsAreKnown` and `ManagedOnce` of `launch`: a profile is a fixed
  program over finitely many flags, which TLC runs for all of them; there is no
  constant a theorem would generalise.

## 6. Not modelled, and the plan

Not modelled for good: vendored code, rendering (`nav_snapshot_server`), image
and HTTP input/output, real-valued filters and estimators, benchmarks and
diagnosis tools, message definitions. They have no control that a model checker
would tell apart, or none that acts on the robot.

Left out of the components that are modelled in part: telemetry, events and
failure codes everywhere; the poses of loop segments (`nav_command_server`); the
steering angle beyond its sign; the waypoint files and what the gateway only
relays; the conversion of single messages in `pixhawk_driver` and
`mavros_compat_bridge`; the text checks of a source and of a GeoJSON document.
`PROJECT.json` says it component by component, and gives each hazard without a
property its reason.

What would come next:

1. `LoopSegments`: the poses of a loop segment (`nav_command_server.py:1085`) as
   functions over sequences, compared with a reference definition.
2. `OperatorGateway` composed with `NavCommandServer`'s manual mode, whose external
   part it now replaces by three actions, and with `DriveAuthority` in its place.
3. `SimActuator` (`sim_gazebo_backend`) in integers, against the interface of the
   UART client.
