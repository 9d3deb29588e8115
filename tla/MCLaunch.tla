------------------------------ MODULE MCLaunch ------------------------------
(* Every profile, over the flags its documentation lets an operator set.   *)
EXTENDS LaunchProfiles

Word == {"true", "false"}
Flag == {"True", "False"}

Choices(f) ==
  CASE f = "real_global_v2" ->
         [enable_rtk : Flag, enable_gps_course_heading : Flag,
          enable_dual_gps_heading : Flag, use_keepout : Flag,
          gps_course_heading_require_rtk : Flag,
          enable_map_gps_absolute_measurement : Flag,
          enable_rtk_source_manager : Word, launch_web_app : Flag]
    [] f = "sim_global_v2" ->
         [use_keepout : Flag, datum_setter : Word, launch_web_app : Flag,
          enable_gps_course_heading : Word,
          enable_map_gps_absolute_measurement : Word]
    [] f = "real_local_v2" -> [use_keepout : Flag, launch_web_app : Flag]
    [] f = "sim_local_v2" -> [use_keepout : Flag, use_rviz : Flag]
    [] f = "replay" ->
         [enable_gps_course_heading : Word,
          enable_map_gps_absolute_measurement : Word,
          enable_global_odom_stationary_gate : Word,
          enable_global_imu_stationary_gate : Word,
          enable_global_stationary_yaw_hold : Word]
    [] f = "real" ->
         [telemetry_backend : {"mavros", "pixhawk_driver", "serial"},
          use_dual_gps_heading : {"auto", "yes", "no", "maybe"},
          ublox_device : {"", "/dev/ttyUSB1", "/dev/ttyUSB9"},
          use_navsat : Flag, use_collision_monitor : Flag, launch_web : Flag]
    [] f = "simulacion" ->
         [realism_mode : Flag, use_collision_monitor : Flag,
          use_navsat : Flag, use_gazebo_utils : Flag,
          use_joint_state_bridge : Flag]

Profiles == {"real_global_v2", "sim_global_v2", "real_local_v2",
             "sim_local_v2", "replay", "real", "simulacion"}

Legacy == {"real", "simulacion"}

Init == \E f \in Profiles : \E args \in Choices(f) : Launch(f, args)

Spec == Init /\ [][Next]_vars

(* The nodes that stay silent until a lifecycle manager activates them.     *)
Lifecycle ==
  {"planner_server", "controller_server", "smoother_server", "bt_navigator",
   "behavior_server", "waypoint_follower", "keepout_filter_mask_server",
   "keepout_costmap_filter_info_server", "collision_monitor"}

(* Topics that several nodes publish by design: both Nav2 servers, and the *)
(* monitor with the brake of nav_command_server.                           *)
Shared == {"/cmd_vel", "/cmd_vel_safe"}

(* Over the flags of Choices, no two nodes of a session have one name,       *)
(* publish one topic or one transform, or serve one service: the files that *)
(* are included start nothing the profile starts itself.                    *)
OneSource ==
  Launched =>
    \A i, j \in DOMAIN nodes : i # j =>
      /\ nodes[i].name = nodes[j].name => nodes[i].name = Anonymous
      /\ nodes[i].gives \cap nodes[j].gives \subseteq Shared

(* The inputs of a node that neither another node of the session nor the    *)
(* recording that is played gives.                                          *)
Given(i) ==
  If(profile = "replay", Bag)
  \cup UNION {nodes[j].gives : j \in DOMAIN nodes \ {i}}
Unmet ==
  UNION {{nodes[i].name} \X (nodes[i].needs \ Given(i)) : i \in DOMAIN nodes}

(* What each v2 profile goes without, by the arguments it was asked for     *)
(* with. The gateway is the only source of teleop commands, and no v2       *)
(* profile starts the camera.                                               *)
Teleop == {<<"nav_command_server", "/cmd_vel_teleop">>}
NoBackends == {"srv /zones_manager", "srv /nav_snapshot_server", "srv /camara"}

(* Neither zones nor snapshots; the RTK status comes from the RTK chain,    *)
(* which is asked for, or which the heading from the course insists on.     *)
RealGlobalGaps ==
  IF Is(asked.launch_web_app)
    THEN {"web_zone_server"} \X
           (NoBackends \cup
            If(/\ ~Is(asked.enable_rtk)
               /\ Is(asked.gps_course_heading_require_rtk)
                    => ~Is(asked.enable_gps_course_heading),
               {asked.gps_rtk_status_topic}))
    ELSE Teleop

(* The zones manager and the snapshot go without a mask when use_keepout is *)
(* off; no monitor is configured to publish the polygons as markers.        *)
SimGlobalGaps ==
  IF Is(asked.launch_web_app)
    THEN {<<"web_zone_server", "srv /camara">>,
          <<"nav_snapshot_server", "/collision_monitor/polygons">>}
         \cup If(~Is(asked.use_keepout),
                {<<"zones_manager", "srv /keepout_filter_mask_server">>,
                 <<"nav_snapshot_server", "/keepout_filter_mask">>})
    ELSE Teleop

(* The local profiles have no navsat, so no fromLL. On the vehicle no node  *)
(* gives nav_command_server the fix it is configured with, nor the gateway  *)
(* an RTK status; the fix of the gateway is the topic mavros left set.      *)
LocalGaps == {<<"nav_command_server", "srv /fromLL">>}
RealLocalGaps ==
  LocalGaps \cup {<<"nav_command_server", "/gps/fix">>}
  \cup IF Is(asked.launch_web_app)
         THEN {"web_zone_server"} \X (NoBackends \cup {"/gps/rtk_status"})
         ELSE Teleop

Gaps ==
  CASE profile = "real_global_v2" -> RealGlobalGaps
    [] profile = "sim_global_v2" -> SimGlobalGaps
    [] profile = "real_local_v2" -> RealLocalGaps
    [] profile = "sim_local_v2" -> LocalGaps \cup Teleop
    [] profile = "replay" -> {}

(* Over the flags of Choices, the inputs a v2 or replay session goes         *)
(* without are exactly the gaps above: beyond them no flag, and no argument *)
(* that one included file leaves to the next, cuts a node off from what it  *)
(* subscribes to or calls.                                                  *)
GapsAreKnown == Launched /\ profile \notin Legacy => Unmet = Gaps

(* Every lifecycle node is brought up by exactly one manager, and no        *)
(* manager waits for a node that was not started.                          *)
ManagedOnce ==
  LET names == {nodes[i].name : i \in DOMAIN nodes}
      Managers(n) == {i \in DOMAIN nodes : n \in nodes[i].manages}
  IN
  Launched =>
    /\ \A n \in names \cap Lifecycle : Cardinality(Managers(n)) = 1
    /\ \A i \in DOMAIN nodes : nodes[i].manages \cap Lifecycle \subseteq names
=============================================================================
