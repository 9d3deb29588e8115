--------------------------- MODULE LaunchProfiles ---------------------------
(* The launch files: which nodes a profile starts, from which arguments,   *)
(* and what each node reads and offers. A launch file is a sequence of     *)
(* actions that reads the launch configurations c when it is executed; an  *)
(* include shares them with its parent, so what it sets stays set. A state *)
(* is the launch service between two actions.                              *)
EXTENDS Naturals, Sequences, FiniteSets, TLC

CONSTANT Devices \* the serial devices that exist

VARIABLES
  profile, \* the launch file that was asked for
  asked,   \* the arguments it was asked for with, its defaults included
  ctx,     \* the launch configurations: name -> value
  stack,   \* files under way, innermost first: [file, at, saved]
  later,   \* actions of timers that have not fired, and the operator's RViz
  nodes,   \* the nodes started
  aborted  \* a launch file raised

vars == <<profile, asked, ctx, stack, later, nodes, aborted>>

-----------------------------------------------------------------------------
(* Values and actions.                                                     *)

Is(x) == x \in {"true", "True"}           \* IfCondition, .lower() == 'true'
If(b, S) == IF b THEN S ELSE {}
When(b, n) == IF b THEN <<n>> ELSE <<>>

(* What a node works from and what it gives: the topics it subscribes to    *)
(* and the services it calls, unless it is configured to do without (the    *)
(* heading when it does not insist on RTK); what it publishes, broadcasts   *)
(* or serves. Left out are /diagnostics, which any node may publish, and    *)
(* the inputs of the observability node of the legacy profiles.             *)
Node(name, needs, gives) ==
  [name |-> name, needs |-> needs, gives |-> gives, manages |-> {}]
Manager(name, managed) ==
  [name |-> name, needs |-> {}, gives |-> {}, manages |-> managed]
Anonymous == "(named by its package)"

Start(ns) == [do |-> "start", nodes |-> ns]
Include(f, args) == [do |-> "include", file |-> f, args |-> args]
Scoped(f, args) == [do |-> "scoped", file |-> f, args |-> args]
Timer(f, args) == [do |-> "timer", file |-> f, args |-> args]
Skip == Start(<<>>)
Provided(b, action) == IF b THEN action ELSE Skip
RaiseUnless(b) == IF b THEN Skip ELSE [do |-> "raise"]

-----------------------------------------------------------------------------
(* Localization.                                                           *)

LocalizationV2Args ==
  [drive_telemetry_topic |-> "/controller/drive_telemetry",
   imu_topic |-> "/imu/data"]

LocalEkf(c) == Node("ekf_filter_node_local_v2",
  {"/wheel/odometry", c.imu_topic}, {"/odometry/local", "tf odom"})

LocalizationV2(c) ==
  <<Start(<<Node("ackermann_odometry", {c.drive_telemetry_topic},
                 {"/wheel/odometry", "/vehicle/twist"}),
            LocalEkf(c)>>)>>

LocalizationGlobalV2Args == LocalizationV2Args @@
  [gps_topic |-> "/global_position/raw/fix",
   enable_global_odom_stationary_gate |-> "true",
   enable_global_imu_stationary_gate |-> "true",
   enable_global_stationary_yaw_hold |-> "true",
   enable_map_gps_absolute_measurement |-> "false",
   enable_gps_course_heading |-> "false",
   gps_course_heading_topic |-> "/gps/course_heading",
   datum_setter |-> "false"]

(* What the map filter fuses: each gate that is on takes the place of the  *)
(* raw topic, and the absolute GPS pose that of navsat's odometry.         *)
MapEkf(c) == Node("ekf_filter_node_map",
  {IF Is(c.enable_global_odom_stationary_gate)
     THEN "/odometry/local_global" ELSE "/odometry/local",
   IF Is(c.enable_global_imu_stationary_gate)
     THEN "/imu/data_global" ELSE c.imu_topic,
   IF Is(c.enable_map_gps_absolute_measurement)
     THEN "/gps/odometry_map" ELSE "/odometry/gps"}
  \cup If(Is(c.enable_global_stationary_yaw_hold), {"/odometry/local_yaw_hold"})
  \cup If(Is(c.enable_gps_course_heading), {c.gps_course_heading_topic}),
  {"/odometry/global", "tf map"})

NavsatTransform(c) == Node("navsat_transform",
  {c.imu_topic, c.gps_topic, "/odometry/local"},
  {"/odometry/gps", "srv /fromLL", "srv /datum"})

StationaryGates(c) ==
  LET Gate(flag, name, in, out) ==
        When(Is(flag), Node(name, {in, c.drive_telemetry_topic}, {out}))
  IN    Gate(c.enable_global_odom_stationary_gate,
             "global_odom_stationary_gate",
             "/odometry/local", "/odometry/local_global")
     \o Gate(c.enable_global_imu_stationary_gate,
             "global_imu_stationary_gate", c.imu_topic, "/imu/data_global")
     \o Gate(c.enable_global_stationary_yaw_hold,
             "global_yaw_stationary_hold",
             "/odometry/local", "/odometry/local_yaw_hold")

LocalizationGlobalV2(c) ==
  <<Include("localization_v2",
      [drive_telemetry_topic |-> c.drive_telemetry_topic,
       imu_topic |-> c.imu_topic]),
    Start(StationaryGates(c)
      \o When(Is(c.enable_map_gps_absolute_measurement),
           Node("map_gps_absolute_measurement",
                {c.gps_topic, "/odometry/local", "srv /fromLL"},
                {"/gps/odometry_map"}))
      \o <<MapEkf(c), NavsatTransform(c)>>
      \o When(Is(c.datum_setter),
           Node("datum_setter",
                {c.gps_topic, c.imu_topic, "/gps/rtk_status", "srv /datum"},
                {"srv /datum_setter/set_datum"})))>>

-----------------------------------------------------------------------------
(* Navigation: the Nav2 servers, the collision monitor, the keepout mask.  *)

NavServers == {"planner_server", "controller_server", "smoother_server",
               "bt_navigator", "behavior_server", "waypoint_follower"}
KeepoutServersMutant == {"keepout_filter_mask_server"}
KeepoutServers ==
  {"keepout_filter_mask_server", "keepout_costmap_filter_info_server"}

Servers(costmapNeeds) ==
  <<Node("planner_server", costmapNeeds,
         {"/plan", "/global_costmap/costmap", "srv /global_costmap"}),
    Node("controller_server", costmapNeeds \cup {"/odometry/local"},
         {"/cmd_vel", "/local_costmap/costmap",
          "/local_costmap/published_footprint"}),
    Node("smoother_server", {}, {}),
    Node("bt_navigator", {"/odometry/local"},
         {"action /navigate_through_poses"}),
    Node("behavior_server", {}, {"/cmd_vel"}),
    Node("waypoint_follower", {}, {"action /follow_waypoints"})>>

MonitorTopics == {"/cmd_vel_safe", "/collision_monitor_state"}

KeepoutFiltersV2 ==
  <<Start(<<Node("keepout_filter_mask_server", {},
                 {"/keepout_filter_mask", "srv /keepout_filter_mask_server"}),
            Node("keepout_costmap_filter_info_server",
                 {"/keepout_filter_mask"}, {"/costmap_filter_info"}),
            Manager("lifecycle_manager_keepout_filters", KeepoutServers)>>)>>

NavV2Args == [use_keepout |-> "True"]

(* The mask is served when the flag is true in any spelling; the costmaps   *)
(* are given the overrides with the filter when it is the word 'True'.     *)
NavV2(c, frames, managers) ==
  <<Provided(Is(c.use_keepout), Include("keepout_filters_v2", <<>>)),
    Start(Servers({"/scan"} \cup frames
                  \cup If(c.use_keepout = "True", {"/costmap_filter_info"}))
      \o <<Node("collision_monitor", {"/cmd_vel", "/scan"},
                MonitorTopics \cup {"/stop_zone_raw"}),
           Node("stop_zone_republisher", {"/stop_zone_raw"}, {"/stop_zone"}),
           Manager(managers[1], NavServers),
           Manager(managers[2], {"collision_monitor"})>>)>>

NavGlobalV2(c) == NavV2(c, {"tf map", "tf odom"},
  <<"lifecycle_manager_global_navigation_v2",
    "collision_monitor_lifecycle_manager_global_v2">>)
NavLocalV2(c) == NavV2(c, {"tf odom"},
  <<"lifecycle_manager_local_navigation_v2",
    "collision_monitor_lifecycle_manager_local_v2">>)

Nav2OnlyArgs == [use_collision_monitor |-> "True", use_rviz |-> "False",
                 use_robot_state_publisher |-> "False"]

Nav2Only(c) ==
  <<Start(When(Is(c.use_robot_state_publisher),
               Node("robot_state_publisher", {}, {"tf base_link"}))
      \o Servers({"/scan", "tf map", "/costmap_filter_info"})
      \o <<Manager("lifecycle_manager_navigation", NavServers)>>
      \o KeepoutFiltersV2[1].nodes
      \o When(Is(c.use_collision_monitor),
              Node("collision_monitor", {"/cmd_vel", "/scan"},
                   MonitorTopics \cup {"/stop_zone"}))
      \o When(Is(c.use_collision_monitor),
              Manager("collision_monitor_lifecycle_manager",
                      {"collision_monitor"}))
      \o When(Is(c.use_rviz), Node("rviz2", {}, {})))>>

(* nav2_bringup's navigation_launch.py.                                    *)
NavigationLaunch ==
  <<Start(Servers({"/scan", "tf map", "/costmap_filter_info"})
      \o <<Node("velocity_smoother", {}, {"/cmd_vel"}),
           Manager("lifecycle_manager_navigation",
                   NavServers \cup {"velocity_smoother"})>>)>>

-----------------------------------------------------------------------------
(* Sensors, simulator and operator gateway.                                *)

MavrosArgs ==
  [launch_web |-> "false", launch_legacy_compat |-> "true",
   enable_rtk |-> "false", enable_rtk_source_manager |-> "false",
   rtcm_topic |-> "/rtcm", rtk_status_topic |-> "/gps/rtk_status",
   gps_topic |-> "/global_position/raw/fix"]

GpsDiagnostics == {"/mavros_node/gps1/raw", "/mavros_node/gps1/rtk",
                   "/mavros_node/rtk_baseline"}
MavrosNode == Node("mavros_node", {},
  {"/imu/data", "/global_position/raw/fix", "/local_position/velocity_local",
   "/local_position/odom"} \cup GpsDiagnostics)

RtkBridge(c, in) == Node("rtk_bridge", {c.gps_topic} \cup GpsDiagnostics \cup in,
  {"/mavros_node/send_rtcm", c.rtk_status_topic, "/gps/rtcm_age_s",
   "/gps/rtcm_received_count"})

(* With the source manager the bridge takes corrections from its topic;    *)
(* without it, from its own connection. The expressions compare with the   *)
(* lower-case word, the condition of the manager with either spelling.     *)
Mavros(c) ==
  <<Start(<<MavrosNode>>
      \o When(Is(c.launch_legacy_compat),
           Node("mavros_compat_bridge",
                {"/global_position/raw/fix", "/local_position/odom"},
                {"/gps/fix", "/odom", "/velocity"}))
      \o When(Is(c.launch_web),
           Node("sensores_web", {"/imu/data", c.gps_topic}, {}))
      \o When(Is(c.enable_rtk_source_manager),
           Node("rtk_source_manager", {}, {c.rtcm_topic, "/gps/rtk_sources"}))
      \o When(c.enable_rtk = "true" /\ c.enable_rtk_source_manager = "true",
           RtkBridge(c, {c.rtcm_topic}))
      \o When(c.enable_rtk = "true" /\ c.enable_rtk_source_manager # "true",
           RtkBridge(c, {})))>>

Pixhawk(c) ==
  <<Start(<<Node("pixhawk_driver", {},
              {"/imu/data", "/gps/fix", "/odom", "/velocity",
               "/gps/rtk_status"})>>
      \o When(Is(c.launch_web),
              Node("sensores_web", {"/imu/data", "/gps/fix"}, {})))>>

Rs16Args == [rviz |-> "false"]
Rs16(c) ==
  <<Start(<<Node(Anonymous, {}, {"/scan_3d"})>>
      \o When(Is(c.rviz), Node("rviz2", {}, {})))>>

DualGpsHeadingHwArgs == [output_topic |-> "/dual_gps/heading"]
DualGpsHeadingHw(c) ==
  <<Start(<<Node("ublox_rover", {}, {"/ublox_rover/navheading"}),
            Node("dual_gps_heading_real", {"/ublox_rover/navheading"},
                 {c.output_topic})>>)>>

PointcloudToLaserscan == Node("pointcloud_to_laserscan", {"/scan_3d"}, {"/scan"})
RobotStatePublisher == Node("robot_state_publisher", {}, {"tf base_link"})

SpawnRobot == <<RobotStatePublisher, Node(Anonymous, {}, {})>>
GzBridge == Node(Anonymous, {"/cmd_vel_gazebo"},
  {"/odom_raw", "/clock", "/scan_3d_raw", "/imu/data_raw", "/gps/fix_raw"})
JointStateBridge == Node(Anonymous, {}, {"/joint_states"})

SimV2Base ==
  <<Start(SpawnRobot \o <<GzBridge, JointStateBridge, PointcloudToLaserscan>>)>>

SimSensorNormalizerV2 == Node("sim_sensor_normalizer_v2",
  {"/imu/data_raw", "/gps/fix_raw", "/scan_3d_raw", "/odom_raw"},
  {"/imu/data", "/gps/fix", "/gps/rtk_status", "/scan_3d", "/odom"})

NoGoEditorArgs ==
  [gps_topic |-> "/gps/fix", gps_status_topic |-> "/gps/rtk_status",
   odom_topic |-> "/odometry/local", launch_zones_manager |-> "true",
   launch_nav_command_server |-> "true",
   launch_nav_snapshot_server |-> "true"]

(* The clients and services of the three backends and of the gateway. A    *)
(* "srv" stands for the services of one node.                              *)
ZonesManager == Node("zones_manager",
  {"srv /fromLL", "srv /keepout_filter_mask_server", "srv /global_costmap"},
  {"srv /zones_manager"})

NavSnapshotServer == Node("nav_snapshot_server",
  {"/local_costmap/costmap", "/global_costmap/costmap", "/keepout_filter_mask",
   "/local_costmap/published_footprint", "/stop_zone",
   "/collision_monitor/polygons", "/scan", "/plan"},
  {"srv /nav_snapshot_server"})

NavCommandServer(gps, safe) == Node("nav_command_server",
  {gps, safe, "/cmd_vel_teleop", "/collision_monitor_state", "srv /fromLL",
   "action /follow_waypoints", "action /navigate_through_poses"},
  {"/cmd_vel_final", "/cmd_vel_safe", "/nav_command_server/telemetry",
   "/nav_command_server/events", "srv /nav_command_server"})

WebZoneServer(c) == Node("web_zone_server",
  {c.gps_topic, c.gps_status_topic, c.odom_topic,
   "/nav_command_server/telemetry", "/nav_command_server/events",
   "srv /zones_manager", "srv /nav_command_server",
   "srv /nav_snapshot_server", "srv /camara"},
  {"/cmd_vel_teleop"})

NoGoEditor(c) ==
  <<Start(When(Is(c.launch_zones_manager), ZonesManager)
      \o When(Is(c.launch_nav_command_server),
              NavCommandServer(c.gps_topic, "/cmd_vel_safe"))
      \o When(Is(c.launch_nav_snapshot_server), NavSnapshotServer)
      \o <<WebZoneServer(c)>>)>>

-----------------------------------------------------------------------------
(* The command chain of the v2 profiles.                                   *)

DriveTopics == {"/controller/status", "/controller/telemetry",
                "/controller/drive_telemetry"}
VehicleReal == Node("vehicle_controller_server", {"/cmd_vel_final"}, DriveTopics)
VehicleSim == Node("vehicle_controller_server",
  {"/cmd_vel_final", "/odom_raw", "/joint_states"},
  DriveTopics \cup {"/cmd_vel_gazebo"})

CourseHeading(gps, rtk) == Node("gps_course_heading",
  {gps, "/odometry/local", "/controller/drive_telemetry"} \cup rtk,
  {"/gps/course_heading", "/gps/course_heading/debug"})

NoServersMutant == [launch_zones_manager |-> "false",
                    launch_nav_snapshot_server |-> "false"]
NoServers == [launch_zones_manager |-> "false",
              launch_nav_command_server |-> "false",
              launch_nav_snapshot_server |-> "false"]

-----------------------------------------------------------------------------
(* real_global_v2, the operational profile on the vehicle.                 *)

RealGlobalV2Args ==
  [enable_rtk |-> "True", use_keepout |-> "False", launch_web_app |-> "True",
   use_rviz |-> "False", odom_topic |-> "/odometry/global",
   enable_scan_wifi_debug |-> "True",
   enable_map_gps_absolute_measurement |-> "True",
   enable_gps_course_heading |-> "True", enable_dual_gps_heading |-> "False",
   dual_gps_heading_topic |-> "/dual_gps/heading",
   gps_course_heading_require_rtk |-> "True",
   gps_rtk_status_topic |-> "/gps/rtk_status_mavros"]

EffectiveEnableRtkMutant(c) == IF Is(c.enable_rtk) THEN "true" ELSE "false"

(* A heading that insists on RTK turns the RTK chain on by itself.         *)
EffectiveEnableRtk(c) ==
  IF \/ Is(c.enable_rtk)
     \/ Is(c.enable_gps_course_heading) /\ Is(c.gps_course_heading_require_rtk)
    THEN "true" ELSE "false"
EffectiveEnableHeading(c) ==
  IF Is(c.enable_dual_gps_heading) \/ Is(c.enable_gps_course_heading)
    THEN "true" ELSE "false"
EffectiveHeadingTopic(c) ==
  IF Is(c.enable_dual_gps_heading)
    THEN c.dual_gps_heading_topic ELSE "/gps/course_heading"

RealGlobalHeading(c) ==
  When(Is(c.enable_gps_course_heading) /\ ~Is(c.enable_dual_gps_heading),
       CourseHeading("/global_position/raw/fix",
         If(Is(c.gps_course_heading_require_rtk), {c.gps_rtk_status_topic})))

RealGlobalLocalization(c) ==
  Include("localization_global_v2",
    [drive_telemetry_topic |-> "/controller/drive_telemetry",
     imu_topic |-> "/imu/data", gps_topic |-> "/global_position/raw/fix",
     enable_map_gps_absolute_measurement |->
       c.enable_map_gps_absolute_measurement,
     enable_gps_course_heading |-> EffectiveEnableHeading(c),
     gps_course_heading_topic |-> EffectiveHeadingTopic(c),
     datum_setter |-> "false"])

RealGlobalV2(c) ==
  <<Start(<<RobotStatePublisher>>),
    Include("mavros",
      [launch_web |-> "false", launch_legacy_compat |-> "false",
       enable_rtk |-> EffectiveEnableRtk(c),
       rtk_status_topic |-> c.gps_rtk_status_topic]),
    Include("rs16", <<>>),
    Provided(Is(c.enable_dual_gps_heading),
      Include("dual_gps_heading_hw",
              [output_topic |-> c.dual_gps_heading_topic])),
    Start(<<PointcloudToLaserscan, VehicleReal>>
      \o When(Is(c.enable_scan_wifi_debug),
              Node("scan_wifi_debug", {"/scan"}, {"/scan_wifi_debug"}))
      \o RealGlobalHeading(c)
      \o <<NavCommandServer("/global_position/raw/fix", "/cmd_vel_safe")>>),
    RealGlobalLocalization(c),
    Timer("nav_global_v2", [use_keepout |-> c.use_keepout]),
    Provided(Is(c.launch_web_app),
      Include("no_go_editor", NoServers @@
        [gps_topic |-> "/global_position/raw/fix",
         odom_topic |-> c.odom_topic,
         gps_status_topic |-> c.gps_rtk_status_topic])),
    Start(When(Is(c.use_rviz), Node("rviz2", {}, {})))>>

-----------------------------------------------------------------------------
(* The other v2 profiles.                                                  *)

SimGlobalV2Args ==
  [use_keepout |-> "True", odom_topic |-> "/odometry/global",
   datum_setter |-> "false", enable_map_gps_absolute_measurement |-> "true",
   enable_gps_course_heading |-> "true", launch_web_app |-> "True"]

(* The smoother stands between the collision monitor and the server.       *)
CmdVelAngularSmoother ==
  Node("cmd_vel_angular_smoother", {"/cmd_vel_safe"}, {"/cmd_vel_safe_smooth"})

SimGlobalHeading(c) ==
  <<Node("dual_gps_heading_sim", {"/odom_raw"}, {"/ublox_rover/navheading"})>>
  \o When(Is(c.enable_gps_course_heading), CourseHeading("/gps/fix", {}))

SimGlobalV2(c) ==
  <<Start(<<SimSensorNormalizerV2>>),
    Include("sim_v2_base", <<>>),
    Start(<<VehicleSim, NavCommandServer("/gps/fix", "/cmd_vel_safe_smooth"),
            CmdVelAngularSmoother>> \o SimGlobalHeading(c)),
    Include("localization_global_v2",
      [drive_telemetry_topic |-> "/controller/drive_telemetry",
       imu_topic |-> "/imu/data", gps_topic |-> "/gps/fix",
       enable_map_gps_absolute_measurement |->
         c.enable_map_gps_absolute_measurement,
       enable_gps_course_heading |-> c.enable_gps_course_heading,
       gps_course_heading_topic |-> "/gps/course_heading",
       datum_setter |-> c.datum_setter]),
    Timer("nav_global_v2", [use_keepout |-> c.use_keepout]),
    Provided(Is(c.launch_web_app),
      Include("no_go_editor",
        [gps_topic |-> "/gps/fix", odom_topic |-> c.odom_topic,
         launch_nav_command_server |-> "false"]))>>

SimLocalV2Args == [use_keepout |-> "True", use_rviz |-> "True"]

SimLocalV2(c) ==
  <<Start(<<SimSensorNormalizerV2>>),
    Include("sim_v2_base", <<>>),
    Start(<<VehicleSim, NavCommandServer("/gps/fix", "/cmd_vel_safe")>>),
    Include("localization_v2", <<>>),
    Timer("nav_local_v2", [use_keepout |-> c.use_keepout]),
    Start(When(Is(c.use_rviz), Node("rviz2", {}, {})))>>

RealLocalV2Args == [use_keepout |-> "True", launch_web_app |-> "True",
                    use_rviz |-> "True", odom_topic |-> "/odometry/local"]

(* The gateway is given no GPS topic: it takes what mavros left set.       *)
RealLocalV2(c) ==
  <<Start(<<RobotStatePublisher>>),
    Include("mavros",
            [launch_web |-> "false", launch_legacy_compat |-> "false"]),
    Include("rs16", <<>>),
    Start(<<PointcloudToLaserscan, VehicleReal,
            NavCommandServer("/gps/fix", "/cmd_vel_safe")>>),
    Include("localization_v2", <<>>),
    Timer("nav_local_v2", [use_keepout |-> c.use_keepout]),
    Provided(Is(c.launch_web_app),
      Include("no_go_editor", NoServers @@ [odom_topic |-> c.odom_topic])),
    Start(When(Is(c.use_rviz), Node("rviz2", {}, {})))>>

ReplayArgs ==
  [enable_map_gps_absolute_measurement |-> "true",
   enable_gps_course_heading |-> "true",
   gps_course_heading_require_rtk |-> "false",
   gps_rtk_status_topic |-> "/gps/rtk_status_mavros"]

Replay(c) ==
  <<Start(When(Is(c.enable_gps_course_heading),
      CourseHeading("/gps/fix",
        If(Is(c.gps_course_heading_require_rtk), {c.gps_rtk_status_topic})))),
    Include("localization_global_v2",
      [drive_telemetry_topic |-> "/controller/drive_telemetry",
       imu_topic |-> "/imu/data", gps_topic |-> "/gps/fix",
       enable_map_gps_absolute_measurement |->
         c.enable_map_gps_absolute_measurement,
       enable_gps_course_heading |-> c.enable_gps_course_heading,
       gps_course_heading_topic |-> "/gps/course_heading",
       datum_setter |-> "false"])>>

(* The topics of the recording that is played.                             *)
Bag == {"/imu/data", "/gps/fix", "/controller/drive_telemetry"}

RvizGlobalV2Args == [launch_robot_state_publisher |-> "false"]

RvizGlobalV2(c) ==
  <<Start(When(Is(c.launch_robot_state_publisher), RobotStatePublisher)
      \o <<Node("navheading_pose_bridge", {}, {"/ublox_rover/navheading_pose"}),
           Node("course_heading_pose_bridge", {}, {"/gps/course_heading_pose"}),
           Node("rviz2", {}, {})>>)>>

-----------------------------------------------------------------------------
(* The legacy profiles.                                                    *)

RealArgs ==
  [use_robot_state_publisher |-> "True", use_rviz |-> "False",
   use_mapviz |-> "False", use_navsat |-> "True",
   use_collision_monitor |-> "True", use_gazebo_utils |-> "False",
   use_pointcloud_to_laserscan |-> "True", telemetry_backend |-> "mavros",
   start_lidar |-> "True", launch_web |-> "False", gps_topic |-> "/gps/fix",
   use_dual_gps_heading |-> "auto", ublox_device |-> "/dev/ttyUSB1",
   dual_gps_heading_output_topic |-> "/dual_gps/heading"]

(* Words accepted for a mode; "1", "yes" and "on" stand for "true".        *)
DualModes == [auto |-> "auto", true |-> "true", True |-> "true",
              yes |-> "true", false |-> "false", no |-> "false"]
DualEnabled(c) ==
  LET mode == DualModes[c.use_dual_gps_heading] IN
  IF mode = "auto" THEN c.ublox_device \in Devices ELSE mode = "true"

TelemetryBackendValid(c) == c.telemetry_backend \in {"mavros", "pixhawk_driver"}
DualConfigurationValid(c) ==
  /\ c.use_dual_gps_heading \in DOMAIN DualModes
  /\ DualModes[c.use_dual_gps_heading] = "true" => c.ublox_device \in Devices

DualGpsHeadingActions(c) ==
  Provided(DualEnabled(c),
    Include("dual_gps_heading_hw",
            [output_topic |-> c.dual_gps_heading_output_topic]))

EkfNodes(c) ==
  <<Node("ekf_filter_node_odom",
         {"/odom", "/imu/data"}
           \cup If(DualEnabled(c), {c.dual_gps_heading_output_topic}),
         {"/odometry/local", "tf odom"}),
    Node("ekf_filter_node_map", {"/odometry/local", "/odometry/gps"},
         {"/odometry/filtered", "tf map"})>>
  \o When(Is(c.use_navsat),
       Node("navsat_transform", {"/imu/data", "/gps/fix", "/odometry/local"},
            {"/odometry/gps", "srv /fromLL", "srv /datum"}))

LegacyServers(c) ==
  <<ZonesManager, NavCommandServer(c.gps_topic, "/cmd_vel_safe"),
    NavSnapshotServer, Node("nav_observability", {}, {"/diagnostics"})>>

GazeboUtils(bridges) ==
  Node("gazebo_utils", {"/imu/data_raw"},
       {"/imu/data", "/gps/fix", "/scan_3d", "/odom"} \cup bridges)

(* Without a mode that holds, the body is not reached: it raised before.   *)
Real(c) ==
  <<RaiseUnless(TelemetryBackendValid(c)),
    RaiseUnless(DualConfigurationValid(c)),
    Include("nav2_only",
      [use_collision_monitor |-> c.use_collision_monitor,
       use_rviz |-> c.use_rviz,
       use_robot_state_publisher |-> c.use_robot_state_publisher]),
    Provided(c.telemetry_backend = "mavros",
      Include("mavros", [launch_web |-> c.launch_web,
                         launch_legacy_compat |-> "true"])),
    Provided(c.telemetry_backend = "pixhawk_driver",
      Include("pixhawk", [launch_web |-> c.launch_web])),
    Start(<<Node("camara", {}, {"srv /camara"})>>),
    Provided(Is(c.start_lidar), Include("rs16", <<>>)),
    IF DualConfigurationValid(c) THEN DualGpsHeadingActions(c) ELSE Skip,
    Start(IF DualConfigurationValid(c) THEN EkfNodes(c) ELSE <<>>),
    Start(LegacyServers(c)),
    Include("no_go_editor", NoServers @@ [gps_topic |-> c.gps_topic]),
    Start(When(Is(c.use_mapviz), Node("mapviz", {}, {}))
      \o When(Is(c.use_gazebo_utils), GazeboUtils({}))
      \o When(Is(c.use_pointcloud_to_laserscan), PointcloudToLaserscan))>>

SimulacionArgs ==
  [use_rviz |-> "True", use_mapviz |-> "False", use_navsat |-> "True",
   use_collision_monitor |-> "True", use_gazebo_utils |-> "True",
   realism_mode |-> "True", use_joint_state_bridge |-> "False",
   gps_topic |-> "/gps/fix"]

SimulacionBridges(c) ==
  <<GzBridge>>
  \o When(Is(c.use_joint_state_bridge), Node(Anonymous, {}, {"/joint_state"}))
  \o SpawnRobot

LocalizationNodes(c) ==
  <<Node("ekf_filter_node_odom", {"/odom", "/imu/data"},
         {"/odometry/local", "tf odom"}),
    Node("ekf_filter_node_map", {"/odometry/local", "/odometry/gps"},
         {"/odometry/filtered", "tf map"})>>
  \o When(Is(c.use_navsat),
       Node("navsat_transform", {"/imu/data", "/gps/fix", "/odometry/local"},
            {"/odometry/gps", "srv /fromLL", "srv /datum"}))

(* With realism, nav2_only brings the mask and the monitor, in a scope of  *)
(* its own; without, navigation_launch is completed by what follows.       *)
Ideal(c) == ~Is(c.realism_mode)
SimulacionNav2(c) ==
  <<Provided(Ideal(c), Include("navigation_launch", <<>>)),
    Provided(~Ideal(c),
      Scoped("nav2_only", [use_collision_monitor |-> c.use_collision_monitor,
                           use_rviz |-> "False",
                           use_robot_state_publisher |-> "False"])),
    Provided(Ideal(c), Start(KeepoutFiltersV2[1].nodes))>>

Simulacion(c) ==
  LET Monitor == Ideal(c) /\ Is(c.use_collision_monitor)
  IN
  <<Start(SimulacionBridges(c) \o LocalizationNodes(c))>>
  \o SimulacionNav2(c) \o
  <<Start(LegacyServers(c)),
    Include("no_go_editor", NoServers @@ [gps_topic |-> c.gps_topic]),
    Start(When(Is(c.use_rviz), Node("rviz2", {}, {}))
      \o When(Is(c.use_mapviz), Node("mapviz", {}, {}))
      \o When(Monitor, Node("collision_monitor", {"/cmd_vel", "/scan"},
                            MonitorTopics \cup {"/stop_zone"}))
      \o When(Is(c.use_gazebo_utils),
           GazeboUtils({"/gps/rtk_status", "/cmd_vel_gazebo"}
             \cup If(Ideal(c), {"/ultrasound"})))
      \o <<PointcloudToLaserscan>>
      \o When(Monitor, Manager("collision_monitor_lifecycle_manager",
                               {"collision_monitor"})))>>

-----------------------------------------------------------------------------
(* The launch service.                                                     *)

Args(f) ==
  CASE f = "real_global_v2" -> RealGlobalV2Args
    [] f = "sim_global_v2" -> SimGlobalV2Args
    [] f = "real_local_v2" -> RealLocalV2Args
    [] f = "sim_local_v2" -> SimLocalV2Args
    [] f = "replay" -> ReplayArgs
    [] f = "real" -> RealArgs
    [] f = "simulacion" -> SimulacionArgs
    [] f = "rviz_global_v2" -> RvizGlobalV2Args
    [] f = "localization_v2" -> LocalizationV2Args
    [] f = "localization_global_v2" -> LocalizationGlobalV2Args
    [] f \in {"nav_global_v2", "nav_local_v2"} -> NavV2Args
    [] f = "nav2_only" -> Nav2OnlyArgs
    [] f \in {"mavros", "pixhawk"} -> MavrosArgs
    [] f = "rs16" -> Rs16Args
    [] f = "dual_gps_heading_hw" -> DualGpsHeadingHwArgs
    [] f = "no_go_editor" -> NoGoEditorArgs
    [] OTHER -> <<>>

Actions(f, c) ==
  CASE f = "real_global_v2" -> RealGlobalV2(c)
    [] f = "sim_global_v2" -> SimGlobalV2(c)
    [] f = "real_local_v2" -> RealLocalV2(c)
    [] f = "sim_local_v2" -> SimLocalV2(c)
    [] f = "replay" -> Replay(c)
    [] f = "real" -> Real(c)
    [] f = "simulacion" -> Simulacion(c)
    [] f = "rviz_global_v2" -> RvizGlobalV2(c)
    [] f = "localization_v2" -> LocalizationV2(c)
    [] f = "localization_global_v2" -> LocalizationGlobalV2(c)
    [] f = "nav_global_v2" -> NavGlobalV2(c)
    [] f = "nav_local_v2" -> NavLocalV2(c)
    [] f = "keepout_filters_v2" -> KeepoutFiltersV2
    [] f = "nav2_only" -> Nav2Only(c)
    [] f = "navigation_launch" -> NavigationLaunch
    [] f = "mavros" -> Mavros(c)
    [] f = "pixhawk" -> Pixhawk(c)
    [] f = "rs16" -> Rs16(c)
    [] f = "dual_gps_heading_hw" -> DualGpsHeadingHw(c)
    [] f = "sim_v2_base" -> SimV2Base
    [] f = "no_go_editor" -> NoGoEditor(c)

(* Entering a file: the arguments passed are set, and those it declares    *)
(* keep a value they have already.                                         *)
Entered(c, f, args) == args @@ c @@ Args(f)
Frame(f, saved) == [file |-> f, at |-> 1, saved |-> saved]

(* The arguments of the command line, and a session: the profile, with the *)
(* operator's RViz beside the global ones.                                 *)
Launch(f, args) ==
  /\ profile = f
  /\ asked = Entered(<<>>, f, args)
  /\ ctx = asked
  /\ stack = <<Frame(f, <<>>)>>
  /\ later = IF f \in {"real_global_v2", "sim_global_v2"}
               THEN <<[file |-> "rviz_global_v2", args |-> <<>>, own |-> TRUE]>>
               ELSE <<>>
  /\ nodes = <<>>
  /\ aborted = FALSE

(* The next action of the innermost file is executed: nested includes are  *)
(* entered at once, timers are set, and an exception ends the launch.      *)
Execute ==
  LET top == Head(stack)
      action == Actions(top.file, ctx)[top.at]
      rest == <<[top EXCEPT !.at = @ + 1]>> \o Tail(stack)
  IN
  /\ stack # <<>>
  /\ top.at <= Len(Actions(top.file, ctx))
  /\ \/ /\ action.do = "start"
        /\ nodes' = nodes \o action.nodes
        /\ stack' = rest
        /\ UNCHANGED <<ctx, later, aborted>>
     \/ /\ action.do \in {"include", "scoped"}
        /\ ctx' = Entered(ctx, action.file, action.args)
        /\ stack' = <<Frame(action.file,
                            IF action.do = "scoped" THEN <<ctx>> ELSE <<>>)>>
                    \o rest
        /\ UNCHANGED <<nodes, later, aborted>>
     \/ /\ action.do = "timer"
        /\ later' = <<[file |-> action.file, args |-> action.args,
                       own |-> FALSE]>> \o later
        /\ stack' = rest
        /\ UNCHANGED <<ctx, nodes, aborted>>
     \/ /\ action.do = "raise"
        /\ aborted' = TRUE
        /\ stack' = <<>>
        /\ later' = <<>>
        /\ UNCHANGED <<ctx, nodes>>
  /\ UNCHANGED <<profile, asked>>

(* A file ends; a scope gives the configurations back.                     *)
Leave ==
  LET top == Head(stack) IN
  /\ stack # <<>>
  /\ top.at > Len(Actions(top.file, ctx))
  /\ stack' = Tail(stack)
  /\ ctx' = IF top.saved = <<>> THEN ctx ELSE top.saved[1]
  /\ UNCHANGED <<profile, asked, later, nodes, aborted>>

(* The timers fire once the profile has been executed to its end; the RViz *)
(* session is a launch of its own.                                         *)
Fire ==
  /\ stack = <<>> /\ later # <<>>
  /\ LET next == Head(later) IN
     /\ ctx' = Entered(IF next.own THEN <<>> ELSE ctx, next.file, next.args)
     /\ stack' = <<Frame(next.file, <<>>)>>
  /\ later' = Tail(later)
  /\ UNCHANGED <<profile, asked, nodes, aborted>>

Next == Execute \/ Leave \/ Fire

Launched == stack = <<>> /\ later = <<>> /\ ~aborted
=============================================================================
