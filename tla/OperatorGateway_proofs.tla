----------------------- MODULE OperatorGateway_proofs -----------------------
(* The two parts of web_zone_server, at any sizes: OperatorGateway for any *)
(* number of threads, documents and messages, and RosbagRecorder for any   *)
(* number of threads and recordings.                                       *)
EXTENDS MCGateway, TLAPS

Labels == {"idle", "call", "wait", "gate", "publish"}
TaskTypes == [op : G!AllOps, arg : G!Values, pc : Labels, step : Nat,
              resp : {"none", "sent", "refused", "ok"}, value : G!Values,
              alone : BOOLEAN]

(* A thread that calls a service is at a call its operation has.           *)
Calling(t) ==
  task[t].pc \in {"call", "wait"} =>
    /\ task[t].op \in DOMAIN G!ServiceCalls
    /\ task[t].step \in 1..Len(G!ServiceCalls[task[t].op])
Types ==
  /\ task \in [Tasks -> TaskTypes]
  /\ \A t \in Tasks : Calling(t)
  /\ cache \in [manual : G!Values, zones : G!Values \cup {NoZones},
                camera : G!Values]
  /\ nav \in G!Values /\ telemetry \in Seq(G!Values)
  /\ \A r \in late : r.arg \in G!Values

(* A thread that could bring manual mode back: one that asks for it, one   *)
(* that is past the gate, one that was answered that it is on.             *)
Harmless(t) ==
  /\ task[t].pc # "publish"
  /\ task[t].pc # "idle" /\ task[t].op = "setManualMode" => ~task[t].arg
  /\ task[t].pc = "wait" /\ task[t].resp = "ok" /\ G!Service(t) = "navState"
       => ~task[t].value
QuietNodes ==
  /\ ~nav /\ ~cache.manual /\ teleop = 0
  /\ \A i \in DOMAIN telemetry : ~telemetry[i]
  /\ \A r \in late : r.service = "manualMode" => ~r.arg
QuietInv == ~asked => QuietNodes /\ \A t \in Tasks : Harmless(t)

-----------------------------------------------------------------------------
(* The calls of an operation, and which of them sets the mode.             *)
LEMMA CallsOfOperations ==
  ASSUME NEW kind \in DOMAIN G!ServiceCalls,
         NEW n \in 1..Len(G!ServiceCalls[kind])
  PROVE  G!ServiceCalls[kind][n] = "manualMode" => kind = "setManualMode"
<1>1. kind \in {"setManualMode", "setZones", "reloadZones", "bootstrap",
              "camera", "cameraStatus", "relay"}
  BY DEF G!ServiceCalls
<1>2. CASE kind = "setZones"
  <2>1. G!ServiceCalls[kind] = <<"setGeojson", "zonesState">>
    BY <1>2 DEF G!ServiceCalls
  <2> QED
    BY <2>1
<1>3. CASE kind = "reloadZones"
  <2>1. G!ServiceCalls[kind] = <<"reload", "zonesState">>
    BY <1>3 DEF G!ServiceCalls
  <2> QED
    BY <2>1
<1>4. CASE kind = "bootstrap"
  <2>1. G!ServiceCalls[kind] = <<"zonesState", "navState", "cameraStatus">>
    BY <1>4 DEF G!ServiceCalls
  <2> QED
    BY <2>1
<1>5. CASE kind \in {"camera", "cameraStatus", "relay"}
  <2>1. G!ServiceCalls[kind] = <<kind>>
    BY <1>5 DEF G!ServiceCalls
  <2> QED
    BY <1>5, <2>1
<1> QED
  BY <1>1, <1>2, <1>3, <1>4, <1>5

LEMMA CallsAreSequences ==
  ASSUME NEW kind \in DOMAIN G!ServiceCalls
  PROVE  Len(G!ServiceCalls[kind]) \in Nat \ {0}
BY DEF G!ServiceCalls

LEMMA GatewayInit ==
  ASSUME G!Init
  PROVE  Types /\ QuietInv
<1>1. G!IdleTask \in TaskTypes
  BY DEF G!IdleTask, TaskTypes, G!AllOps, G!ServiceCalls, G!Values, Labels
<1> QED
  BY <1>1 DEF G!Init, Types, QuietInv, Calling, G!IdleTask, G!Values

-----------------------------------------------------------------------------
(* The end of a call: the operation is answered, or its next call is made. *)
LEMMA CallEnds ==
  ASSUME NEW t \in Tasks, Types, task[t].pc \in {"call", "wait"},
         G!Onward(t) \/ G!Answer(t)
  PROVE  /\ task' \in [Tasks -> TaskTypes] /\ \A u \in Tasks : Calling(u)'
         /\ \A u \in Tasks \ {t} : task'[u] = task[u]
         /\ \/ task'[t].pc = "idle"
            \/ /\ task'[t].pc = "call" /\ task'[t].step = task[t].step + 1
               /\ task'[t].op = task[t].op /\ task'[t].arg = task[t].arg
               /\ task'[t].alone = task[t].alone
<1>1. G!IdleTask \in TaskTypes
  BY DEF G!IdleTask, TaskTypes, G!AllOps, G!ServiceCalls, G!Values, Labels
<1>2. CASE G!Answer(t)
  BY <1>1, <1>2 DEF G!Answer, Types, Calling, G!IdleTask
<1>3. CASE ~G!Answer(t)
  <2>1. /\ task' = [task EXCEPT ![t].pc = "call", ![t].step = @ + 1,
                                ![t].resp = "none", ![t].value = FALSE]
        /\ task[t].step < Len(G!ServiceCalls[task[t].op])
    BY <1>3 DEF G!Onward
  <2>2. Len(G!ServiceCalls[task[t].op]) \in Nat
    BY CallsAreSequences DEF Types, Calling
  <2>3. task[t] \in TaskTypes
    BY DEF Types
  <2> DEFINE new == [task[t] EXCEPT !.pc = "call", !.step = @ + 1,
                                    !.resp = "none", !.value = FALSE]
  <2>4. /\ new \in TaskTypes
        /\ new.pc = "call" /\ new.step = task[t].step + 1
        /\ new.op = task[t].op /\ new.arg = task[t].arg
        /\ new.alone = task[t].alone
    <3>1. /\ task[t].step + 1 \in Nat
          /\ FALSE \in G!Values /\ "call" \in Labels
      BY <2>3 DEF TaskTypes, Labels, G!Values
    <3>2. new \in TaskTypes
      BY <2>3, <3>1 DEF TaskTypes
    <3>3. /\ new.pc = "call" /\ new.step = task[t].step + 1
          /\ new.op = task[t].op /\ new.arg = task[t].arg
          /\ new.alone = task[t].alone
      BY <2>3 DEF TaskTypes
    <3> QED
      BY <3>2, <3>3
  <2>5. task' = [task EXCEPT ![t] = new]
    BY <2>1, <2>3 DEF Types, TaskTypes
  <2> HIDE DEF new
  <2>6. \A u \in Tasks : task'[u] = IF u = t THEN new ELSE task[u]
    BY <2>5 DEF Types
  <2>7. task[t].step + 1 \in 1..Len(G!ServiceCalls[task[t].op])
    BY <2>1, <2>2 DEF Types, Calling
  <2>8. task' \in [Tasks -> TaskTypes]
    BY <2>4, <2>5 DEF Types
  <2> QED
    BY <2>4, <2>6, <2>7, <2>8 DEF Types, Calling
<1> QED
  BY <1>2, <1>3

(* Then a thread that was harmless still is.                               *)
LEMMA CallEndsHarmless ==
  ASSUME NEW t \in Tasks, Types, task[t].pc \in {"call", "wait"},
         G!Onward(t) \/ G!Answer(t), \A u \in Tasks : Harmless(u)
  PROVE  \A u \in Tasks : Harmless(u)'
<1>1. /\ \A u \in Tasks \ {t} : task'[u] = task[u]
      /\ \/ task'[t].pc = "idle"
         \/ /\ task'[t].pc = "call"
            /\ task'[t].op = task[t].op /\ task'[t].arg = task[t].arg
  BY CallEnds
<1>2. \A u \in Tasks \ {t} : Harmless(u)'
  BY <1>1 DEF Harmless, G!Service
<1>3. Harmless(t)'
  BY <1>1 DEF Harmless
<1> QED
  BY <1>2, <1>3

(* The history a task carries changes nothing else of it.                  *)
LEMMA AloneChangesNothing ==
  ASSUME NEW tasks \in [Tasks -> TaskTypes], NEW alone \in BOOLEAN
  PROVE  /\ G!Alone(tasks, alone) \in [Tasks -> TaskTypes]
         /\ \A u \in Tasks :
              LET new == G!Alone(tasks, alone)[u] IN
              /\ new.pc = tasks[u].pc /\ new.op = tasks[u].op
              /\ new.arg = tasks[u].arg /\ new.step = tasks[u].step
              /\ new.resp = tasks[u].resp /\ new.value = tasks[u].value
<1>1. ASSUME NEW u \in Tasks
      PROVE  [tasks[u] EXCEPT !.alone = alone /\ @] \in TaskTypes
  <2>1. tasks[u] \in TaskTypes
    OBVIOUS
  <2>2. (alone /\ tasks[u].alone) \in BOOLEAN
    OBVIOUS
  <2> QED
    BY <2>1, <2>2 DEF TaskTypes
<1>2. \A u \in Tasks : G!Alone(tasks, alone)[u]
                         = [tasks[u] EXCEPT !.alone = alone /\ @]
  BY DEF G!Alone
<1>3. G!Alone(tasks, alone) \in [Tasks -> TaskTypes]
  BY <1>1 DEF G!Alone
<1> QED
  BY <1>2, <1>3 DEF TaskTypes

LEMMA GatewayTypes ==
  ASSUME Types, [G!Next]_(G!vars)
  PROVE  Types'
<1>1. ASSUME NEW t \in Tasks, G!HandleMessage(t)
      PROVE  Types'
  <2>1. PICK kind \in G!AllOps, arg \in G!Values : G!Request(t, kind, arg)
    BY <1>1 DEF G!HandleMessage, G!SetZones, G!ReloadZones, G!SetManualMode,
       G!SetManualCmd, G!Relay, G!Camera, G!Bootstrap, G!AllOps,
          G!ServiceCalls, G!Values
  <2> DEFINE new == [op |-> kind, arg |-> arg, step |-> 1, resp |-> "none",
                     value |-> FALSE, alone |-> TRUE,
                     pc |-> IF kind = "setManualCmd" THEN "gate" ELSE "call"]
             tasks == [task EXCEPT ![t] = new]
  <2>2. new \in TaskTypes
    BY DEF TaskTypes, Labels, G!Values
  <2>3. tasks \in [Tasks -> TaskTypes]
    BY <2>2 DEF Types
  <2>4. PICK alone \in BOOLEAN : task' = G!Alone(tasks, alone)
    BY <2>1 DEF G!Request
  <2>5. task' \in [Tasks -> TaskTypes]
    BY <2>3, <2>4, AloneChangesNothing
  <2>6. \A u \in Tasks : Calling(u)'
    <3>0. \A u \in Tasks : tasks[u] = IF u = t THEN new ELSE task[u]
      BY DEF Types
    <3> HIDE DEF tasks, new
    <3>1. \A u \in Tasks : /\ task'[u].pc = tasks[u].pc
                           /\ task'[u].op = tasks[u].op
                           /\ task'[u].step = tasks[u].step
      BY <2>3, <2>4, AloneChangesNothing
    <3>2. new.pc \in {"call", "wait"} => kind \in DOMAIN G!ServiceCalls
      BY DEF G!AllOps, new
    <3>3. /\ new.pc \in {"call", "wait"} => 1 \in 1..Len(G!ServiceCalls[kind])
          /\ new.op = kind /\ new.step = 1
      BY <3>2, CallsAreSequences DEF new
    <3>4. ASSUME NEW u \in Tasks
          PROVE  Calling(u)'
      <4>1. CASE u = t
        BY <3>0, <3>1, <3>2, <3>3, <4>1 DEF Calling
      <4>2. CASE u # t
        BY <3>0, <3>1, <4>2 DEF Calling, Types
      <4> QED
        BY <4>1, <4>2
    <3> QED
      BY <3>4
  <2> QED
    BY <2>1, <2>5, <2>6 DEF Types, G!Request, G!outside, G!channels
<1>2. ASSUME NEW t \in Tasks, G!TaskStep(t)
      PROVE  Types'
  <2>1. CASE G!Unavailable(t) \/ G!Timeout(t) \/ G!TakeRefusal(t)
    <3>1. /\ task[t].pc \in {"call", "wait"}
          /\ G!Onward(t) \/ G!Answer(t)
          /\ UNCHANGED <<nav, telemetry>>
      BY <2>1 DEF G!Unavailable, G!Timeout, G!TakeRefusal, G!Failed, G!At,
         G!outside,
         G!channels
    <3>2. cache' \in [manual : G!Values, zones : G!Values \cup {NoZones},
                      camera : G!Values]
      BY <2>1 DEF G!Unavailable, G!Timeout, G!TakeRefusal, Types, G!Values
    <3>3. \A r \in late' : r.arg \in G!Values
      BY <2>1 DEF G!Unavailable, G!Timeout, G!TakeRefusal, Types, TaskTypes,
         G!channels
    <3> QED
      BY <3>1, <3>2, <3>3, CallEnds DEF Types
  <2>2. CASE G!TakeResponse(t)
    <3>1. /\ task[t].pc \in {"call", "wait"}
          /\ G!Onward(t) \/ G!Answer(t)
          /\ UNCHANGED <<nav, telemetry, late>>
      BY <2>2 DEF G!TakeResponse, G!Onward, G!At, G!outside, G!channels
    <3>2. task[t].value \in G!Values
      BY DEF Types, TaskTypes
    <3>3. cache' \in [manual : G!Values, zones : G!Values \cup {NoZones},
                      camera : G!Values]
      BY <2>2, <3>2 DEF G!TakeResponse, Types, G!Values
    <3> QED
      BY <3>1, <3>3, CallEnds DEF Types
  <2>3. CASE G!Call(t)
    <3>1. /\ task[t].pc = "call"
          /\ task' = [task EXCEPT ![t].pc = "wait", ![t].resp = "sent"]
          /\ UNCHANGED <<cache, nav, telemetry, late>>
      BY <2>3 DEF G!Call, G!At, G!outside, G!channels
    <3>2. task' \in [Tasks -> TaskTypes]
      <4>1. task[t] \in TaskTypes
        BY DEF Types
      <4>2. [task[t] EXCEPT !.pc = "wait", !.resp = "sent"] \in TaskTypes
        BY <4>1 DEF TaskTypes, Labels
      <4> QED
        BY <3>1, <4>2 DEF Types
    <3>3. \A u \in Tasks : Calling(u)'
      BY <3>1 DEF Types, TaskTypes, Calling
    <3> QED
      BY <3>1, <3>2, <3>3 DEF Types
  <2>4. CASE G!CheckManual(t) \/ G!PublishTeleop(t)
    <3>1. G!IdleTask \in TaskTypes /\ G!IdleTask.pc = "idle"
      BY DEF G!IdleTask, TaskTypes, G!AllOps, G!ServiceCalls, G!Values, Labels
    <3>2. G!Goto(t, "publish") \/ G!Answer(t)
      BY <2>4 DEF G!CheckManual, G!Gate, G!PublishTeleop
    <3>3. task' \in [Tasks -> TaskTypes] /\ \A u \in Tasks : Calling(u)'
      <4>1. CASE G!Answer(t)
        <5>1. task' \in [Tasks -> TaskTypes]
          BY <3>1, <4>1 DEF G!Answer, Types
        <5>2. \A u \in Tasks : task'[u] = IF u = t THEN G!IdleTask ELSE task[u]
          BY <4>1 DEF G!Answer, Types
        <5> QED
          BY <3>1, <5>1, <5>2 DEF Types, Calling
      <4>2. CASE G!Goto(t, "publish")
        <5>1. [task[t] EXCEPT !.pc = "publish"] \in TaskTypes
          BY DEF Types, TaskTypes, Labels
        <5>2. task' \in [Tasks -> TaskTypes]
          BY <4>2, <5>1 DEF G!Goto, Types
        <5>3. /\ task'[t].pc = "publish"
              /\ \A u \in Tasks \ {t} : task'[u] = task[u]
          BY <4>2 DEF G!Goto, Types, TaskTypes
        <5> QED
          BY <5>2, <5>3 DEF Types, Calling
      <4> QED
        BY <3>2, <4>1, <4>2
    <3> QED
      BY <2>4, <3>3 DEF G!CheckManual, G!PublishTeleop, Types, G!outside,
         G!channels
  <2> QED
    BY <1>2, <2>1, <2>2, <2>3, <2>4 DEF G!TaskStep
<1>3. ASSUME NEW t \in Tasks, G!Serve(t)
      PROVE  Types'
  <2>1. UNCHANGED <<cache, telemetry, late>>
    BY <1>3 DEF G!Serve, G!channels
  <2>2. PICK v \in G!Values, ok \in BOOLEAN :
          /\ G!Effect(G!Service(t), task[t].arg, ok, v)
          /\ task' = [task EXCEPT ![t].resp = IF ok THEN "ok" ELSE "refused",
                                  ![t].value = v]
    BY <1>3 DEF G!Serve
  <2>3. task' \in [Tasks -> TaskTypes] /\ \A u \in Tasks : Calling(u)'
    <3>0. task[t] \in TaskTypes
      BY DEF Types
    <3>1. PICK new \in TaskTypes :
            /\ task' = [task EXCEPT ![t] = new]
            /\ new.pc = task[t].pc /\ new.op = task[t].op
            /\ new.step = task[t].step
      <4> DEFINE resp == IF ok THEN "ok" ELSE "refused"
                 answered == [task[t] EXCEPT !.resp = resp, !.value = v]
      <4>1. /\ answered \in TaskTypes
            /\ answered.pc = task[t].pc /\ answered.op = task[t].op
            /\ answered.step = task[t].step
        BY <3>0 DEF TaskTypes
      <4>2. task' = [task EXCEPT ![t] = answered]
        BY <2>2, <3>0 DEF Types, TaskTypes
      <4> QED
        BY <4>1, <4>2
    <3>2. task' \in [Tasks -> TaskTypes]
      BY <3>1 DEF Types
    <3>3. \A u \in Tasks : task'[u] = IF u = t THEN new ELSE task[u]
      BY <3>1 DEF Types
    <3> QED
      BY <3>1, <3>2, <3>3 DEF Types, Calling
  <2>4. nav' \in G!Values
    <3>1. task[t].arg \in G!Values
      BY DEF Types, TaskTypes
    <3> QED
      BY <2>2, <3>1 DEF G!Effect, Types, G!outside
  <2> QED
    BY <2>1, <2>3, <2>4 DEF Types
<1>4. ASSUME NEW r \in late, G!ServeLate(r)
      PROVE  Types'
  <2>1. PICK alone \in BOOLEAN : task' = G!Alone(task, alone)
    BY <1>4 DEF G!ServeLate
  <2>2. task' \in [Tasks -> TaskTypes] /\ \A u \in Tasks : Calling(u)'
    BY <2>1, AloneChangesNothing DEF Types, Calling
  <2>3. nav' \in G!Values
    BY <1>4 DEF G!ServeLate, G!Effect, Types, G!outside
  <2> QED
    BY <1>4, <2>2, <2>3 DEF G!ServeLate, Types
<1>5. CASE G!NavPublishesTelemetry \/ G!NavTakesTeleop \/ G!OnNavTelemetry
  <2>1. UNCHANGED <<task, late>>
    BY <1>5 DEF G!NavPublishesTelemetry, G!NavTakesTeleop, G!OnNavTelemetry
  <2>2. nav' \in G!Values
    BY <1>5 DEF G!NavPublishesTelemetry, G!NavTakesTeleop, G!OnNavTelemetry,
       G!outside,
       Types, G!Values
  <2>3. telemetry' \in Seq(G!Values)
    <3>1. telemetry # <<>> => Tail(telemetry) \in Seq(G!Values)
      BY DEF Types
    <3>2. Append(telemetry, nav) \in Seq(G!Values)
      BY DEF Types
    <3> QED
      BY <1>5, <3>1, <3>2 DEF G!NavPublishesTelemetry, G!NavTakesTeleop,
         G!OnNavTelemetry, Types
  <2>4. cache' \in [manual : G!Values, zones : G!Values \cup {NoZones},
                    camera : G!Values]
    <3>1. telemetry # <<>> => Head(telemetry) \in G!Values
      BY DEF Types
    <3> QED
      BY <1>5, <3>1 DEF G!NavPublishesTelemetry, G!NavTakesTeleop,
         G!OnNavTelemetry,
         Types
  <2> QED
    BY <2>1, <2>2, <2>3, <2>4 DEF Types, Calling
<1>6. CASE G!SettlesQuiet \/ UNCHANGED G!vars
  BY <1>6 DEF G!SettlesQuiet, G!vars, G!outside, G!channels, Types, Calling
<1> QED
  BY <1>1, <1>2, <1>3, <1>4, <1>5, <1>6 DEF G!Next

-----------------------------------------------------------------------------
(* No step of a request that is under way brings manual mode back, nor     *)
(* does one that begins and does not ask for it.                           *)
LEMMA GatewayQuiet ==
  ASSUME Types, QuietInv, [G!Next]_(G!vars)
  PROVE  QuietInv'
<1> SUFFICES ASSUME ~asked'
             PROVE  QuietNodes' /\ \A u \in Tasks : Harmless(u)'
  BY DEF QuietInv
<1>1. CASE G!SettlesQuiet
  BY <1>1 DEF G!SettlesQuiet, G!Quiet, QuietNodes, Harmless, G!Service, G!At,
     G!outside,
     G!channels
<1> SUFFICES ASSUME ~G!SettlesQuiet
             PROVE  QuietNodes' /\ \A u \in Tasks : Harmless(u)'
  BY <1>1
<1>2. ~asked
  BY DEF G!Next, G!HandleMessage, G!SetZones, G!ReloadZones, G!SetManualMode,
     G!SetManualCmd, G!Relay, G!Camera, G!Bootstrap, G!Request, G!TaskStep,
        G!Call,
     G!Unavailable, G!Timeout, G!TakeResponse, G!TakeRefusal, G!CheckManual,
     G!PublishTeleop, G!Serve, G!ServeLate, G!NavPublishesTelemetry,
        G!NavTakesTeleop,
     G!OnNavTelemetry, G!history, G!vars
<1>3. QuietNodes /\ \A u \in Tasks : Harmless(u)
  BY <1>2 DEF QuietInv
<1>4. ASSUME NEW t \in Tasks, G!HandleMessage(t)
      PROVE  QuietNodes' /\ \A u \in Tasks : Harmless(u)'
  <2>1. PICK kind \in G!AllOps, arg \in G!Values :
          /\ G!Request(t, kind, arg)
          /\ kind = "setManualMode" => arg \in BOOLEAN
    <3>1. CASE G!SetManualMode(t)
      BY <3>1 DEF G!SetManualMode, G!AllOps, G!ServiceCalls, G!Values
    <3>2. CASE ~G!SetManualMode(t)
      <4>1. \E kind \in G!AllOps \ {"setManualMode"}, arg \in G!Values :
              G!Request(t, kind, arg)
        BY <1>4, <3>2 DEF G!HandleMessage, G!SetZones, G!ReloadZones,
           G!SetManualCmd,
           G!Relay, G!Camera, G!Bootstrap, G!AllOps, G!ServiceCalls, G!Values
      <4> QED
        BY <4>1
    <3> QED
      BY <3>1, <3>2
  <2>2. kind = "setManualMode" => ~arg
    BY <2>1 DEF G!Request
  <2> DEFINE new == [op |-> kind, arg |-> arg, step |-> 1, resp |-> "none",
                     value |-> FALSE, alone |-> TRUE,
                     pc |-> IF kind = "setManualCmd" THEN "gate" ELSE "call"]
             tasks == [task EXCEPT ![t] = new]
  <2>3. new \in TaskTypes
    BY DEF TaskTypes, Labels, G!Values
  <2>4. tasks \in [Tasks -> TaskTypes]
    BY <2>3 DEF Types
  <2>5. PICK alone \in BOOLEAN : task' = G!Alone(tasks, alone)
    BY <2>1 DEF G!Request
  <2>6. \A u \in Tasks : tasks[u] = IF u = t THEN new ELSE task[u]
    BY DEF Types
  <2>7. /\ new.pc \in {"gate", "call"} /\ new.op = kind /\ new.arg = arg
    OBVIOUS
  <2> HIDE DEF tasks, new
  <2>8. \A u \in Tasks :
          /\ task'[u].pc = tasks[u].pc /\ task'[u].op = tasks[u].op
          /\ task'[u].arg = tasks[u].arg /\ task'[u].step = tasks[u].step
          /\ task'[u].resp = tasks[u].resp /\ task'[u].value = tasks[u].value
    BY <2>4, <2>5, AloneChangesNothing
  <2>9. Harmless(t)'
    BY <2>2, <2>6, <2>7, <2>8 DEF Harmless
  <2>10. \A u \in Tasks \ {t} : Harmless(u)'
    BY <1>3, <2>6, <2>8 DEF Harmless, G!Service
  <2>11. QuietNodes'
    BY <1>3, <2>1 DEF G!Request, QuietNodes, G!outside, G!channels
  <2> QED
    BY <2>9, <2>10, <2>11
<1>5. ASSUME NEW t \in Tasks, G!TaskStep(t)
      PROVE  QuietNodes' /\ \A u \in Tasks : Harmless(u)'
  <2>1. CASE G!Unavailable(t) \/ G!Timeout(t) \/ G!TakeRefusal(t)
    <3>1. /\ task[t].pc \in {"call", "wait"}
          /\ G!Onward(t) \/ G!Answer(t)
      BY <2>1 DEF G!Unavailable, G!Timeout, G!TakeRefusal, G!Failed, G!At
    <3>2. \A u \in Tasks : Harmless(u)'
      BY <1>3, <3>1, CallEndsHarmless
    <3>3. UNCHANGED <<nav, telemetry, teleop>>
      BY <2>1 DEF G!Unavailable, G!Timeout, G!TakeRefusal, G!outside,
         G!channels
    <3>4. ~cache'.manual
      BY <1>3, <2>1 DEF G!Unavailable, G!Timeout, G!TakeRefusal, QuietNodes,
         Types
    <3>5. \A r \in late' : r.service = "manualMode" => ~r.arg
      <4>1. G!Service(t) = "manualMode" => ~task[t].arg
        BY <1>3, <3>1, CallsOfOperations DEF G!Service, Harmless, Types,
           Calling
      <4> QED
        BY <1>3, <2>1, <4>1 DEF G!Unavailable, G!Timeout, G!TakeRefusal,
           QuietNodes,
           G!channels
    <3> QED
      BY <1>3, <3>2, <3>3, <3>4, <3>5 DEF QuietNodes
  <2>2. CASE G!TakeResponse(t)
    <3>1. /\ task[t].pc \in {"call", "wait"}
          /\ G!Onward(t) \/ G!Answer(t)
      BY <2>2 DEF G!TakeResponse, G!Onward, G!At
    <3>2. \A u \in Tasks : Harmless(u)'
      BY <1>3, <3>1, CallEndsHarmless
    <3>3. G!Service(t) = "navState" => ~task[t].value
      BY <1>3, <2>2 DEF G!TakeResponse, Harmless, G!At
    <3>4. ~cache'.manual
      BY <1>3, <2>2, <3>3 DEF G!TakeResponse, QuietNodes, Types
    <3> QED
      BY <1>3, <2>2, <3>2, <3>4 DEF G!TakeResponse, QuietNodes, G!outside,
         G!channels
  <2>3. CASE G!Call(t)
    <3>1. task' = [task EXCEPT ![t].pc = "wait", ![t].resp = "sent"]
      BY <2>3 DEF G!Call
    <3>2. \A u \in Tasks : Harmless(u)'
      <4>1. /\ task'[t].pc = "wait" /\ task'[t].resp = "sent"
            /\ task'[t].op = task[t].op /\ task'[t].arg = task[t].arg
            /\ task[t].pc = "call"
        BY <2>3, <3>1 DEF Types, TaskTypes, G!Call, G!At
      <4>2. \A u \in Tasks \ {t} : task'[u] = task[u]
        BY <3>1 DEF Types
      <4> QED
        BY <1>3, <4>1, <4>2 DEF Harmless, G!Service
    <3> QED
      BY <1>3, <2>3, <3>2 DEF G!Call, QuietNodes, G!outside, G!channels
  <2>4. CASE G!CheckManual(t)
    <3>1. G!Answer(t)
      BY <1>3, <2>4 DEF G!CheckManual, G!Gate, QuietNodes
    <3>2. \A u \in Tasks : task'[u] = IF u = t THEN G!IdleTask ELSE task[u]
      BY <3>1 DEF G!Answer, Types
    <3>3. \A u \in Tasks : Harmless(u)'
      BY <1>3, <3>2 DEF Harmless, G!Service, G!IdleTask
    <3> QED
      BY <1>3, <2>4, <3>3 DEF G!CheckManual, QuietNodes, G!outside, G!channels
  <2>5. ~G!PublishTeleop(t)
    BY <1>3 DEF G!PublishTeleop, G!At, Harmless
  <2> QED
    BY <1>5, <2>1, <2>2, <2>3, <2>4, <2>5 DEF G!TaskStep
<1>6. ASSUME NEW t \in Tasks, G!Serve(t)
      PROVE  QuietNodes' /\ \A u \in Tasks : Harmless(u)'
  <2>1. G!Service(t) = "manualMode" => ~task[t].arg
    BY <1>3, <1>6, CallsOfOperations DEF G!Serve, G!At, G!Service, Harmless,
       Types,
       Calling
  <2>2. PICK v \in G!Values, ok \in BOOLEAN :
          /\ G!Effect(G!Service(t), task[t].arg, ok, v)
          /\ task' = [task EXCEPT ![t].resp = IF ok THEN "ok" ELSE "refused",
                                  ![t].value = v]
    BY <1>6 DEF G!Serve
  <2>3. /\ \A u \in Tasks \ {t} : task'[u] = task[u]
        /\ task'[t].value = v /\ task'[t].pc = task[t].pc
        /\ task'[t].op = task[t].op /\ task'[t].arg = task[t].arg
        /\ task'[t].step = task[t].step
    BY <2>2 DEF Types, TaskTypes
  <2>4. ~nav' /\ (G!Service(t) = "navState" => ~v)
    BY <1>3, <2>1, <2>2 DEF G!Effect, QuietNodes, G!outside
  <2>5. \A u \in Tasks : Harmless(u)'
    BY <1>3, <2>3, <2>4 DEF Harmless, G!Service
  <2> QED
    BY <1>3, <1>6, <2>4, <2>5 DEF G!Serve, QuietNodes, G!channels
<1>7. ASSUME NEW r \in late, G!ServeLate(r)
      PROVE  QuietNodes' /\ \A u \in Tasks : Harmless(u)'
  <2>1. PICK alone \in BOOLEAN : task' = G!Alone(task, alone)
    BY <1>7 DEF G!ServeLate
  <2>2. \A u \in Tasks : Harmless(u)'
    BY <1>3, <2>1, AloneChangesNothing DEF Harmless, G!Service, Types
  <2>3. ~nav'
    BY <1>3, <1>7 DEF G!ServeLate, G!Effect, QuietNodes, G!outside
  <2> QED
    BY <1>3, <1>7, <2>2, <2>3 DEF G!ServeLate, QuietNodes
<1>8. CASE G!NavPublishesTelemetry
  <2>1. telemetry' = Append(telemetry, nav) /\ telemetry \in Seq(G!Values)
    BY <1>8 DEF G!NavPublishesTelemetry, Types
  <2>2. \A i \in DOMAIN telemetry' : ~telemetry'[i]
    BY <1>3, <2>1 DEF QuietNodes
  <2> QED
    BY <1>3, <1>8, <2>2 DEF G!NavPublishesTelemetry, QuietNodes, Harmless,
       G!Service, G!outside
<1>9. CASE G!OnNavTelemetry
  <2>1. telemetry' = Tail(telemetry) /\ telemetry \in Seq(G!Values)
        /\ telemetry # <<>>
    BY <1>9 DEF G!OnNavTelemetry, Types
  <2>2. \A i \in DOMAIN telemetry' : ~telemetry'[i]
    BY <1>3, <2>1 DEF QuietNodes
  <2>3. ~Head(telemetry)
    <3>1. 1 \in DOMAIN telemetry /\ Head(telemetry) = telemetry[1]
      BY <2>1
    <3> QED
      BY <1>3, <3>1 DEF QuietNodes
  <2>4. ~cache'.manual
    BY <1>9, <2>3 DEF G!OnNavTelemetry, Types
  <2> QED
    BY <1>3, <1>9, <2>2, <2>4 DEF G!OnNavTelemetry, QuietNodes, Harmless,
       G!Service, G!outside
<1>10. CASE UNCHANGED G!vars
  BY <1>3, <1>10 DEF G!vars, G!outside, G!channels, QuietNodes, Harmless,
     G!Service
<1>11. ~G!NavTakesTeleop
  BY <1>3 DEF G!NavTakesTeleop, QuietNodes
<1> QED
  BY <1>4, <1>5, <1>6, <1>7, <1>8, <1>9, <1>10, <1>11 DEF G!Next

-----------------------------------------------------------------------------
(* A request that has changed the zones and whose refresh is still to come. *)
Changed(t) ==
  /\ task[t].pc # "idle" /\ task[t].op \in {"setZones", "reloadZones"}
  /\ task[t].step = 2 \/ (task[t].pc = "wait" /\ task[t].resp = "ok")

(* A request that is alone on the zones will find them unchanged, so what  *)
(* it was answered still is in force; and the zones shown are in force     *)
(* unless a request changed them and their refresh is still to come.       *)
ManualCommands ==
  \A t \in Tasks : task[t].pc \in {"gate", "publish"} =>
    task[t].op = "setManualCmd"
AloneOnZones ==
  \A t, u \in Tasks :
    G!OnZones(t) /\ task[t].alone /\ G!OnZones(u) => u = t
AnswerInForce(t) ==
  /\ task[t].pc = "wait" /\ task[t].resp = "ok" /\ task[t].alone
  /\ G!Service(t) = "zonesState"
  => task[t].value = zones
ShownOrChanged ==
  ~unsure => cache.zones = zones \/ \E t \in Tasks : Changed(t)
ZonesInv ==
  /\ ManualCommands /\ AloneOnZones
  /\ \A t \in Tasks : AnswerInForce(t)
  /\ ShownOrChanged

(* Which calls are about the zones, and where they are in an operation.    *)
LEMMA CallsOnZones ==
  ASSUME NEW kind \in DOMAIN G!ServiceCalls,
         NEW n \in 1..Len(G!ServiceCalls[kind])
  PROVE  /\ G!ServiceCalls[kind][n] \in {"setGeojson", "reload"} =>
              kind \in {"setZones", "reloadZones"}
         /\ G!ServiceCalls[kind][n] = "zonesState" => kind \in G!ZoneOps
         /\ kind \in {"setZones", "reloadZones"} =>
              /\ Len(G!ServiceCalls[kind]) = 2
              /\ G!ServiceCalls[kind][n] = "zonesState" <=> n = 2
<1> USE DEF G!ZoneOps
<1>1. kind \in {"setManualMode", "setZones", "reloadZones", "bootstrap",
              "camera", "cameraStatus", "relay"}
  BY DEF G!ServiceCalls
<1>2. CASE kind = "setZones"
  <2>1. G!ServiceCalls[kind] = <<"setGeojson", "zonesState">>
    BY <1>2 DEF G!ServiceCalls
  <2> QED
    BY <1>2, <2>1
<1>3. CASE kind = "reloadZones"
  <2>1. G!ServiceCalls[kind] = <<"reload", "zonesState">>
    BY <1>3 DEF G!ServiceCalls
  <2> QED
    BY <1>3, <2>1
<1>4. CASE kind = "bootstrap"
  <2>1. G!ServiceCalls[kind] = <<"zonesState", "navState", "cameraStatus">>
    BY <1>4 DEF G!ServiceCalls
  <2> QED
    BY <1>4, <2>1
<1>5. CASE kind = "setManualMode"
  <2>1. G!ServiceCalls[kind] = <<"manualMode", "navState">>
    BY <1>5 DEF G!ServiceCalls
  <2> QED
    BY <1>5, <2>1
<1>6. CASE kind \in {"camera", "cameraStatus", "relay"}
  <2>1. G!ServiceCalls[kind] = <<kind>>
    BY <1>6 DEF G!ServiceCalls
  <2> QED
    BY <1>6, <2>1
<1> QED
  BY <1>1, <1>2, <1>3, <1>4, <1>5, <1>6

LEMMA ZonesInit ==
  ASSUME G!Init
  PROVE  ZonesInv
BY DEF G!Init, ZonesInv, ManualCommands, AloneOnZones, AnswerInForce,
   ShownOrChanged, G!OnZones, G!At, G!IdleTask

(* What is said of the zones survives a step that changes neither them nor *)
(* what is shown, and in which one thread ends a call or begins one.       *)
LEMMA ZonesKept ==
  ASSUME ZonesInv, NEW t \in Tasks, UNCHANGED zones,
         \A u \in Tasks \ {t} : task'[u] = task[u],
         G!OnZones(t)' => /\ G!OnZones(t)
                          /\ task'[t].alone => task[t].alone,
         task'[t].pc \in {"gate", "publish"} => task'[t].op = "setManualCmd",
         AnswerInForce(t)'
  PROVE  ManualCommands' /\ AloneOnZones' /\ \A u \in Tasks : AnswerInForce(u)'
<1>1. ManualCommands'
  BY DEF ZonesInv, ManualCommands
<1>2. AloneOnZones'
  <2>1. \A u \in Tasks : G!OnZones(u)' =>
          G!OnZones(u) /\ (task'[u].alone => task[u].alone)
    BY DEF G!OnZones, G!At
  <2> QED
    BY <2>1 DEF ZonesInv, AloneOnZones
<1>3. \A u \in Tasks : AnswerInForce(u)'
  BY DEF ZonesInv, AnswerInForce, G!Service
<1> QED
  BY <1>1, <1>2, <1>3

LEMMA AloneRecorded ==
  ASSUME NEW tasks \in [Tasks -> TaskTypes], NEW alone \in BOOLEAN
  PROVE  \A u \in Tasks :
           G!Alone(tasks, alone)[u].alone => alone /\ tasks[u].alone
<1>1. ASSUME NEW u \in Tasks, G!Alone(tasks, alone)[u].alone
      PROVE  alone /\ tasks[u].alone
  <2>1. /\ G!Alone(tasks, alone)[u] = [tasks[u] EXCEPT !.alone = alone /\ @]
        /\ tasks[u] \in TaskTypes
    BY DEF G!Alone
  <2>2. G!Alone(tasks, alone)[u].alone = (alone /\ tasks[u].alone)
    BY <2>1 DEF TaskTypes
  <2> QED
    BY <1>1, <2>2
<1> QED
  BY <1>1

LEMMA ZonesNext ==
  ASSUME Types, ZonesInv, [G!Next]_(G!vars)
  PROVE  ZonesInv'
<1>0. Types'
  BY GatewayTypes
<1>1. ASSUME NEW t \in Tasks, G!HandleMessage(t)
      PROVE  ZonesInv'
  <2>1. PICK kind \in G!AllOps, arg \in G!Values : G!Request(t, kind, arg)
    BY <1>1 DEF G!HandleMessage, G!SetZones, G!ReloadZones, G!SetManualMode,
       G!SetManualCmd, G!Relay, G!Camera, G!Bootstrap, G!AllOps,
       G!ServiceCalls, G!Values
  <2> DEFINE new == [op |-> kind, arg |-> arg, step |-> 1, resp |-> "none",
                     value |-> FALSE, alone |-> TRUE,
                     pc |-> IF kind = "setManualCmd" THEN "gate" ELSE "call"]
             tasks == [task EXCEPT ![t] = new]
             alone == kind \notin G!ZoneOps \/ \A u \in Tasks : ~G!OnZones(u)
  <2>2. /\ task' = G!Alone(tasks, alone) /\ task[t].pc = "idle"
        /\ UNCHANGED <<cache, zones, unsure>>
    BY <2>1 DEF G!Request, G!At, G!outside
  <2>3. new \in TaskTypes
    BY DEF TaskTypes, Labels, G!Values
  <2>4. tasks \in [Tasks -> TaskTypes]
    BY <2>3 DEF Types
  <2>5. \A u \in Tasks : tasks[u] = IF u = t THEN new ELSE task[u]
    BY DEF Types
  <2>6. /\ new.pc \in {"gate", "call"} /\ new.op = kind
        /\ new.pc = "gate" => kind = "setManualCmd"
    OBVIOUS
  <2>7. alone \in BOOLEAN
    OBVIOUS
  <2> HIDE DEF tasks, new, alone
  <2>8. \A u \in Tasks :
          /\ task'[u].pc = tasks[u].pc /\ task'[u].op = tasks[u].op
          /\ task'[u].step = tasks[u].step
          /\ task'[u].resp = tasks[u].resp /\ task'[u].value = tasks[u].value
    BY <2>2, <2>4, <2>7, AloneChangesNothing
  <2>9. \A u \in Tasks : task'[u].alone => alone /\ tasks[u].alone
    BY <2>2, <2>4, <2>7, AloneRecorded
  <2>10. ManualCommands'
    BY <2>5, <2>6, <2>8 DEF ZonesInv, ManualCommands
  <2>11. AloneOnZones'
    <3>1. \A u \in Tasks \ {t} : G!OnZones(u)' => G!OnZones(u)
      BY <2>5, <2>8 DEF G!OnZones, G!At
    <3>2. G!OnZones(t)' => kind \in G!ZoneOps
      BY <2>5, <2>6, <2>8 DEF G!OnZones, G!At
    <3>3. CASE kind \in G!ZoneOps
      <4>1. ASSUME NEW u \in Tasks, task'[u].alone
            PROVE  \A v \in Tasks : ~G!OnZones(v)
        BY <2>9, <3>3, <4>1 DEF alone
      <4> QED
        BY <3>1, <4>1 DEF AloneOnZones
    <3>4. CASE kind \notin G!ZoneOps
      <4>1. \A u \in Tasks : G!OnZones(u)' =>
              u # t /\ G!OnZones(u) /\ (task'[u].alone => task[u].alone)
        BY <2>5, <2>9, <3>1, <3>2, <3>4
      <4> QED
        BY <4>1 DEF ZonesInv, AloneOnZones
    <3> QED
      BY <3>3, <3>4
  <2>12. \A u \in Tasks : AnswerInForce(u)'
    <3>1. ASSUME NEW u \in Tasks
          PROVE  AnswerInForce(u)'
      <4>1. CASE u = t
        BY <2>5, <2>6, <2>8, <4>1 DEF AnswerInForce
      <4>2. CASE u # t
        BY <2>2, <2>5, <2>8, <2>9, <4>2
           DEF ZonesInv, AnswerInForce, G!Service
      <4> QED
        BY <4>1, <4>2
    <3> QED
      BY <3>1
  <2>13. ShownOrChanged'
    <3>1. \A u \in Tasks : Changed(u) => Changed(u)'
      BY <2>2, <2>5, <2>8 DEF Changed
    <3> QED
      BY <2>2, <3>1 DEF ZonesInv, ShownOrChanged
  <2> QED
    BY <2>10, <2>11, <2>12, <2>13 DEF ZonesInv
<1>2. ASSUME NEW t \in Tasks, G!TaskStep(t)
      PROVE  ZonesInv'
  <2>1. CASE G!Unavailable(t) \/ G!Timeout(t) \/ G!TakeRefusal(t)
    <3>1. /\ task[t].pc \in {"call", "wait"}
          /\ task[t].pc = "wait" => task[t].resp # "ok"
          /\ G!Onward(t) \/ G!Answer(t)
          /\ G!Doubt(t) /\ zones' = zones
      BY <2>1 DEF G!Unavailable, G!Timeout, G!TakeRefusal, G!Failed, G!At,
         G!outside
    <3>2. cache'.zones = cache.zones
      BY <2>1 DEF G!Unavailable, G!Timeout, G!TakeRefusal, Types
    <3>3. ManualCommands' /\ AloneOnZones'
            /\ \A u \in Tasks : AnswerInForce(u)'
      BY <3>1, CallEnds, ZonesKept DEF G!OnZones, G!At, AnswerInForce
    <3>4. ShownOrChanged'
      <4>1. SUFFICES ASSUME ~unsure'
                     PROVE  \/ cache.zones = zones
                            \/ \E u \in Tasks : Changed(u)'
        BY <3>1, <3>2 DEF ShownOrChanged
      <4>2. ~unsure /\ ~(G!OnZones(t) /\ task[t].step > 1)
        BY <3>1, <4>1 DEF G!Doubt
      <4>3. ~Changed(t)
        BY <3>1, <4>2 DEF Changed, G!OnZones, G!At, G!ZoneOps
      <4>4. \A u \in Tasks \ {t} : Changed(u) => Changed(u)'
        BY <3>1, CallEnds DEF Changed
      <4> QED
        BY <4>2, <4>3, <4>4 DEF ZonesInv, ShownOrChanged
    <3> QED
      BY <3>3, <3>4 DEF ZonesInv
  <2>2. CASE G!TakeResponse(t)
    <3>1. /\ task[t].pc = "wait" /\ task[t].resp = "ok"
          /\ G!Onward(t)
          /\ zones' = zones
      BY <2>2 DEF G!TakeResponse, G!At, G!outside
    <3>2. ManualCommands' /\ AloneOnZones'
            /\ \A u \in Tasks : AnswerInForce(u)'
      BY <3>1, CallEnds, ZonesKept DEF G!OnZones, G!At, AnswerInForce
    <3>3. CASE G!Service(t) = "zonesState"
      <4>1. unsure' = ~task[t].alone /\ cache'.zones = task[t].value
        BY <2>2, <3>3 DEF G!TakeResponse, Types
      <4>2. ~unsure' => cache'.zones = zones'
        BY <3>1, <3>3, <4>1 DEF ZonesInv, AnswerInForce
      <4> QED
        BY <3>2, <4>2 DEF ZonesInv, ShownOrChanged
    <3>4. CASE G!Service(t) # "zonesState"
      <4>1. unsure' = unsure /\ cache'.zones = cache.zones
        BY <2>2, <3>4 DEF G!TakeResponse, Types
      <4>2. \A u \in Tasks \ {t} : Changed(u) => Changed(u)'
        BY <3>1, CallEnds DEF Changed
      <4>3. Changed(t) => Changed(t)'
        <5>1. SUFFICES ASSUME Changed(t)
                       PROVE  Changed(t)'
          OBVIOUS
        <5>2. task[t].op \in DOMAIN G!ServiceCalls
              /\ task[t].step \in 1..Len(G!ServiceCalls[task[t].op])
          BY <3>1 DEF Types, Calling
        <5>3. /\ Len(G!ServiceCalls[task[t].op]) = 2
              /\ task[t].step # 2
          BY <3>4, <5>1, <5>2, CallsOnZones DEF Changed, G!Service
        <5>4. task[t].step = 1
          BY <5>2, <5>3
        <5>5. task' = [task EXCEPT ![t].pc = "call", ![t].step = @ + 1,
                                   ![t].resp = "none", ![t].value = FALSE]
          BY <3>1, <5>3, <5>4 DEF G!Onward
        <5>6. task'[t].pc = "call"
          BY <5>5 DEF Types, TaskTypes
        <5>7. task'[t].step = task[t].step + 1 /\ task'[t].op = task[t].op
          BY <3>1, <5>6, CallEnds
        <5> QED
          BY <5>1, <5>4, <5>6, <5>7 DEF Changed
      <4> QED
        BY <3>1, <3>2, <4>1, <4>2, <4>3 DEF ZonesInv, ShownOrChanged
    <3> QED
      BY <3>3, <3>4
  <2>3. CASE G!Call(t)
    <3>1. /\ task[t].pc = "call"
          /\ task' = [task EXCEPT ![t].pc = "wait", ![t].resp = "sent"]
          /\ UNCHANGED <<cache, zones, unsure>>
      BY <2>3 DEF G!Call, G!At, G!outside, G!history
    <3>2. /\ task'[t].pc = "wait" /\ task'[t].resp = "sent"
          /\ task'[t].op = task[t].op /\ task'[t].step = task[t].step
          /\ task'[t].alone = task[t].alone
      BY <3>1 DEF Types, TaskTypes
    <3>3. \A u \in Tasks \ {t} : task'[u] = task[u]
      BY <3>1 DEF Types
    <3>4. ManualCommands' /\ AloneOnZones'
            /\ \A u \in Tasks : AnswerInForce(u)'
      BY <3>1, <3>2, <3>3, ZonesKept DEF G!OnZones, G!At, AnswerInForce
    <3>5. \A u \in Tasks : Changed(u) => Changed(u)'
      BY <3>1, <3>2, <3>3 DEF Changed
    <3> QED
      BY <3>1, <3>4, <3>5 DEF ZonesInv, ShownOrChanged
  <2>4. CASE G!CheckManual(t) \/ G!PublishTeleop(t)
    <3>1. /\ task[t].pc \in {"gate", "publish"}
          /\ G!Goto(t, "publish") \/ G!Answer(t)
          /\ UNCHANGED <<cache, zones, unsure>>
      BY <2>4 DEF G!CheckManual, G!Gate, G!PublishTeleop, G!At, G!outside,
         G!history
    <3>2. task[t].op = "setManualCmd"
      BY <3>1 DEF ZonesInv, ManualCommands
    <3>3. \A u \in Tasks \ {t} : task'[u] = task[u]
      BY <3>1 DEF G!Goto, G!Answer, Types
    <3>4. \/ task'[t].pc = "idle"
          \/ task'[t].pc = "publish" /\ task'[t].op = "setManualCmd"
      BY <3>1, <3>2 DEF G!Goto, G!Answer, G!IdleTask, Types, TaskTypes
    <3>5. ManualCommands' /\ AloneOnZones'
            /\ \A u \in Tasks : AnswerInForce(u)'
      BY <3>1, <3>3, <3>4, ZonesKept
         DEF G!OnZones, G!At, G!ZoneOps, AnswerInForce
    <3>6. \A u \in Tasks : Changed(u) => Changed(u)'
      BY <3>2, <3>3 DEF Changed
    <3> QED
      BY <3>1, <3>5, <3>6 DEF ZonesInv, ShownOrChanged
  <2> QED
    BY <1>2, <2>1, <2>2, <2>3, <2>4 DEF G!TaskStep
<1>3. ASSUME NEW t \in Tasks, G!Serve(t)
      PROVE  ZonesInv'
  <2>1. /\ task[t].pc = "wait" /\ task[t].resp = "sent"
        /\ UNCHANGED cache
    BY <1>3 DEF G!Serve, G!At
  <2>0. PICK v \in G!Values, ok \in BOOLEAN :
          /\ G!Effect(G!Service(t), task[t].arg, ok, v)
          /\ task' = [task EXCEPT ![t].resp = IF ok THEN "ok" ELSE "refused",
                                  ![t].value = v]
          /\ unsure' = (unsure \/ (~ok /\ zones' # zones))
    BY <1>3 DEF G!Serve
  <2>2. \A u \in Tasks \ {t} : task'[u] = task[u]
    BY <2>0 DEF Types
  <2>3. /\ task'[t].pc = "wait"
        /\ task'[t].resp = (IF ok THEN "ok" ELSE "refused")
        /\ task'[t].op = task[t].op /\ task'[t].step = task[t].step
        /\ task'[t].alone = task[t].alone /\ task'[t].value = v
    BY <2>0, <2>1 DEF Types, TaskTypes
  <2>4. \A u \in Tasks : Changed(u) => Changed(u)'
    BY <2>1, <2>2, <2>3 DEF Changed
  <2>5. G!Service(t)' = G!Service(t)
    BY <2>3 DEF G!Service
  <2>6. \A u \in Tasks : G!OnZones(u)' <=> G!OnZones(u)
    BY <2>1, <2>2, <2>3 DEF G!OnZones, G!At
  <2>7. CASE G!Service(t) \in {"setGeojson", "reload"}
    <3>1. task[t].op \in {"setZones", "reloadZones"}
      BY <2>1, <2>7, CallsOnZones DEF Types, Calling, G!Service
    <3>2. G!OnZones(t)
      BY <2>1, <3>1 DEF G!OnZones, G!At, G!ZoneOps
    <3>3. ManualCommands' /\ AloneOnZones'
      BY <2>2, <2>3, <2>6 DEF ZonesInv, ManualCommands, AloneOnZones
    <3>4. ASSUME NEW u \in Tasks
          PROVE  AnswerInForce(u)'
      <4>1. CASE u = t
        BY <2>5, <2>7, <4>1 DEF AnswerInForce
      <4>2. CASE u # t
        <5>1. SUFFICES ASSUME task[u].pc = "wait", task[u].alone,
                              G!Service(u) = "zonesState"
                       PROVE  FALSE
          BY <2>2, <4>2 DEF AnswerInForce, G!Service
        <5>2. task[u].op \in G!ZoneOps
          BY <5>1, CallsOnZones DEF Types, Calling, G!Service
        <5>3. G!OnZones(u)
          BY <5>1, <5>2 DEF G!OnZones, G!At
        <5> QED
          BY <3>2, <4>2, <5>1, <5>3 DEF ZonesInv, AloneOnZones
      <4> QED
        BY <4>1, <4>2
    <3>5. ShownOrChanged'
      <4>1. CASE ok
        BY <2>3, <3>1, <4>1 DEF ShownOrChanged, Changed
      <4>2. CASE ~ok /\ zones' = zones
        BY <2>0, <2>1, <2>4, <4>2 DEF ZonesInv, ShownOrChanged
      <4>3. CASE ~ok /\ zones' # zones
        BY <2>0, <4>3 DEF ShownOrChanged
      <4> QED
        BY <4>1, <4>2, <4>3
    <3> QED
      BY <3>3, <3>4, <3>5 DEF ZonesInv
  <2>8. CASE G!Service(t) \notin {"setGeojson", "reload"}
    <3>1. UNCHANGED zones
      BY <2>0, <2>8 DEF G!Effect, G!outside
    <3>2. AnswerInForce(t)'
      <4>1. SUFFICES ASSUME G!Service(t) = "zonesState"
                     PROVE  v = zones
        BY <2>3, <2>5, <3>1 DEF AnswerInForce
      <4> QED
        BY <2>0, <4>1 DEF G!Effect
    <3>3. ManualCommands' /\ AloneOnZones'
            /\ \A u \in Tasks : AnswerInForce(u)'
      BY <2>2, <2>3, <2>6, <3>1, <3>2, ZonesKept
    <3> QED
      BY <2>0, <2>1, <2>4, <3>1, <3>3 DEF ZonesInv, ShownOrChanged
  <2> QED
    BY <2>7, <2>8
<1>4. ASSUME NEW r \in late, G!ServeLate(r)
      PROVE  ZonesInv'
  <2> DEFINE alone == r.service = "manualMode"
  <2>1. /\ task' = G!Alone(task, alone) /\ cache' = cache
        /\ unsure' = (unsure \/ ~alone)
        /\ alone => zones' = zones
    BY <1>4 DEF G!ServeLate, G!Effect
  <2>2. alone \in BOOLEAN
    OBVIOUS
  <2> HIDE DEF alone
  <2>3. \A u \in Tasks :
          /\ task'[u].pc = task[u].pc /\ task'[u].op = task[u].op
          /\ task'[u].step = task[u].step
          /\ task'[u].resp = task[u].resp /\ task'[u].value = task[u].value
    BY <2>1, <2>2, AloneChangesNothing DEF Types
  <2>4. \A u \in Tasks : task'[u].alone => alone /\ task[u].alone
    BY <2>1, <2>2, AloneRecorded DEF Types
  <2>5. ManualCommands' /\ AloneOnZones'
    BY <2>3, <2>4 DEF ZonesInv, ManualCommands, AloneOnZones, G!OnZones, G!At
  <2>6. \A u \in Tasks : AnswerInForce(u)'
    BY <2>1, <2>3, <2>4 DEF ZonesInv, AnswerInForce, G!Service
  <2>7. ShownOrChanged'
    BY <2>1, <2>3 DEF ZonesInv, ShownOrChanged, Changed
  <2> QED
    BY <2>5, <2>6, <2>7 DEF ZonesInv
<1>5. CASE G!NavPublishesTelemetry \/ G!NavTakesTeleop \/ G!OnNavTelemetry
           \/ G!SettlesQuiet \/ UNCHANGED G!vars
  <2>1. UNCHANGED <<task, zones, unsure>> /\ cache'.zones = cache.zones
    BY <1>5 DEF G!NavPublishesTelemetry, G!NavTakesTeleop, G!OnNavTelemetry,
       G!SettlesQuiet, G!vars, G!outside, G!history, Types
  <2> QED
    BY <2>1 DEF ZonesInv, ManualCommands, AloneOnZones, AnswerInForce,
       ShownOrChanged, Changed, G!OnZones, G!At, G!Service
<1> QED
  BY <1>1, <1>2, <1>3, <1>4, <1>5 DEF G!Next

-----------------------------------------------------------------------------
(* The pages change by their own steps only, whichever operations they ask *)
(* for.                                                                    *)
LEMMA GatewayFrame ==
  /\ Init => G!Init
  /\ [Next]_vars => [G!Next]_(G!vars)
BY DEF Init, Next, vars, Recorder, Manual, Zones, Camera, Pages, Datum, Follow,
   Streams, Status, gatewayVars, G!vars, G!outside, G!channels, G!history

(* Once manual mode is off and nothing made under it is on its way, only a *)
(* request to enter it brings it back, however many pages send commands    *)
(* and whatever nav_command_server serves late.                            *)
THEOREM ManualAlwaysOnlyOnRequest == Spec => []ManualOnlyOnRequest
<1>1. Init => Types /\ QuietInv
  BY GatewayFrame, GatewayInit
<1>2. Types /\ QuietInv /\ [Next]_vars => (Types /\ QuietInv)'
  BY GatewayFrame, GatewayTypes, GatewayQuiet
<1>3. QuietInv => ManualOnlyOnRequest
  BY DEF QuietInv, QuietNodes, ManualOnlyOnRequest, G!ManualOnlyOnRequest
<1> QED
  BY <1>1, <1>2, <1>3, PTL DEF Spec

(* The zones the pages are shown are in force, unless requests overlapped, *)
(* one was served after its timeout, or a refresh failed, for any number   *)
(* of threads and documents.                                               *)
THEOREM ShownZonesAlwaysInForce == Spec => []ShownZonesAreInForce
<1>1. Init => Types /\ ZonesInv
  BY GatewayFrame, GatewayInit, ZonesInit
<1>2. Types /\ ZonesInv /\ [Next]_vars => (Types /\ ZonesInv)'
  BY GatewayFrame, GatewayTypes, ZonesNext
<1>3. ZonesInv => ShownZonesAreInForce
  BY DEF ZonesInv, ShownOrChanged, Changed, ShownZonesAreInForce,
     G!ShownZonesAreInForce, G!OnZones, G!At, G!ZoneOps
<1> QED
  BY <1>1, <1>2, <1>3, PTL DEF Spec

-----------------------------------------------------------------------------
(* The recorder.                                                           *)
NoRecordingApart == NoRecording \notin Recordings

(* A process a thread holds, or that is stored, was started; and it has    *)
(* ended where the thread saw it end. A start holds one once it spawned it. *)
HeldInv ==
  /\ stored # NoRecording => process[stored] # "new"
  /\ \A t \in Tasks : job[t].proc # NoRecording =>
       process[job[t].proc] # "new"
  /\ \A t \in Tasks : job[t].pc \in {"storeFailed", "finish"} =>
       ~R!Running(job[t].proc)
  /\ \A t \in Tasks : job[t].pc = "spawn" => job[t].proc = NoRecording
  /\ \A t \in Tasks : job[t].pc \in {"poll", "storeFailed", "store"} =>
       job[t].proc \in Recordings

(* While nothing has overlapped, a start is alone and what it started is   *)
(* the only recording; and a stop that found none running is right.        *)
AloneInv ==
  ~overlapped => \A t \in Tasks :
    /\ job[t].pc \in R!Starting =>
         /\ \A u \in Tasks \ {t} : job[u].pc = "idle"
         /\ \A r \in Recordings : process[r] = "running" => job[t].proc = r
    /\ job[t].pc = "clear" =>
         \A r \in Recordings : process[r] # "running"

RecorderInv == R!TypeOK /\ HeldInv /\ AloneInv /\ R!RunningIsReachable

LEMMA RecorderInit ==
  ASSUME NoRecordingApart, R!Init
  PROVE  RecorderInv
<1> USE DEF R!Init, R!IdleTask
<1>1. R!TypeOK
  BY DEF R!TypeOK, R!Labels
<1>2. HeldInv /\ AloneInv /\ R!RunningIsReachable
  BY DEF HeldInv, AloneInv, R!RunningIsReachable, R!Starting, R!Running
<1> QED
  BY <1>1, <1>2 DEF RecorderInv

LEMMA RecorderNext ==
  ASSUME NoRecordingApart, RecorderInv, [R!Next]_(R!vars)
  PROVE  RecorderInv'
<1> USE NoRecordingApart
    DEF NoRecordingApart, RecorderInv, R!TypeOK, HeldInv, AloneInv,
       R!RunningIsReachable,
        R!HeldBy, R!Running, R!At, R!Goto, R!Answer, R!IdleTask, R!Labels,
           R!Starting, R!Overlaps
<1>1. ASSUME NEW t \in Tasks, R!StartRosbag(t)
      PROVE  RecorderInv'
  <2>1. R!TypeOK'
    BY <1>1 DEF R!StartRosbag
  <2>2. HeldInv'
    BY <1>1 DEF R!StartRosbag
  <2>3. AloneInv'
    BY <1>1 DEF R!StartRosbag
  <2>4. R!RunningIsReachable'
    BY <1>1 DEF R!StartRosbag
  <2> QED
    BY <2>1, <2>2, <2>3, <2>4
<1>2. ASSUME NEW t \in Tasks, R!StopRosbag(t)
      PROVE  RecorderInv'
  <2>1. R!TypeOK'
    BY <1>2 DEF R!StopRosbag
  <2>2. HeldInv'
    BY <1>2 DEF R!StopRosbag
  <2>3. AloneInv'
    <3> SUFFICES ASSUME ~overlapped'
                 PROVE  (AloneInv!2)'
      OBVIOUS
    <3>1. ~overlapped /\ \A u \in Tasks : job[u].pc \notin R!Starting
      BY <1>2 DEF R!StopRosbag
    <3>2. ~R!Running(stored) =>
            \A r \in Recordings : process[r] # "running"
      BY <3>1
    <3> QED
      BY <1>2, <3>1, <3>2 DEF R!StopRosbag
  <2>4. R!RunningIsReachable'
    BY <1>2 DEF R!StopRosbag
  <2> QED
    BY <2>1, <2>2, <2>3, <2>4
<1>3. ASSUME NEW t \in Tasks, R!Spawn(t)
      PROVE  RecorderInv'
  <2>1. R!TypeOK'
    BY <1>3 DEF R!Spawn
  <2>2. HeldInv'
    BY <1>3 DEF R!Spawn
  <2>3. AloneInv'
    BY <1>3 DEF R!Spawn
  <2>4. R!RunningIsReachable'
    BY <1>3 DEF R!Spawn
  <2> QED
    BY <2>1, <2>2, <2>3, <2>4
<1>4. ASSUME NEW t \in Tasks, R!SpawnFails(t)
      PROVE  RecorderInv'
  <2>1. R!TypeOK'
    BY <1>4 DEF R!SpawnFails
  <2>2. HeldInv'
    BY <1>4 DEF R!SpawnFails
  <2>3. AloneInv'
    BY <1>4 DEF R!SpawnFails
  <2>4. R!RunningIsReachable'
    BY <1>4 DEF R!SpawnFails
  <2> QED
    BY <2>1, <2>2, <2>3, <2>4
<1>5. ASSUME NEW t \in Tasks, R!PollStarted(t)
      PROVE  RecorderInv'
  BY <1>5 DEF R!PollStarted
<1>6. ASSUME NEW t \in Tasks, R!StoreFailed(t)
      PROVE  RecorderInv'
  BY <1>6 DEF R!StoreFailed
<1>7. ASSUME NEW t \in Tasks, R!Store(t)
      PROVE  RecorderInv'
  <2>1. R!TypeOK'
    <3>1. job[t].proc \in Recordings
      BY <1>7 DEF R!Store
    <3>2. waiters' \subseteq Recordings
      BY <1>7, <3>1 DEF R!Store
    <3>3. /\ stored' = job[t].proc /\ lastError' = FALSE
          /\ job' = [job EXCEPT ![t] = [pc |-> "idle", proc |-> NoRecording]]
          /\ UNCHANGED <<process, overlapped>>
      BY <1>7 DEF R!Store
    <3> QED
      BY <3>1, <3>2, <3>3
  <2>2. HeldInv'
    BY <1>7 DEF R!Store
  <2>3. AloneInv'
    BY <1>7 DEF R!Store
  <2>4. R!RunningIsReachable'
    BY <1>7 DEF R!Store
  <2> QED
    BY <2>1, <2>2, <2>3, <2>4
<1>8. ASSUME NEW t \in Tasks, R!ClearStored(t)
      PROVE  RecorderInv'
  BY <1>8 DEF R!ClearStored
<1>9. ASSUME NEW t \in Tasks, R!Interrupt(t)
      PROVE  RecorderInv'
  BY <1>9 DEF R!Interrupt
<1>10. ASSUME NEW t \in Tasks, R!Terminate(t)
      PROVE  RecorderInv'
  BY <1>10 DEF R!Terminate
<1>16. ASSUME NEW t \in Tasks, R!StopFails(t)
      PROVE  RecorderInv'
  BY <1>16 DEF R!StopFails
<1>11. ASSUME NEW t \in Tasks, R!WaitEnds(t)
      PROVE  RecorderInv'
  BY <1>11 DEF R!WaitEnds
<1>12. ASSUME NEW t \in Tasks, R!FinishStop(t)
      PROVE  RecorderInv'
  <2>1. R!TypeOK'
    BY <1>12 DEF R!FinishStop
  <2>2. /\ job' = [job EXCEPT ![t] = [pc |-> "idle", proc |-> NoRecording]]
        /\ job[t].pc = "finish"
        /\ UNCHANGED <<process, waiters, overlapped>>
    BY <1>12 DEF R!FinishStop
  <2>3. stored' = stored \/ (stored' = NoRecording /\ ~R!Running(stored))
    <3>1. CASE stored = job[t].proc
      <4>1. ~R!Running(job[t].proc)
        BY <2>2
      <4>2. stored' = NoRecording
        BY <1>12, <3>1 DEF R!FinishStop
      <4> QED
        BY <3>1, <4>1, <4>2
    <3>2. CASE stored # job[t].proc
      BY <1>12, <3>2 DEF R!FinishStop
    <3> QED
      BY <3>1, <3>2
  <2>4. HeldInv'
    BY <2>2, <2>3
  <2>5. AloneInv'
    BY <2>2
  <2>6. R!RunningIsReachable'
    BY <2>2, <2>3
  <2> QED
    BY <2>1, <2>4, <2>5, <2>6
<1>13. ASSUME NEW r \in Recordings, R!Waiter(r)
      PROVE  RecorderInv'
  <2>1. R!TypeOK'
    BY <1>13 DEF R!Waiter
  <2>2. HeldInv'
    BY <1>13 DEF R!Waiter
  <2>3. AloneInv'
    BY <1>13 DEF R!Waiter
  <2>4. R!RunningIsReachable'
    BY <1>13 DEF R!Waiter
  <2> QED
    BY <2>1, <2>2, <2>3, <2>4
<1>14. ASSUME NEW r \in Recordings, R!RecordingEnds(r)
      PROVE  RecorderInv'
  BY <1>14 DEF R!RecordingEnds
<1>15. CASE UNCHANGED R!vars
  BY <1>15 DEF R!vars
<1> QED
  BY <1>1, <1>2, <1>3, <1>4, <1>5, <1>6, <1>7, <1>8, <1>9, <1>10, <1>11,
     <1>12, <1>13, <1>14, <1>15, <1>16 DEF R!Next, R!TaskStep

-----------------------------------------------------------------------------
(* The recordings change by their own steps only.                          *)
LEMMA RecorderFrame ==
  /\ Init => R!Init
  /\ [Next]_vars => [R!Next]_(R!vars)
BY DEF Init, Next, vars, Recorder, Manual, Zones, Camera, Pages, Datum, Follow,
   Streams, Status, recorderVars, R!vars

(* Unless a start ran together with another request, every recording that  *)
(* runs can be stopped, however many threads serve the pages.              *)
THEOREM RunningIsAlwaysReachable ==
  ASSUME NoRecordingApart
  PROVE  Spec => []RunningIsReachable
<1>1. Init => RecorderInv
  BY RecorderFrame, RecorderInit
<1>2. RecorderInv /\ [Next]_vars => RecorderInv'
  BY RecorderFrame, RecorderNext
<1>3. RecorderInv => RunningIsReachable
  BY DEF RecorderInv, RunningIsReachable
<1> QED
  BY <1>1, <1>2, <1>3, PTL DEF Spec
=============================================================================
