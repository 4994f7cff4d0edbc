-------------------------- MODULE HwmWithFanucNode --------------------------
(***************************************************************************)
(* The hardware module and the FANUC node together: the node executes the  *)
(* clear_faults requests of the module, and what it publishes is what the  *)
(* module's subscription receives.  Its process may die in the middle of   *)
(* anything and be started again; nothing it had cached or was asked       *)
(* survives, but what it has asked of the robot does.                      *)
(*                                                                         *)
(* Both components take their steps unchanged.  ServeClearFaults of        *)
(* Ros2HwmImpl, which answers anything at any time, is replaced by the     *)
(* node's ClearFaults(), and PublishStatus by its publications.            *)
(***************************************************************************)
EXTENDS Ros2HwmImpl

CONSTANTS
    Conditions,     \* the conditions the robot may be in
    MaxRequests,    \* bound on the requests waiting at each robot service
    MaxCrashes      \* bound on the deaths of the vendor node

ASSUME CrashesAssumption == MaxCrashes \in Nat

VARIABLES
    nodeStatus, nodeOutbox, nodePublished,          \* the node's cache, copies, topic
    robot, sample, clear, pending, nodeReply, recovered,
    nodeUp,         \* the vendor node's process runs
    crashes         \* how often it has died

Node == INSTANCE FanucOperationalStateNode WITH
    status <- nodeStatus, outbox <- nodeOutbox, published <- nodePublished,
    reply <- nodeReply

ASSUME NodeAssumption ==
    /\ Conditions \subseteq Node!RobotStatuses
    /\ MaxRequests \in Nat \ {0}

nodeVars == <<nodeStatus, nodeOutbox, nodePublished, robot, sample, clear,
              pending, nodeReply, recovered>>
processVars == <<nodeUp, crashes>>
systemVars == <<vars, nodeVars, processVars>>

SystemTypeOK ==
    /\ TypeOK
    /\ Node!TypeOK
    /\ nodeUp \in BOOLEAN
    /\ crashes \in 0..MaxCrashes

SystemInit ==
    /\ Init
    /\ Node!Init
    /\ nodeUp = TRUE
    /\ crashes = 0

-----------------------------------------------------------------------------
(* What each component does on its own *)

RobotChanges ==
    /\ Node!RobotChanges \/ \E s \in Node!Services : Node!Serve(s)
    /\ UNCHANGED <<vars, processVars>>

SampleRobotStatus ==
    /\ nodeUp
    /\ Node!SampleRobotStatus
    /\ UNCHANGED <<vars, processVars>>

RobotStatusCallback ==
    /\ nodeUp
    /\ Node!RobotStatusCallback
    /\ UNCHANGED <<vars, processVars>>

PublishTimer ==
    /\ nodeUp
    /\ Node!PublishTimer
    /\ UNCHANGED <<vars, processVars>>

\* The node's ClearFaults() between its first step and its answer.
RecoveryGoesOn ==
    /\ Node!SendReset \/ Node!ResetSucceeds \/ Node!SendSwitch
    /\ UNCHANGED <<vars, processVars>>

\* A Trigger is only sent while wait_for_service() finds the node.
ModuleStep ==
    /\ \/ HandlerStep \/ RuntimeStep \/ RealtimeStep
       \/ ServeSetHwState \/ ServeSwitchController \/ HardwareError
       \/ BeginSetStatus \/ EndSetStatus
    /\ queue'["clear_faults"] # queue["clear_faults"] => nodeUp
    /\ UNCHANGED <<nodeVars, processVars>>

-----------------------------------------------------------------------------
(* Where they meet *)

\* Mutant of BeginRecovery: the service is in a reentrant callback group.
BeginRecoveryReentrant ==
    /\ nodeUp
    /\ queue["clear_faults"] # <<>>
    /\ clear' = "send_reset"
    /\ recovered' = "no"
    /\ UNCHANGED <<vars, processVars, nodeStatus, nodeOutbox, nodePublished, robot,
                   sample, pending, nodeReply>>

\* The service callback takes up the oldest request, which keeps its place in
\* the queue until it is answered.
BeginRecovery ==
    /\ nodeUp
    /\ queue["clear_faults"] # <<>>
    /\ Node!BeginClearFaults
    /\ UNCHANGED <<vars, processVars>>

RecoveryAnswered(ok) ==
    /\ Answer("clear_faults", ok)
    /\ UNCHANGED <<managerVars, processVars>>

RecoverySucceeds == Node!ClearFaultsSucceeds /\ RecoveryAnswered(TRUE)

RecoveryFails ==
    /\ Node!ServiceUnavailable \/ Node!RequestFails \/ Node!RequestTimesOut
    /\ RecoveryAnswered(FALSE)

\* What the node publishes is the newest message of the subscription, if the
\* module has one.
NodePublishes ==
    /\ Node!PublishTopicCopy
    /\ IF TopicStatuses = {} THEN UNCHANGED vars
       ELSE PublishStatus /\ topic'[Len(topic')] = nodeOutbox["topic"]
    /\ UNCHANGED processVars

-----------------------------------------------------------------------------
(* The vendor node's process *)

\* With the process go the cache, the copies, the publisher, the samples and the ClearFaults()
\* under way, and the module's requests.  Those the robot has stay with it.
NodeDies ==
    /\ nodeUp
    /\ crashes < MaxCrashes
    /\ VendorNodeDies
    /\ nodeUp' = FALSE
    /\ crashes' = crashes + 1
    /\ nodeStatus' = "UNKNOWN"
    /\ nodeOutbox' = [t \in Node!Threads |-> NoMessage]
    /\ nodePublished' = NoMessage
    /\ sample' = <<>>
    /\ clear' = "idle"
    /\ nodeReply' = "none"
    /\ UNCHANGED <<robot, pending, recovered>>

NodeRestarts ==
    /\ ~nodeUp
    /\ nodeUp' = TRUE
    /\ UNCHANGED <<vars, nodeVars, crashes>>

RecoveryStep == RecoveryGoesOn \/ RecoverySucceeds \/ RecoveryFails
NodeStep ==
    \/ SampleRobotStatus \/ RobotStatusCallback \/ PublishTimer \/ NodePublishes
    \/ BeginRecovery \/ RecoveryStep
ProcessStep == NodeDies \/ NodeRestarts
SystemNext == RobotChanges \/ NodeStep \/ ModuleStep \/ ProcessStep

SystemSpec == SystemInit /\ [][SystemNext]_systemVars

\* The fairness of the two components, of the node only while it runs.  The
\* executor of the module neglects no message for ever.
SystemFairness ==
    /\ Fairness
    /\ SF_vars(BeginSetStatus)
    /\ WF_systemVars(SampleRobotStatus)
    /\ SF_systemVars(RobotStatusCallback)
    /\ WF_systemVars(NodePublishes)

FairSystemSpec == SystemSpec /\ SystemFairness

-----------------------------------------------------------------------------
(* Properties *)

\* When ClearFaults() of the module goes on to re-activate hardware and
\* controllers, the robot's alarms have been reset and its control is back with
\* ROS 2, no recovery is under way, and neither node nor robot has anything of
\* an earlier attempt left that could undo it: although module and node give up
\* on each other's answers, retry, and the node may have died meanwhile.
ReactivationMeansRecovered ==
    (hwm = "CLEARING_FAULTS" /\ call \in {"ActivateHardware", "SwitchOn"}
        /\ HasClearFaultsService) =>
        /\ recovered = "control"
        /\ clear = "idle"
        /\ \A s \in Node!Services : pending[s] = 0

\* Once nothing is on its way to it, the box says what the node knows: no word
\* overtakes another between the node's cache and the module's, and none is lost
\* but to a newer one, although cache, copy, history and box are each written
\* under a lock of their own.  A module that was created since the node last spoke
\* has still to be told.
BoxKeepsUpWithNode ==
    (/\ TopicStatuses # {} /\ nodePublished # NoMessage
     /\ nodeOutbox["topic"] = NoMessage /\ topic = <<>> /\ setting = NoMessage)
    => box \in {nodeStatus, "UNKNOWN"}

\* A condition of the robot that lasts is what the module believes in the end,
\* by the documented table, however many messages, samples and copies it passes,
\* as long as the node is not left dead.  A FAULTED that outlives its recovery,
\* or the last word of a node that died, does so for a while only.
BoxFollowsRobot ==
    \A c \in Conditions :
        <>[](robot = c /\ nodeUp /\ hwm # "SHUT_DOWN")
            => <>[](box = Node!Documented(c))

\* The robot does not stay motion enabled while its condition is one that blocks
\* commands: not because the check is skipped in the cycles that find the box
\* locked, nor because EnableMotion() accepts a DISABLED, nor because a node that
\* was started again says UNKNOWN, which blocks nothing.
LastingFaultStopsMotion ==
    [](\/ <>(nodeUp = FALSE \/ Node!Documented(robot) \notin CommandBlocking)
       \/ <>(hwm # "MOTION_ENABLED"))

\* The system is an implementation of its components: the module's specification
\* holds with this node for a vendor node, and the node takes only the steps of
\* its own specification until it dies.
ComponentsImplemented ==
    /\ Spec
    /\ Node!Init
    /\ [][Node!Next \/ NodeDies]_nodeVars

=============================================================================
