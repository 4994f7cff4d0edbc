# Verification of icon_hwm_controller

TLA+ modules, TLC runs and TLAPS proofs for this repository: the ROS 2
controller plugin that makes a `ros2_control` robot a hardware module of
Intrinsic's realtime control service (ICON), and the nodes that translate the
error handling of UR, FANUC and KHI robots for it. Paths below are relative to
the repository root, `core/` stands for `icon_hwm_controller/` and `<vendor>/`
for `icon_hwm_controller_examples/<vendor>_ros2_icon_hwm/`.

## 1. The system

```
 ICON ──shared memory── HardwareModuleRuntime ──handlers──> Ros2HwmImpl ──> controller_manager
                              ▲                          ▲        │          switch_controller,
               tick           │                operational_status │          set_hardware_component_state
   update() of IconHwmController                         │   clear_faults
                                                     vendor node ──services──> robot driver
```

### Inventory

| Component | State | Operations | Modelled in |
|---|---|---|---|
| `Ros2HwmImpl` (`core/src/ros2_hwm_impl.cpp`) | the box `latest_operational_status_`, the service clients | handlers `Prepare`, `EnableMotion`, `DisableMotion`, `ClearFaults`, `Shutdown` on the runtime's thread; `Activate`, `Deactivate`, `ReadStatus`, `ApplyCommand` on its realtime thread; `OnOperationalStatus` on the executor | `Ros2HwmImpl`; `ReadStatus` and `ApplyCommand` value by value in `RealtimeCycle`; with a vendor node in `HwmWithFanucNode` |
| `IconHwmController` (`core/src/icon_hwm_controller.cpp`) | `clock_`, `hwm_runtime_`, `init_error_state_`, the publish timer | `on_init`, `on_configure`, `on_cleanup` (lifecycle thread), `update` (realtime), `PublishCurrentHwmState` (timer) | `IconHwmController`; `update` and the interface lists in `RealtimeCycle`; what a missing `update` does to the module in `Ros2HwmImpl` |
| UR node (`ur/src/ur_operational_state_node.cpp`) | `robot_status_` (three optional values), `operational_status_` | three topic callbacks, timer, `clear_faults` | `UrRobot`, `UrOperationalStateNode`, `UrClearFaults` |
| FANUC node | `operational_status_` | topic callback, timer, `clear_faults` | `FanucOperationalStateNode`; together with the module, and with a process that may die, in `HwmWithFanucNode` |
| KHI node | `operational_status_` | topic callback, timer, `clear_faults` | `KhiOperationalStateNode` |
| messages (`icon_hwm_controller_msgs`) | – | – | `OperationalStatus`; module states in `Ros2HwmImpl` |
| `entrypoint.py`, `launch.py`, vendor launch files | – | start-up, one thread | not modelled |
| `HardwareModuleRuntime`, `RealtimeClock`, `RealtimeThreadSafeBox` (icon_shared_memory), `controller_manager`, robot drivers | outside the repository | – | external actions, from how this code uses them |

### What is hard

* **Requests outlive their callers.** Every service call of `Ros2HwmImpl` and of
  the nodes waits a few seconds on a future and gives up; nothing withdraws the
  request. A later handler, or a retry, meets the effects of an earlier one.
* **Chains of calls** in which each step may fail (`ClearFaults`, `Shutdown`,
  the UR recovery), with results that are ignored.
* **The status box** is written by the executor, read with a lock by handlers
  and *polled* by the realtime thread, whose check is skipped when it finds the
  lock taken.
* **Publication outside the lock** by two threads of a vendor node.
* **Stale information**: the UR recovery acts for up to a minute on a copy of
  the status; a status is combined from three topics heard at different times.
* **Half-built objects**: `on_configure()` can fail after each of the objects it
  makes, the runtime holds a raw pointer to the clock, and the publish timer runs
  on another thread throughout.
* **Lost information**: the KHI driver publishes an error once, the UR driver a value
  when it changes, and a node's subscriptions are volatile: what was published before
  it was started is never heard.
* **Late cycles**: when a tick misses its deadline, `update()` goes on while the
  runtime's thread may still be inside `ReadStatus()` or `ApplyCommand()`.
* **Processes that come and go**: a vendor node that dies takes along its cached
  status and the requests it had, and says `UNKNOWN` when it is started again,
  which blocks nothing.

## 2. Modules

| Module | What it is |
|---|---|
| `OperationalStatus` | the states of the message and which of them block what |
| `Ros2HwmImpl` | the hardware module with runtime, controller_manager and status topic around it |
| `Ros2HwmImpl_proofs` | its theorems |
| `IconHwmController`, `IconHwmController_proofs` | the plugin's lifecycle with its publish timer, and its theorems |
| `RealtimeCycle`, `RealtimeCycle_proofs` | `update()`, `ReadStatus()` and `ApplyCommand()` on two threads, value by value, and its theorems; instance `MCRealtimeCycle` |
| `HwmWithFanucNode`, `HwmWithFanucNode_proofs` | `Ros2HwmImpl` composed with the FANUC node, whose process may die, and its theorems; instance `MCHwmWithFanucNode` |
| `ManagedRobot` | abstract: what a hardware module promises of the robot it manages |
| `StatusFeed` | abstract: what a vendor node with one source promises the module |
| `StatusPublisher` | what the vendor nodes share: cached status, copies, publication |
| `KhiOperationalStateNode` | the KHI node with its driver |
| `FanucOperationalStateNode` | the FANUC node with its robot; `MCFanucOperationalStateNode` is its instance |
| `UrRobot` | safety modes, robot modes and the UR decision table |
| `UrOperationalStateNode` | monitoring half of the UR node; instance `MCUrOperationalStateNode` |
| `UrClearFaults` | recovery half of the UR node; instance `MCUrClearFaults` |
| `KhiOperationalStateNode_proofs`, `FanucOperationalStateNode_proofs`, `UrOperationalStateNode_proofs`, `UrClearFaults_proofs` | their theorems |

Operators whose comment begins with "Mutant of" are faulty variants of the
definition they name; no specification uses them. Each property is checked to
fail when its mutant takes the definition's place (`PROJECT.json`, `mutants`).

### Ros2HwmImpl

A handler is a chain of *calls*. `hwm` is the state the runtime reports, `call`
the call the handler is in, `sent` that its request is out, `reply` the answer
on its way. `NextCall(c)` is the body of the handlers: which call follows when
`c` returned OK, the handler being known from `hwm`. `BeginHandler`, `Continue`,
`ReturnOk` and `ReturnError` are the handler's start, its next call and its two
ways out; a realtime error may overtake `EnableMotion()` and `DisableMotion()`.

| Action | Code |
|---|---|
| `Prepare`, `ClearFaults`, `EnableMotion`, `DisableMotion`, `Shutdown` | the handlers' first step |
| `ResetClock` | `clock->Reset(20 s)`, OK or not |
| `SendRequest`, `ServiceUnavailable`, `ReceiveReply`, `RequestTimesOut` | `wait_for_service`, `async_send_request`, `wait_for(5 s)` and the test of the response, of each of the three services |
| `LockStatus`, `CopyStatus`, `CheckStatus` | `latest_operational_status_.get()` (lock, copy) and the test for `FAULTED` |
| `ReadStatusFails`, `ApplyCommandRejected`, `ApplyCommandWrites`, `ApplyCommandFails` | the realtime handlers with their status check and error returns |
| `CycleTimesOut` | the cycle missed because the plugin, and with it `update()`, is inactive |
| `BeginSetStatus`, `EndSetStatus` | `OnOperationalStatus`: lock, store, unlock |
| `Create` | `Create()` in a new `on_configure()` after a clean shutdown |
| `Activate`, `Deactivate` | the no-op realtime handlers: only the reported state changes |
| `VendorNodeDies` | external: the vendor node's process ends, and with it its requests and its publisher |
| `ServeClearFaults`, `ServeSetHwState`, `ServeSwitchController`, `HardwareError`, `PublishStatus` | external |

The queues keep *every* request until it is executed, those given up on too. An
answer reaches the handler only when it answers the request it waits for, which
is the last of the queue (`Awaited`). `BEST_EFFORT` switching with an OK means
that what was to stop has stopped and says nothing of what was to start; in a
failure any part may have been done.

### IconHwmController

`lifecycle` is the node's state, `step` the program counter of `on_configure()`,
`on_cleanup()` or the destructor, `callback` that of `PublishCurrentHwmState()`.
`BeginConfigure`, `ChecksPass`, `CreateClock`, `CreateRuntime` and `Run` are
`on_configure()` in order, `ConfigureFails` is its error return at any of the
steps after the first; `BeginCleanup`, `Stop` or `StopFails`, `DropRuntime` and
`DropClock` are `on_cleanup()`; `Unload`, `DestroyRuntime` and `DestroyClock` the
destruction of the members in the order the header declares. A timer that was
cancelled fires no more, but a callback that has begun goes on: reading a runtime
that is gone gives any result. A callback that returned `ERROR` leaves a plugin
that can only be unloaded (`finalized`), as `on_error()` is not overridden.

### The vendor nodes

Topic callbacks and timer share one mutually exclusive callback group (thread
`"topic"`), `clear_faults` has another (`"clear"`). `CacheAndCopy` is the
critical section, `PublishCopy` the publication after it, so a copy can be
overtaken. `ClearFaults()` of the KHI and FANUC nodes is a program counter
(`clear`), with the driver's queue of requests not served yet. The UR chain is
`FirstCall`, `SafetyCall` and `After`; `late` are the calls given up on that the
robot may still carry out, each at any time or never. `SafetyCall` and
`FirstCall` read the copy (`snapshot`), never the robot. `outdated` and `overtaken`
are history: the first says that the copied safety mode was wrong or the robot has
changed by itself since it was taken, the second that it has since the answer.

### RealtimeCycle

`manager` is the program counter of the controller_manager's thread (read,
`update()`, write), `runtime` that of the runtime's thread, `joint` the index of
its loop. A value carries the joint and kind it is *of* and the cycle it is *from*,
which is all the properties tell apart: an interface is found by the stride
(`PositionIndex`, `VelocityIndex`) in a list that `InterfaceNames` builds as the
configuration callbacks do.

| Action | Code |
|---|---|
| `Tick`, `TickSucceeds`, `TickRefused`, `DeadlineMissed`, `Reset` | `update()`: `TickBlockingWithDeadline`, its outcomes, the reset of the clock |
| `BeginReadStatus`, `CopyPosition`, `CopyVelocity`, `StampStatus`, `ReadStatusFails` | `ReadStatus()` |
| `BeginApplyCommand`, `SetCommand`, `ApplyCommandFails` | `ApplyCommand()` after its status check, which `Ros2HwmImpl` has |
| `UseReleased` | undefined behaviour: the loop indexes interfaces that are gone |
| `HardwareRead`, `HardwareWrite`, `SwitchPlugin`, `TakeTick`, `IconComputes` | external |

### HwmWithFanucNode

`Ros2HwmImpl` is extended and `FanucOperationalStateNode` instantiated, and both
take their own steps unchanged except where they meet: `BeginRecovery`,
`RecoverySucceeds` and `RecoveryFails` are the node's service callback and replace
the module's external `ServeClearFaults`; `NodePublishes` replaces its external
`PublishStatus`. The request stays at the head of the queue while the node works on
it, as the callback group of the service takes one at a time. `NodeDies` may happen
between any two steps of either; what the node had asked of the robot is still
carried out.

### ManagedRobot

What is left of the module when handlers, queues, timeouts and answers are
forgotten: three phases, the hardware component and the set of active controllers.
`Ros2HwmImpl` implements it under the mapping `Phase`. A request that is executed
late, by whichever handler it was abandoned, must be a step that the abstract robot
may take in its present phase.

### StatusFeed

The topic may lag behind the robot and skip what was brief, but never says what
was not so and never goes back. `FanucOperationalStateNode` implements it under the
mapping `Feed`: the robot's status is the documented one of its condition, what is
coming is the sample on its way, what is known is the cache, and the topic is the
last message. The KHI and UR nodes do not implement it: KHI overwrites its cache
by itself after a reset, and the UR node combines three sources.

## 3. Runs

| Run | Properties | Shows |
|---|---|---|
| `hwm_services` | `SettledWhenReady`, `ShutdownIsFinal`, `DeactivateOnlyWhenReleased`, `RecoveryBeforeReactivation`, `RobotIsManaged`, `HandlersTerminate` | although every wait has a timeout, no late request can undo what a later handler has established, or change the robot while ICON relies on it (`ManagedRobot` is implemented), and every handler ends |
| `system_recovery` | `ReactivationMeansRecovered`, `ComponentsImplemented` | from `ClearFaults()` of the module through that of the node to the robot, with each giving up on the next and a node that dies: the module re-activates only a robot that is recovered; the composition refines its components |
| `system_status` | `BoxKeepsUpWithNode`, `BoxFollowsRobot`, `LastingFaultStopsMotion` | from the robot's condition to the realtime check: no word of the node is lost but to a newer one, what lasts is what the module believes in the end, and a lasting `DISABLED` stops motion in spite of skipped checks and of a restarted node's `UNKNOWN` |
| `realtime_cycle` | `StatusIsAsNewAsItsStamp`, `CommandIsWhole`, `Lockstep`, `ReleasedOnlyIfLate` | nothing ICON gets is older than its stamp; the robot gets whole commands; only a late cycle can break the lockstep or touch released interfaces |
| `khi_node` | `EnabledOnlyAfterReset`, `ErrorIsLostToOverlapOnly`, `ClearFaultsTerminates`, `PublishedCatchesUp` | a reset that failed or timed out never hides an error; the race that `khi_forgotten_error` exhibits is the only way to lose one; the topic catches up with the cache |
| `fanuc_node` | `PublishedIsCurrent`, `FeedImplemented`, `SuccessMeansControlRestored`, `LastingConditionIsReported`, `ClearFaultsTerminates` | the two-step recovery is confirmed only when both steps happened since it began; the node implements `StatusFeed`; the topic ends up saying what the documented table says |
| `ur_node` | `NothingKnownTooEarly`, `QuietMeansCurrent`, `LastingConditionIsReported` | no claim before all topics are heard; no mixture of old and new values survives; a node that missed the last word of a topic says `UNKNOWN` until it is published again |
| `ur_clear_faults` | `RemedyFitsFault`, `SetModeSuccessClearsFault`, `ClearFaultsTerminates` | the chosen remedy fits the fault when the copy is right; success by SetMode is success whatever the copy was, even when every other call failed |
| `icon_hwm_controller` | `ClockOutlivesRuntime`, `CompleteOrClean`, `WorkingIsNotCalledFailed`, `InitFailureIsPublished`, `LastingStateIsPublished` | wherever the lifecycle fails, no runtime is left without its clock and nothing half built is taken for configured or clean; no old error is published for a plugin that works; a failure before there is a runtime, and a state that lasts, are published |

Type correctness is a theorem of every module. `realtime_cycle`, `khi_node`, `ur_node` and
`icon_hwm_controller` check their `TypeOK` too, and `system_recovery` the `SystemTypeOK`
that contains those of `Ros2HwmImpl` and `FanucOperationalStateNode`.
`CompetingAreStopped` and `Inv` of `Ros2HwmImpl` hold in `hwm_services` too but are left
to their theorems: the first follows from `RobotIsManaged`, the second has
the properties of the run for conjuncts.

Three more runs each violate one statement of the documentation or of a comment:

| Run | Statement | Behaviour found |
|---|---|---|
| `hwm_command_while_blocked` | README.md:110, `ApplyCommand()` rejects commands in `FAULTED` and `DISABLED` | the subscription holds the lock while it stores a message, `try_get()` fails, the check is skipped and the joints are commanded although the box said `FAULTED` before |
| `khi_forgotten_error` | KHI README.md:500, a non-empty `error_codes` makes the status `FAULTED` | an error between the reset and the assignment of `ENABLED` is overwritten and not published again |
| `icon_hwm_controller_timer` | icon_hwm_controller.cpp:350, "Stop the state publisher timer" before the runtime is destroyed | `cancel()` does not wait for a callback that is running on the executor's thread: it has passed its null check and uses the runtime after `on_cleanup()` has destroyed it |

The table of state numbers in README.md:103-106 (ENABLED 1, DISABLED 2,
FAULTED 3) differs from `OperationalStatus.msg` (DISABLED 1, FAULTED 2,
ENABLED 3). The modules name the states, so no run is about it. The parameter
`controllers_to_activate` is described as the "controllers to activate during
EnableMotion"; they are started at the end of `Prepare()` and `ClearFaults()`
(`NextCall`), and `EnableMotion()` calls no service. README.md:110 says that
`EnableMotion()` rejects `DISABLED` too; the code rejects `FAULTED` only
(`CheckStatus`, `HandlerBlocking`), and the first cycle with a successful check
then faults the module. A success of `clear_faults` of the UR node that
`resend_robot_program` decides says nothing about the robot: `SetModeSuccessClearsFault`
is about the other way to succeed.

### Bounds

* `hwm_services`: two controllers, one on each list, hardware component and
  `clear_faults` present, one status on the topic, `FAULTED`, so that
  `EnableMotion()` has both outcomes. `MaxQueue = 3`: a request of the
  running handler behind two that were given up on, of the same or of opposite
  kinds, which is every order in which two late requests can meet a third. The
  theorems remove the bound on controllers, parameters and queues for the
  safety properties.
* `hwm_command_while_blocked`: one controller, neither hardware component nor
  `clear_faults`, two messages in transit.
* `system_recovery`: one controller, no status topic, `MaxQueue = 2` (a Trigger
  that was given up on and the retry), two requests at each service of the robot
  (the same one level down), one death of the node, which can be between any two
  steps. The theorems remove all of these bounds.
* `system_status`: neither hardware component nor `clear_faults`, two conditions of the robot
  (one that works, one whose teach pendant is enabled), one message in transit, one
  death. The pendant makes the status `DISABLED`, the harder case: `EnableMotion()`
  accepts it, so that the realtime check alone must stop the motion. The decision
  table is checked and proved for all conditions with the node.
* `realtime_cycle`: two joints with position and velocity, so that a stride that
  is wrong or a loop that stops early is seen; three cycles, so that a late
  handler meets the next read and the next tick and is followed by a good cycle.
  The theorems hold for any number of each.
* `khi_node`: two resets outstanding (a late one and the current one) and two
  messages in transit (an error and the one after its reset); started with and
  without an active error.
* `fanuc_node`: two requests of each kind, one condition for each branch of the
  table, one of them with pendant and alarm together. One message in transit:
  the robot samples its status periodically and a newer sample replaces it.
* `ur_node`: two messages per topic, conditions that differ in one, two and all
  three topics; started in each of them with nothing heard.
* `ur_clear_faults`: one condition for each remedy, one without a remedy, one
  without a connection. `late` is a set: a call carried out twice has the same
  effect as carried out once.

* `icon_hwm_controller`: two clocks, so that an old one can be told from a new
  one, and two module states. Reconfigurations and reloads are unbounded.

### Fairness

* `HandlerStep`, `ClearStep`: a thread with a step to make makes it; every wait
  in them ends by an answer or by a timeout.
* `EndSetStatus`, `PublishTopicCopy`: a critical section or a callback that has
  begun ends.
* `SF(LockStatus)`: a thread that asks for the mutex again and again free gets
  it in the end.
* `SF(ApplyCommandRejected)`: cycles come at a fixed rate and the lock is held
  for the time of one copy; of infinitely many cycles that could find it free,
  one does. Weak fairness is not enough, since each message takes the lock.
* `SF(BeginSetStatus)` (`system_status`): the module's executor takes up a message
  that is there again and again.
* `SF(StatusCallback)`, `SF(RobotStatusCallback)`, `SF(PublishTimer)`: the
  executor picks from the ready callbacks of a group and neglects none for ever.
* `WF(TimerStep)`: the wall timer fires as long as it is set, and its callback
  goes on.
* `WF(SampleRobotStatus)`: the FANUC controller publishes periodically.
* In `system_status` the node's actions are enabled, and so fairly scheduled, only
  while its process runs. Nobody has to start it again: the properties are
  conditional on a node that is up in the end, or that is up whenever it matters.
* Nothing is assumed of services and drivers, of ICON's requests, or of the
  `clear_faults` thread in `ur_node`.

## 4. Theorems

### Ros2HwmImpl

`Ros2HwmImpl_proofs` proves, for every set of controllers, all parameters and
all bounds:

| Theorem | Statement |
|---|---|
| `TypeCorrect` | `Spec => []TypeOK` |
| `Invariance` | `Spec => []Inv` |
| `Settled` | `Spec => []SettledWhenReady` |
| `FinalShutdown` | `Spec => []ShutdownIsFinal` |
| `OrderedRelease` | `Spec => []DeactivateOnlyWhenReleased` |
| `OrderedRecovery` | `Spec => []RecoveryBeforeReactivation` |
| `CompetingStayStopped` | `Spec => []CompetingAreStopped` |
| `ImplementsManagedRobot` | `Spec => RobotIsManaged`: the refinement of `ManagedRobot` |
| `HandlersAreShort` | `Spec => [](StepsLeft \in 0..9) /\ [][HandlersAdvance]_vars` |

They rest on the module's named assumptions only: the plugin is one of
the controllers it activates (`on_init()` adds it), the lists name known
controllers, the parameters have their types.

**The argument.** None of the properties is inductive: that the queues are empty
in `PREPARED` depends on what happened when the last handler received its last
answer. `Inv` adds

* `CallMatchesState`: which calls a handler can be in, and that handlers run one
  at a time, except that a realtime error may fault the module while
  `EnableMotion()` or `DisableMotion()` is in its status check;
* `AwaitedIsLast`: while an answer is awaited the request is the last of its
  queue; once it has arrived the queue is empty. This is the heart: services
  execute in order, so the answer to the last request proves that everything
  given up on before it is done;
* `ActivationOrder`: what the calls that returned OK so far have settled in
  `Prepare()` and `ClearFaults()`;
* `ReleaseOrder`: the same for `Shutdown()`: while the hardware is being
  deactivated, or may be by a late request, no managed controller is active and
  no switch is waiting.

`Managed` leaves out controllers that are on both lists: `Shutdown()` asks for
them to be started and stopped at once. So does `Competing`.

`Managing` carries `CompetingAreStopped`: `StoodDown` begins at the OK of the
request that stops the competing controllers, before the module is ready, and
`OwnRequests` says that each queue holds only requests its service offers, so
that a request at the head of the switch queue is a SwitchOn or a SwitchOff.
While the module is ready that queue is empty, which is why neither a SwitchOn
given up on nor the SwitchOff of `Shutdown()` (it *starts* `ToDeactivate`) comes
up then.

**The refinement.** `ManagedRobot` knows three phases, `changing`, `ready` and
`released`, and no handlers, queues or answers. `Phase` reads them off `hwm`.
A step of a handler, the runtime or the realtime thread changes at most the phase
(`LocalStepManages`, `PhasesInOrder`): it is `GetReady`, `Withdraw`, `Release`,
`TakeAgain` or a stutter, and the invariant gives the two conditions under which
`ManagedRobot` allows the first and the third. A request the controller_manager
executes, a late one included, is a step of the abstract robot in the phase
`changing` (`WorkMeansChanging`: a waiting request and a ready or released module
exclude each other); that the hardware is deactivated only without managed
controllers is `ReleaseOrder`.

**Termination.** `StepsLeft` counts what a handler has still to do: up to three calls,
and of each the request, its answer and the return. Each step of the handler lowers
it (a return because every handler takes its calls in a fixed order, `ReturnsAdvance`),
and no step of the manager, the runtime, the realtime thread or the status callback
raises it. That is the half of `HandlersTerminate` without fairness; that a
handler always has a step to make, and makes it, is left to the run.

### IconHwmController

`IconHwmController_proofs` proves `TypeCorrect`, `PointerIsValid`
(`Spec => []ClockOutlivesRuntime`), `NothingHalfBuilt`
(`Spec => []CompleteOrClean`) and `WorkingIsNotFailed`
(`Spec => []WorkingIsNotCalledFailed`) for any clocks and module states; the
assumptions are that `NoClock` is not a clock and that no state of a runtime is
`INIT_FAILED`. The first two properties speak of states
between transitions; the invariant adds what there is at each step inside one:
`BuiltSoFar` in `on_configure()`, `LeftOver` in `on_cleanup()`, `Destroyed` in the
destructor. Timer and runtime change none of it (`BackgroundInv`). `ErrorIsFinal`
is what keeps an old error off the topic: whoever carries `INIT_FAILED` does so for
a plugin whose error is still recorded, and with an error recorded there is no second
`on_configure()`, because the first returned `ERROR`.

### RealtimeCycle

`RealtimeCycle_proofs` proves, for any number of joints, both interface
configurations and any number of cycles, `IndexMeetsName` (the stride meets the
configured list: integer division by the stride), `TypeCorrect`, `StatusIsFresh`
(`Spec => []StatusIsAsNewAsItsStamp`), `WholeCommand` (`[]CommandIsWhole`),
`ReleasedInterfaces` (`[]ReleasedOnlyIfLate`) and `LockstepHolds`
(`Spec => Lockstep`). The invariant `CycleInv` adds to them

* `ReadSinceNow`: the values the loop has passed are not older than `now`, which
  makes the stamp right when it is set;
* `SetSoFar`: in the loop of `ApplyCommand()` the joints already passed hold the
  command of this cycle, so that the end of the loop makes it whole whatever an
  earlier failure had left;
* `OneAtATime`: unless the cycle is late, a handler runs only while `update()`
  waits for it, hence before `HardwareWrite` and before the plugin is switched;
* `StampedBeforeApplied`: a command that is applied was computed after the status
  of its cycle was stamped.

### HwmWithFanucNode

`HwmWithFanucNode_proofs` proves, for all constants of both components and any
number of deaths, `SystemTypeCorrect`, `ReactivationIsRecovered`
(`SystemSpec => []ReactivationMeansRecovered`), `ImplementsComponents`
(`SystemSpec => ComponentsImplemented`), `SystemKeepsModule` and `BoxKeepsUp`
(`SystemSpec => []BoxKeepsUpWithNode`). `ImplementsComponents` makes every theorem
about `Ros2HwmImpl` one about the system, which `SystemKeepsModule` states: `ServeClearFaults` answers at any time, so the
node's answers are among its steps. The invariant takes `Order` of `Ros2HwmImpl`
and the invariant of the FANUC node as they are proved, and adds
`RequestIsQueued` (a recovery under way has its request in the queue) and
`OkMeansRecovered` (from the arrival of the node's OK to the end of `ClearFaults()`
the robot stays recovered). The link is again that an answer belongs to the last
request: when OK has arrived the queue is empty, so no recovery is under way, and
nothing else disturbs the robot's services.

`BoxKeepsUp` needs one more invariant, `NewestIsPublished`: the newest word the
module has been sent, which is the end of the history, or else the message being
stored, or else the box (`NewestWord`), is the last one the node has published,
or the `UNKNOWN` of a module created since. Taking a message from a full or
almost empty history, storing it and publishing over a full history all leave that
word alone (`BeginSetKeepsWord`, `EndSetKeepsWord`, `PublishedIsNewest`). The
other half, that the last word published is what the node knows, is
`PublishedIsCurrent` of the FANUC node.

### The vendor nodes

For every set of robot conditions and all bounds, from the named assumptions of
the modules (the conditions are conditions of the robot, the bounds are positive):

| Module | Theorem | Statement |
|---|---|---|
| FANUC | `TableIsImplemented` | `ToOperationalStatus(r) = Documented(r)` for every combination of flags |
| | `TopicIsCurrent` | `Spec => []PublishedIsCurrent` |
| | `SuccessIsEarned` | `Spec => SuccessMeansControlRestored` |
| | `ImplementsFeed` | `Spec => FeedImplemented`: the refinement of `StatusFeed` |
| KHI | `ResetIsEarned` | `Spec => EnabledOnlyAfterReset` |
| | `ErrorsAreKept` | `Spec => ErrorIsLostToOverlapOnly` |
| UR monitoring | `TableIsImplemented` | `ToOperationalStatus(r) = Documented(r)` for all modes |
| | `NothingIsKnownTooEarly` | `Spec => []NothingKnownTooEarly` |
| | `QuietIsCurrent` | `Spec => []QuietMeansCurrent` |
| UR recovery | `RemedyIsRight` | `Spec => []RemedyFitsFault` |
| | `SetModeSuccessIsEarned` | `Spec => SetModeSuccessClearsFault` |
| | `ClearFaultsIsShort` | `Spec => [](StepsLeft \in 0..16) /\ [][RecoveryAdvances]_vars` |

and `TypeCorrect` in each of the four modules. The arguments:

* **FANUC.** Only the topic thread copies the status, so a copy is of the
  current status (`CopiesAreCurrent`). For the recovery, `AnswerEndsQueue` says
  that an answer is the one to the last request; hence a confirmed reset leaves
  no reset behind (`AlarmsAreReset`), no late reset can take back the switch of
  control, and a confirmed switch is a switch after that reset
  (`ControlIsRestored`).
  For the refinement each step maps to one of `StatusFeed` or a stutter; that a
  copy is current is what makes `PublishTopicCopy` its `Publish`.
* **KHI.** From the confirmed reset to the assignment of `ENABLED` the error is
  cleared or a new one has occurred (`ResetHolds`); it needs that no answer is
  left over from a `ClearFaults()` that gave up (`AnswerIsAwaited`).
  `ErrorsAreKept` is about single steps and takes `ResetHolds` for the one that
  may lose an error; the topic thread keeps it because the last message, in
  transit or received, decides (`CallbackKeepsError`).
* **UR monitoring.** `KnownMeansHeard` extends the property from the topic to
  the cached status and to the copies of both threads; `InboxTyped` says that
  each topic carries its own kind of value, never `Missing`. For `QuietIsCurrent`
  the last word on each topic, in transit or cached, is the robot's present value
  (`LastWord`) or the topic has never been heard: a topic whose value changes sends
  the new one, and a full history drops its oldest message only. With nothing in
  transit and each topic heard the cache is the condition, and the cached status is
  always the one computed from the cache (`StatusIsOfCache`).
* **UR recovery.** A call can only make a safety mode `NORMAL`
  (`EffectIsGentle`), so while the robot does not change by itself its mode is
  the copied one or `NORMAL` (`StopIsCopiedOrCured`), also when calls of an
  earlier run are carried out late. With `BranchFitsCopy` this gives
  `RemedyWorked`: the call that was chosen cures the mode that is there.
  `RobotWasSet` carries a success of SetMode to the moment it is read; it does not
  depend on the copy, only on the robot not changing by itself after the answer
  (`overtaken`).
  `ClearFaultsIsShort` holds because no branch of the chain makes a call twice:
  `CallsLeft` is at most 8, whatever the calls return.

### Only model-checked

The liveness properties (fairness and ENABLED are beyond the prover; of
`HandlersTerminate` and the UR node's `ClearFaultsTerminates` the decreasing measure is
proved) and the violations.

## 5. Assumptions about external code

* The runtime calls one handler at a time and reports the states of
  `HardwareModuleState.msg`; an error makes it `FAULTED`, an error of
  `Shutdown()` is final. A realtime error faults a module whose cycles run.
* The controller_manager asks the plugin for one transition at a time, finalizes
  it after `ERROR`, and unloads it when it is unconfigured, inactive or finalized.
  A runtime that runs has a state to report; one that does not may have none.
  The publish timer has a thread of its own, as the header says where it explains
  `init_error_state_mutex_`.
* Each service of the controller_manager executes its requests one after the
  other in the order they arrived; the three services are independent.
* A hardware component that fails takes down the plugin, which holds its
  interfaces; other controllers may go with it.
* Nobody but this module asks the controller_manager to switch the controllers of
  its two lists or its hardware component while it runs. `CompetingAreStopped` and
  `ManagedRobot` are about the module's own requests, late ones included.
* `set_hardware_component_state` with OK reached the state it was asked for.
* UR: what each call does when it succeeds (`Effect`). SetMode reaches `RUNNING`
  only when safety allows it; a resent program is reported as sent in any
  condition. The dashboard's answers say nothing else.
* FANUC: the two services serve in order; conditions change freely.
* The clock: `Reset()` is assumed to promise nothing about a handler that is still
  running; a tick nobody has taken may be taken after its deadline. The plugin is
  switched between two updates, on the controller_manager's realtime thread.
* A vendor node's process may end at any time; `wait_for_service()` then fails, and
  requests it had are never answered.
* KHI: an error is published once, when it occurs, as the KHI README says. A node that
  is started while an error is active is not told of it (`missed`).
* UR: the io_and_status_controller publishes a value when it changes, and may publish
  one that has not changed at any time (`PublishAgain`), which nothing obliges it to.
  Nothing is retained for a node that is started later, and a message published before
  the first one of its topic has arrived may be lost, as the subscription may not have
  been matched (`Silent`). From the first message on a topic loses only what a full
  history drops.

## 6. Not modelled

The numbers in a joint value; message texts, logging and the conversion of log
severities; a crash of the plugin's own process, which a read of a destroyed
runtime or of released interfaces may cause (what follows is not modelled);
`entrypoint.py`, whose arithmetic is one expression, and the launch files but for
the processes the FANUC one starts; the shared memory library; build and
containers. `PROJECT.json` lists each part with the reason, and all hazards, the
ones no property covers included.

## 7. What is left

1. `IconHwmController` with `Ros2HwmImpl`: the plugin's lifecycle drives the
   creation and shutdown of the module, whose handlers in turn ask the
   controller_manager to switch the plugin.
2. The UR node in the place of the FANUC node: its chain has no single moment at
   which the robot is recovered, so `ReactivationMeansRecovered` needs another form.
3. An abstract feed for the nodes with two publishing threads, whose topic may go
   back to an older word until the timer fires: `StatusFeed` holds for the FANUC node
   only.
4. Proofs that the chains of one and two calls of the KHI and FANUC nodes get
   shorter with every step, as `HandlersAreShort` and `ClearFaultsIsShort` are for the
   longer ones.
