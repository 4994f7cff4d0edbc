--------------------------- MODULE RealtimeCycle ---------------------------
(***************************************************************************)
(* One control cycle on two threads.  The controller_manager reads the     *)
(* hardware, calls update(), which ticks ICON's clock and waits, and       *)
(* writes the hardware.  The runtime's thread takes the tick, runs         *)
(* ReadStatus(), lets ICON compute, runs ApplyCommand() and answers.  When *)
(* the answer misses its deadline update() resets the clock and goes on,   *)
(* and from then on the two threads use the loaned interfaces at once.     *)
(*                                                                         *)
(* External: the controller_manager's loop, the clock and the runtime's    *)
(* thread (icon_shared_memory).  Reset() is assumed to promise nothing: it  *)
(* may succeed while the runtime's thread is still inside a handler.       *)
(***************************************************************************)
EXTENDS Integers, Sequences

CONSTANTS
    NumDofs,            \* how many dof_names there are
    StateTypes,         \* parameter reference_and_state_interfaces
    CommandTypes,       \* parameter command_interfaces
    MaxCycles           \* bound on the cycles of the controller_manager

\* "The second interface should be the derivative of the first."
InterfaceTypes == {<<"position">>, <<"position", "velocity">>}
ASSUME InterfacesAssumption ==
    /\ NumDofs \in Nat \ {0}
    /\ StateTypes \in InterfaceTypes
    /\ CommandTypes \in InterfaceTypes
ASSUME CyclesAssumption == MaxCycles \in Nat \ {0}

VARIABLES
    manager,    \* what the controller_manager's thread does next
    cycle,      \* how often it has read the hardware
    claimed,    \* the interfaces are loaned to the plugin
    tick,       \* the clock: "none", "pending", "expired", "taken" or "done"
    runtime,    \* what the runtime's thread does next
    joint,      \* the joint its loop is at
    now,        \* what ReadStatus() got from Now()
    position,   \* joint_position_state: per joint, a value
    velocity,   \* joint_velocity_state
    stamp,      \* what both are UpdatedAt(), 0 if never
    current,    \* the cycle whose tick the runtime has taken
    command,    \* the cycle ICON computed joint_position_command in
    commanded,  \* per command interface, the value it holds
    applied,    \* history: the cycle ApplyCommand() last wrote, or Failed
    late        \* history: update() has given up on the current cycle

managerVars == <<manager, cycle, claimed>>
statusVars == <<now, position, velocity, stamp>>
commandVars == <<command, commanded, applied>>
vars == <<managerVars, tick, runtime, joint, statusVars, current, commandVars, late>>

Failed == -1
Cycles == 0..MaxCycles
Joints == 0..(NumDofs - 1)
Types == {"position", "velocity"}
\* A value: the joint and kind it is of, and the cycle it is from.
Value(i, type, at) == [of |-> <<i, type>>, at |-> at]
Values == [of : Joints \X Types, at : Cycles]

-----------------------------------------------------------------------------
(* The loaned interfaces *)

\* Mutant of InterfaceNames: the loops are nested the other way round.
InterfaceNamesByType(types) ==
    [k \in 0..(NumDofs * Len(types) - 1) |-> <<k % NumDofs, types[(k \div NumDofs) + 1]>>]

\* command_interface_configuration() and state_interface_configuration(): all
\* interfaces of the first joint, then those of the next.
InterfaceNames(types) ==
    [k \in 0..(NumDofs * Len(types) - 1) |-> <<k \div Len(types), types[(k % Len(types)) + 1]>>]

StateNames == InterfaceNames(StateTypes)
CommandNames == InterfaceNames(CommandTypes)
Stride(types) == Len(types)
HasVelocity(types) == Stride(types) > 1
PositionIndex(i, types) == i * Stride(types)
VelocityIndex(i, types) == 1 + (i * Stride(types))

Loops == {"positions", "velocities", "set"}

TypeOK ==
    /\ manager \in {"read", "update", "wait", "reset", "write"}
    /\ cycle \in Cycles
    /\ claimed \in BOOLEAN
    /\ tick \in {"none", "pending", "expired", "taken", "done"}
    /\ runtime \in Loops \cup {"idle", "read_status", "stamp", "compute", "apply", "lost"}
    /\ joint \in Joints
    /\ now \in Cycles /\ stamp \in Cycles
    /\ position \in [Joints -> Values] /\ velocity \in [Joints -> Values]
    /\ current \in Cycles
    /\ command \in Cycles
    /\ commanded \in [DOMAIN CommandNames -> Values]
    /\ applied \in Cycles \cup {Failed}
    /\ late \in BOOLEAN

\* Ros2HwmImpl::Init() advertises the three ICON interfaces, with zeroes.
Init ==
    /\ manager = "read" /\ cycle = 0 /\ claimed = TRUE
    /\ tick = "none" /\ runtime = "idle" /\ joint = 0
    /\ now = 0 /\ stamp = 0
    /\ position = [i \in Joints |-> Value(i, "position", 0)]
    /\ velocity = [i \in Joints |-> Value(i, "velocity", 0)]
    /\ current = 0 /\ command = 0
    /\ commanded = [k \in DOMAIN CommandNames |-> [of |-> CommandNames[k], at |-> 0]]
    /\ applied = 0 /\ late = FALSE

-----------------------------------------------------------------------------
(* The controller_manager's thread *)

runtimeUnchanged == UNCHANGED <<runtime, joint, statusVars, current, commandVars>>

\* A plugin that is inactive has no update().
HardwareRead ==
    /\ manager = "read"
    /\ cycle < MaxCycles
    /\ cycle' = cycle + 1
    /\ manager' = IF claimed THEN "update" ELSE "write"
    /\ UNCHANGED <<claimed, tick, late>> /\ runtimeUnchanged

\* Controllers are switched between two updates.
SwitchPlugin ==
    /\ manager = "read"
    /\ claimed' = ~claimed
    /\ UNCHANGED <<manager, cycle, tick, late>> /\ runtimeUnchanged

\* Mutant of Tick: it does not wait for the answer.
TickWithoutWaiting ==
    /\ manager = "update" /\ tick = "none"
    /\ tick' = "pending"
    /\ manager' = "write"
    /\ UNCHANGED <<cycle, claimed, late>> /\ runtimeUnchanged

\* TickBlockingWithDeadline()
Tick ==
    /\ manager = "update" /\ tick = "none"
    /\ tick' = "pending"
    /\ manager' = "wait"
    /\ UNCHANGED <<cycle, claimed, late>> /\ runtimeUnchanged

\* A clock that could not be reset refuses.
TickRefused ==
    /\ manager = "update" /\ tick # "none"
    /\ manager' = "reset"
    /\ UNCHANGED <<cycle, claimed, tick, late>> /\ runtimeUnchanged

TickSucceeds ==
    /\ manager = "wait" /\ tick = "done"
    /\ tick' = "none"
    /\ manager' = "write"
    /\ UNCHANGED <<cycle, claimed, late>> /\ runtimeUnchanged

\* The deadline is one period after the start of update().  A tick nobody has
\* taken can still be.
DeadlineMissed ==
    /\ manager = "wait"
    /\ manager' = "reset"
    /\ tick' = IF tick = "pending" THEN "expired" ELSE tick
    /\ late' = (late \/ runtime # "idle")
    /\ UNCHANGED <<cycle, claimed>> /\ runtimeUnchanged

\* update() returns OK either way and tries again in the next cycle.
Reset ==
    /\ manager = "reset"
    /\ manager' = "write"
    /\ tick' \in {"none", tick}
    /\ UNCHANGED <<cycle, claimed, late>> /\ runtimeUnchanged

\* The robot gets what the command interfaces hold.
HardwareWrite ==
    /\ manager = "write"
    /\ manager' = "read"
    /\ UNCHANGED <<cycle, claimed, tick, late>> /\ runtimeUnchanged

ManagerStep ==
    \/ HardwareRead \/ SwitchPlugin \/ Tick \/ TickRefused \/ TickSucceeds
    \/ DeadlineMissed \/ Reset \/ HardwareWrite

-----------------------------------------------------------------------------
(* The runtime's thread *)

Goto(from, to) == runtime = from /\ runtime' = to

TakeTick ==
    /\ tick \in {"pending", "expired"}
    /\ Goto("idle", "read_status")
    /\ tick' = "taken"
    /\ current' = cycle
    /\ late' = (tick = "expired")
    /\ UNCHANGED <<managerVars, joint, statusVars, commandVars>>

\* The answer to the tick, if it is still waited for.
EndCycle ==
    /\ runtime' = "idle"
    /\ tick' = IF tick = "taken" THEN "done" ELSE tick
    /\ UNCHANGED <<managerVars, current, late>>

\* Mutant of NextJoint: the loop runs once too often.
NextJointPastEnd(loop, then) ==
    IF joint < NumDofs
    THEN joint' = joint + 1 /\ runtime' = loop
    ELSE joint' = 0 /\ runtime' = then

\* The loop goes on with the next joint, or comes to its end.
NextJoint(loop, then) ==
    IF joint + 1 \in Joints
    THEN joint' = joint + 1 /\ runtime' = loop
    ELSE joint' = 0 /\ runtime' = then

\* The interfaces are there when ReadStatus() looks; it notes the time first.
BeginReadStatus ==
    /\ claimed
    /\ Goto("read_status", "positions")
    /\ now' = cycle
    /\ joint' = 0
    /\ UNCHANGED <<managerVars, tick, position, velocity, stamp, current, commandVars, late>>

CopyPosition ==
    /\ runtime = "positions" /\ claimed
    /\ position' = [position EXCEPT ![joint] =
         [of |-> StateNames[PositionIndex(joint, StateTypes)], at |-> cycle]]
    /\ NextJoint("positions", IF HasVelocity(StateTypes) THEN "velocities" ELSE "stamp")
    /\ UNCHANGED <<managerVars, tick, now, velocity, stamp, current, commandVars, late>>

CopyVelocity ==
    /\ runtime = "velocities" /\ claimed
    /\ velocity' = [velocity EXCEPT ![joint] =
         [of |-> StateNames[VelocityIndex(joint, StateTypes)], at |-> cycle]]
    /\ NextJoint("velocities", "stamp")
    /\ UNCHANGED <<managerVars, tick, now, position, stamp, current, commandVars, late>>

\* Mutant of StampStatus: the time is taken when all values have been read.
StampStatusAtEnd ==
    /\ Goto("stamp", "compute")
    /\ stamp' = cycle
    /\ UNCHANGED <<managerVars, tick, joint, now, position, velocity, current, commandVars, late>>

StampStatus ==
    /\ Goto("stamp", "compute")
    /\ stamp' = now
    /\ UNCHANGED <<managerVars, tick, joint, now, position, velocity, current, commandVars, late>>

\* No interfaces, or one without a value: the values copied so far stay.
ReadStatusFails ==
    /\ \/ runtime = "read_status" /\ ~claimed
       \/ runtime \in {"positions", "velocities"}
    /\ joint' = 0
    /\ EndCycle
    /\ UNCHANGED <<statusVars, commandVars>>

\* ICON may be moving the robot, and may have a command.
IconComputes ==
    /\ runtime = "compute"
    /\ command' \in {command, current}
    /\ \/ /\ runtime' = "apply"
          /\ UNCHANGED <<managerVars, tick, current, late>>
       \/ EndCycle
    /\ UNCHANGED <<joint, statusVars, commanded, applied>>

\* Mutant of BeginApplyCommand: the command need not be of this cycle.
BeginApplyAnyCommand ==
    /\ claimed
    /\ Goto("apply", "set")
    /\ joint' = 0
    /\ UNCHANGED <<managerVars, tick, statusVars, current, commandVars, late>>

\* The status does not block, the command is of this cycle, of the right size,
\* and the interfaces are there.
BeginApplyCommand ==
    /\ claimed
    /\ command = current
    /\ Goto("apply", "set")
    /\ joint' = 0
    /\ UNCHANGED <<managerVars, tick, statusVars, current, commandVars, late>>

\* The command interfaces with joint i's values of the command in them.
Commanded(i) ==
    [k \in DOMAIN CommandNames |->
        IF k = PositionIndex(i, CommandTypes) THEN Value(i, "position", command)
        ELSE IF HasVelocity(CommandTypes) /\ k = VelocityIndex(i, CommandTypes)
        THEN Value(i, "velocity", command)
        ELSE commanded[k]]

SetCommand ==
    /\ runtime = "set" /\ claimed
    /\ commanded' = Commanded(joint)
    /\ IF joint + 1 \in Joints
       THEN /\ joint' = joint + 1
            /\ UNCHANGED <<managerVars, tick, runtime, current, late, applied>>
       ELSE /\ joint' = 0
            /\ applied' = current
            /\ EndCycle
    /\ UNCHANGED <<statusVars, command>>

\* Mutant of ApplyCommandFails: a set_value() that fails is not noticed.
ApplyCommandFailsSilently ==
    /\ runtime \in {"apply", "set"}
    /\ joint' = 0
    /\ applied' = IF runtime = "set" THEN current ELSE Failed
    /\ EndCycle
    /\ UNCHANGED <<statusVars, command, commanded>>

\* A blocking status, no command, a wrong size, no interfaces; or a set_value()
\* that fails, for position or velocity.  What has been set stays.
ApplyCommandFails ==
    /\ runtime \in {"apply", "set"}
    /\ joint' = 0
    /\ \/ UNCHANGED commanded
       \/ /\ runtime = "set" /\ HasVelocity(CommandTypes)
          /\ commanded' = [commanded EXCEPT ![PositionIndex(joint, CommandTypes)] =
                             Value(joint, "position", command)]
    /\ applied' = Failed
    /\ EndCycle
    /\ UNCHANGED <<statusVars, command>>

\* Interfaces that have been taken back are indexed: anything may follow, and
\* the model does not follow the thread any further.
UseReleased ==
    /\ runtime \in Loops /\ ~claimed
    /\ runtime' = "lost"
    /\ UNCHANGED <<managerVars, tick, joint, statusVars, current, commandVars, late>>

RuntimeStep ==
    \/ TakeTick \/ BeginReadStatus \/ CopyPosition \/ CopyVelocity \/ StampStatus
    \/ ReadStatusFails \/ IconComputes \/ BeginApplyCommand \/ SetCommand
    \/ ApplyCommandFails \/ UseReleased

Next == ManagerStep \/ RuntimeStep

Spec == Init /\ [][Next]_vars

-----------------------------------------------------------------------------
(* Properties *)

\* What ICON is given is of the joint and kind it takes it for, and never older
\* than it is stamped, although a late ReadStatus() copies while the hardware is
\* read again, and one that fails leaves a part of its values behind.
StatusIsAsNewAsItsStamp ==
    \A i \in Joints :
        /\ position[i].of = <<i, "position">> /\ position[i].at >= stamp
        /\ HasVelocity(StateTypes) =>
             velocity[i].of = <<i, "velocity">> /\ velocity[i].at >= stamp

\* When no ApplyCommand() is under way, and the last one did not fail, every
\* interface holds its own value of one and the same command, that of the cycle
\* in which it was applied.
CommandIsWhole ==
    (runtime \notin {"set", "lost"} /\ applied # Failed) =>
        commanded = [k \in DOMAIN CommandNames |-> [of |-> CommandNames[k], at |-> applied]]

\* Lockstep: what the robot is sent is one whole command, and one of this cycle
\* was computed from what was read in this cycle; only a missed deadline or a
\* failed ApplyCommand() can make it otherwise.
Lockstep ==
    [][HardwareWrite =>
        \/ late
        \/ applied = Failed
        \/ /\ \A k \in DOMAIN CommandNames : commanded[k].at = applied
           /\ applied = cycle => stamp = cycle]_vars

\* The loaned interfaces are not used after they have been taken back, unless a
\* deadline was missed: the check for emptiness alone would not exclude it.
ReleasedOnlyIfLate == runtime = "lost" => late

=============================================================================
