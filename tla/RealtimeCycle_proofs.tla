------------------------ MODULE RealtimeCycle_proofs ------------------------
(***************************************************************************)
(* What the control cycle guarantees for any number of joints, with and    *)
(* without velocities, and however many deadlines are missed.              *)
(***************************************************************************)
EXTENDS RealtimeCycle, TLAPS

-----------------------------------------------------------------------------
(* The order of the loaned interfaces *)

LEMMA StridesAre ==
    ASSUME NEW types \in InterfaceTypes
    PROVE  \/ /\ Len(types) = 1 /\ types[1] = "position"
              /\ Stride(types) = 1 /\ ~HasVelocity(types)
           \/ /\ Len(types) = 2 /\ types[1] = "position" /\ types[2] = "velocity"
              /\ Stride(types) = 2 /\ HasVelocity(types)
<1>1. \/ Len(types) = 1 /\ types[1] = "position"
      \/ Len(types) = 2 /\ types[1] = "position" /\ types[2] = "velocity"
  <2>1. CASE types = <<"position">>  BY <2>1
  <2>2. CASE types = <<"position", "velocity">>  BY <2>2
  <2>3. QED  BY <2>1, <2>2 DEF InterfaceTypes
<1>2. QED  BY <1>1 DEF Stride, HasVelocity

LEMMA JointsAre ==
    ASSUME NEW i \in Joints
    PROVE  i \in Nat /\ i < NumDofs /\ NumDofs \in Nat \ {0}
BY InterfacesAssumption DEF Joints

\* ReadStatus() and ApplyCommand() index the interfaces by joint and stride; the
\* two configuration functions name them by joint and type: each index meets the
\* interface it is meant for.
THEOREM IndexMeetsName ==
    ASSUME NEW types \in InterfaceTypes, NEW i \in Joints
    PROVE  /\ PositionIndex(i, types) \in DOMAIN InterfaceNames(types)
           /\ InterfaceNames(types)[PositionIndex(i, types)] = <<i, "position">>
           /\ HasVelocity(types) =>
                /\ VelocityIndex(i, types) \in DOMAIN InterfaceNames(types)
                /\ InterfaceNames(types)[VelocityIndex(i, types)] = <<i, "velocity">>
<1>1. CASE Len(types) = 1
  <2>1. Stride(types) = 1 /\ types[1] = "position" /\ ~HasVelocity(types)
    BY <1>1, StridesAre
  <2>2. PositionIndex(i, types) = i  BY <2>1, JointsAre DEF PositionIndex
  <2>3. i \in 0..(NumDofs * 1 - 1) /\ i \div 1 = i /\ (i % 1) + 1 = 1  BY JointsAre
  <2>4. InterfaceNames(types) =
          [k \in 0..(NumDofs * 1 - 1) |-> <<k \div 1, types[(k % 1) + 1]>>]
    BY <1>1 DEF InterfaceNames
  <2>5. QED  BY <2>1, <2>2, <2>3, <2>4
<1>2. CASE Len(types) = 2
  <2>1. Stride(types) = 2 /\ types[1] = "position" /\ types[2] = "velocity"
    BY <1>2, StridesAre
  <2>2. PositionIndex(i, types) = i * 2 /\ VelocityIndex(i, types) = 1 + (i * 2)
    BY <2>1 DEF PositionIndex, VelocityIndex
  <2>0. i \in Nat /\ NumDofs \in Nat /\ i < NumDofs  BY JointsAre
  <2>3. /\ i * 2 \in 0..(NumDofs * 2 - 1)
        /\ (i * 2) \div 2 = i /\ ((i * 2) % 2) + 1 = 1
    BY <2>0
  <2>4. /\ 1 + (i * 2) \in 0..(NumDofs * 2 - 1)
        /\ (1 + (i * 2)) \div 2 = i /\ ((1 + (i * 2)) % 2) + 1 = 2
    <3>1. 1 + (i * 2) \in 0..(NumDofs * 2 - 1)  BY <2>0
    <3>2. (1 + (i * 2)) \div 2 = i  BY <2>0
    <3>3. ((1 + (i * 2)) % 2) + 1 = 2  BY <2>0
    <3>4. QED  BY <3>1, <3>2, <3>3
  <2>5. InterfaceNames(types) =
          [k \in 0..(NumDofs * 2 - 1) |-> <<k \div 2, types[(k % 2) + 1]>>]
    BY <1>2 DEF InterfaceNames
  <2>6. \A k \in 0..(NumDofs * 2 - 1) :
          /\ k \in DOMAIN InterfaceNames(types)
          /\ InterfaceNames(types)[k] = <<k \div 2, types[(k % 2) + 1]>>
    BY <2>5
  <2>7. InterfaceNames(types)[i * 2] = <<i, "position">> /\ i * 2 \in DOMAIN InterfaceNames(types)
    BY <2>1, <2>3, <2>6
  <2>8. /\ InterfaceNames(types)[1 + (i * 2)] = <<i, "velocity">>
        /\ 1 + (i * 2) \in DOMAIN InterfaceNames(types)
    BY <2>1, <2>4, <2>6
  <2>9. QED  BY <2>2, <2>7, <2>8
<1>3. QED  BY <1>1, <1>2, StridesAre

\* The loops leave no interface out.
LEMMA EveryInterfaceIsIndexed ==
    ASSUME NEW types \in InterfaceTypes, NEW k \in DOMAIN InterfaceNames(types)
    PROVE  \E i \in Joints :
             \/ k = PositionIndex(i, types)
             \/ HasVelocity(types) /\ k = VelocityIndex(i, types)
<1>0. NumDofs \in Nat \ {0}  BY InterfacesAssumption
<1>1. CASE Len(types) = 1
  <2>1. k \in 0..(NumDofs * 1 - 1)  BY <1>1 DEF InterfaceNames
  <2>2. k \in Joints  BY <1>0, <2>1 DEF Joints
  <2>3. k = PositionIndex(k, types)  BY <1>1, <2>1, StridesAre DEF PositionIndex
  <2>4. QED  BY <2>2, <2>3
<1>2. CASE Len(types) = 2
  <2>1. k \in 0..(NumDofs * 2 - 1)  BY <1>2 DEF InterfaceNames
  <2>2. k \div 2 \in Joints  BY <1>0, <2>1 DEF Joints
  <2>3. k = (k \div 2) * 2 \/ k = 1 + ((k \div 2) * 2)  BY <2>1
  <2>4. Stride(types) = 2 /\ HasVelocity(types)  BY <1>2, StridesAre
  <2>5. QED  BY <2>2, <2>3, <2>4 DEF PositionIndex, VelocityIndex
<1>3. QED  BY <1>1, <1>2, StridesAre

LEMMA NamesAreTyped ==
    ASSUME NEW types \in InterfaceTypes, NEW k \in DOMAIN InterfaceNames(types)
    PROVE  InterfaceNames(types)[k] \in Joints \X Types
<1>1. PICK i \in Joints : \/ k = PositionIndex(i, types)
                          \/ HasVelocity(types) /\ k = VelocityIndex(i, types)
  BY EveryInterfaceIsIndexed
<1>2. QED  BY <1>1, IndexMeetsName DEF Types

-----------------------------------------------------------------------------
(* The inductive invariant *)

\* What has been read since ReadStatus() began is not older than its time.
ReadSinceNow ==
    /\ stamp =< now /\ now =< cycle
    /\ runtime = "positions" =>
         \A i \in Joints : i < joint => position[i].at >= now
    /\ runtime \in {"velocities", "stamp"} =>
         \A i \in Joints : position[i].at >= now
    /\ runtime = "velocities" =>
         /\ HasVelocity(StateTypes)
         /\ \A i \in Joints : i < joint => velocity[i].at >= now
    /\ runtime = "stamp" /\ HasVelocity(StateTypes) =>
         \A i \in Joints : velocity[i].at >= now

\* The interfaces of the joints ApplyCommand() has come past hold the command.
SetSoFar ==
    /\ \A k \in DOMAIN CommandNames : commanded[k].of = CommandNames[k]
    /\ runtime = "set" =>
         /\ command = current
         /\ \A i \in Joints : i < joint =>
              /\ commanded[PositionIndex(i, CommandTypes)].at = current
              /\ HasVelocity(CommandTypes) =>
                   commanded[VelocityIndex(i, CommandTypes)].at = current

\* Unless it is late the runtime works only while update() waits for it, and the
\* interfaces are loaned for as long as update() is running.
OneAtATime ==
    /\ manager \in {"update", "wait"} => claimed
    /\ tick = "pending" => manager = "wait"
    /\ runtime # "idle" /\ ~late => manager = "wait" /\ tick = "taken"
    /\ runtime = "lost" => late

\* A command that is applied was computed after its cycle's status was stamped.
StampedBeforeApplied ==
    /\ current =< cycle
    /\ runtime \in {"positions", "velocities", "stamp"} => now >= current
    /\ runtime \in {"compute", "apply", "set"} => stamp >= current
    /\ applied =< stamp

CycleInv ==
    /\ TypeOK /\ ReadSinceNow /\ StatusIsAsNewAsItsStamp
    /\ SetSoFar /\ CommandIsWhole /\ OneAtATime /\ StampedBeforeApplied

-----------------------------------------------------------------------------
(* What the steps write *)

LEMMA TypesAre == StateTypes \in InterfaceTypes /\ CommandTypes \in InterfaceTypes
BY InterfacesAssumption

LEMMA ValueIsTyped ==
    ASSUME NEW i \in Joints, NEW type \in Types, NEW at \in Cycles
    PROVE  /\ Value(i, type, at) \in Values
           /\ Value(i, type, at).of = <<i, type>>
           /\ Value(i, type, at).at = at
BY DEF Value, Values

LEMMA CopiesPosition ==
    ASSUME TypeOK, CopyPosition
    PROVE  position' = [position EXCEPT ![joint] = Value(joint, "position", cycle)]
<1>1. joint \in Joints  BY DEF TypeOK
<1>2. StateNames[PositionIndex(joint, StateTypes)] = <<joint, "position">>
  BY <1>1, IndexMeetsName, TypesAre DEF StateNames
<1>3. QED  BY <1>2 DEF CopyPosition, Value

LEMMA CopiesVelocity ==
    ASSUME TypeOK, CopyVelocity, HasVelocity(StateTypes)
    PROVE  velocity' = [velocity EXCEPT ![joint] = Value(joint, "velocity", cycle)]
<1>1. joint \in Joints  BY DEF TypeOK
<1>2. StateNames[VelocityIndex(joint, StateTypes)] = <<joint, "velocity">>
  BY <1>1, IndexMeetsName, TypesAre DEF StateNames
<1>3. QED  BY <1>2 DEF CopyVelocity, Value

\* One round of ApplyCommand()'s loop: joint i gets its values, the others keep
\* theirs, and every interface holds a value of its own.
LEMMA CommandedHolds ==
    ASSUME TypeOK, SetSoFar, NEW i \in Joints
    PROVE  /\ Commanded(i) \in [DOMAIN CommandNames -> Values]
           /\ \A k \in DOMAIN CommandNames :
                /\ Commanded(i)[k].of = CommandNames[k]
                /\ Commanded(i)[k].at \in {command, commanded[k].at}
           /\ Commanded(i)[PositionIndex(i, CommandTypes)].at = command
           /\ HasVelocity(CommandTypes) =>
                Commanded(i)[VelocityIndex(i, CommandTypes)].at = command
<1> DEFINE p == PositionIndex(i, CommandTypes)
           v == VelocityIndex(i, CommandTypes)
<1>1. /\ p \in DOMAIN CommandNames /\ CommandNames[p] = <<i, "position">>
      /\ HasVelocity(CommandTypes) =>
           v \in DOMAIN CommandNames /\ CommandNames[v] = <<i, "velocity">>
  BY IndexMeetsName, TypesAre DEF CommandNames
<1>2. /\ Value(i, "position", command) \in Values
      /\ Value(i, "position", command).of = <<i, "position">>
      /\ Value(i, "position", command).at = command
      /\ Value(i, "velocity", command) \in Values
      /\ Value(i, "velocity", command).of = <<i, "velocity">>
      /\ Value(i, "velocity", command).at = command
  BY ValueIsTyped DEF TypeOK, Types
<1>3. commanded \in [DOMAIN CommandNames -> Values]  BY DEF TypeOK
<1>4. \A k \in DOMAIN CommandNames : commanded[k].of = CommandNames[k]  BY DEF SetSoFar
<1> HIDE DEF p, v
<1>5. Commanded(i) = [k \in DOMAIN CommandNames |->
        IF k = p THEN Value(i, "position", command)
        ELSE IF HasVelocity(CommandTypes) /\ k = v
        THEN Value(i, "velocity", command)
        ELSE commanded[k]]
  BY DEF Commanded, p, v
<1>6. ASSUME NEW k \in DOMAIN CommandNames
      PROVE  /\ Commanded(i)[k] \in Values
             /\ Commanded(i)[k].of = CommandNames[k]
             /\ Commanded(i)[k].at \in {command, commanded[k].at}
  <2>1. CASE k = p  BY <1>1, <1>2, <1>5, <2>1
  <2>2. CASE k # p /\ HasVelocity(CommandTypes) /\ k = v  BY <1>1, <1>2, <1>5, <2>2
  <2>3. CASE k # p /\ ~(HasVelocity(CommandTypes) /\ k = v)  BY <1>3, <1>4, <1>5, <2>3
  <2>4. QED  BY <2>1, <2>2, <2>3
<1>7. Commanded(i)[p].at = command  BY <1>1, <1>2, <1>5
<1>8. HasVelocity(CommandTypes) => Commanded(i)[v].at = command
  <2>1. CASE v = p  BY <1>7, <2>1
  <2>2. CASE v # p  BY <1>1, <1>2, <1>5, <2>2
  <2>3. QED  BY <2>1, <2>2
<1>9. Commanded(i) \in [DOMAIN CommandNames -> Values]  BY <1>5, <1>6
<1>10. QED  BY <1>6, <1>7, <1>8, <1>9 DEF p, v

\* When the loop has come past the last joint, every interface holds the command.
LEMMA SetAllIsWhole ==
    ASSUME NEW held \in [DOMAIN CommandNames -> Values], NEW at,
           \A k \in DOMAIN CommandNames : held[k].of = CommandNames[k],
           \A i \in Joints :
             /\ held[PositionIndex(i, CommandTypes)].at = at
             /\ HasVelocity(CommandTypes) =>
                  held[VelocityIndex(i, CommandTypes)].at = at
    PROVE  held = [k \in DOMAIN CommandNames |-> [of |-> CommandNames[k], at |-> at]]
<1>1. ASSUME NEW k \in DOMAIN CommandNames
      PROVE  held[k] = [of |-> CommandNames[k], at |-> at]
  <2>1. PICK i \in Joints : \/ k = PositionIndex(i, CommandTypes)
                            \/ HasVelocity(CommandTypes) /\ k = VelocityIndex(i, CommandTypes)
    BY EveryInterfaceIsIndexed, TypesAre DEF CommandNames
  <2>2. held[k].at = at  BY <2>1
  <2>3. held[k] \in Values  OBVIOUS
  <2>4. QED  BY <2>2, <2>3 DEF Values
<1>2. QED  BY <1>1

-----------------------------------------------------------------------------
(* Type correctness *)

LEMMA TypeInit == Init => TypeOK
<1> SUFFICES ASSUME Init PROVE TypeOK  OBVIOUS
<1>1. 0 \in Cycles /\ 0 \in Joints
  BY InterfacesAssumption, CyclesAssumption DEF Cycles, Joints
<1>2. position \in [Joints -> Values] /\ velocity \in [Joints -> Values]
  BY <1>1, ValueIsTyped DEF Init, Types
<1>3. commanded \in [DOMAIN CommandNames -> Values]
  <2>1. \A k \in DOMAIN CommandNames : [of |-> CommandNames[k], at |-> 0] \in Values
    BY <1>1, NamesAreTyped, TypesAre DEF CommandNames, Values
  <2>2. QED  BY <2>1 DEF Init
<1>4. QED  BY <1>1, <1>2, <1>3 DEF Init, TypeOK, Loops

LEMMA TypeManager == TypeOK /\ ManagerStep => TypeOK'
<1> SUFFICES ASSUME TypeOK, ManagerStep PROVE TypeOK'  OBVIOUS
<1>1. UNCHANGED <<runtime, joint, statusVars, current, commandVars>>
  BY DEF ManagerStep, HardwareRead, SwitchPlugin, Tick, TickRefused, TickSucceeds,
         DeadlineMissed, Reset, HardwareWrite, runtimeUnchanged
<1>2. /\ manager' \in {"read", "update", "wait", "reset", "write"}
      /\ cycle' \in Cycles
      /\ tick' \in {"none", "pending", "expired", "taken", "done"}
  BY CyclesAssumption DEF TypeOK, Cycles, ManagerStep, HardwareRead, SwitchPlugin, Tick,
     TickRefused, TickSucceeds, DeadlineMissed, Reset, HardwareWrite
<1>3. claimed' \in BOOLEAN /\ late' \in BOOLEAN
  BY Zenon DEF TypeOK, ManagerStep, HardwareRead, SwitchPlugin, Tick, TickRefused,
     TickSucceeds, DeadlineMissed, Reset, HardwareWrite
<1>4. QED  BY <1>1, <1>2, <1>3 DEF TypeOK, statusVars, commandVars

\* The steps of the runtime's thread that copy nothing.
LEMMA TypeControl ==
    ASSUME TypeOK, \/ TakeTick \/ BeginReadStatus \/ StampStatus \/ ReadStatusFails
                   \/ IconComputes \/ BeginApplyCommand \/ UseReleased
    PROVE  TypeOK'
<1>1. 0 \in Joints  BY InterfacesAssumption DEF Joints
<1>2. UNCHANGED <<managerVars, position, velocity, commanded, applied>>
  BY DEF TakeTick, BeginReadStatus, StampStatus, ReadStatusFails, IconComputes,
         BeginApplyCommand, UseReleased, EndCycle, statusVars, commandVars
<1>3. /\ tick' \in {"none", "pending", "expired", "taken", "done"}
      /\ runtime' \in Loops \cup {"idle", "read_status", "stamp", "compute", "apply", "lost"}
  BY DEF TypeOK, Loops, Goto, TakeTick, BeginReadStatus, StampStatus, ReadStatusFails,
         IconComputes, BeginApplyCommand, UseReleased, EndCycle
<1>4. /\ joint' \in Joints /\ now' \in Cycles /\ stamp' \in Cycles
      /\ current' \in Cycles /\ command' \in Cycles
  BY <1>1 DEF TypeOK, TakeTick, BeginReadStatus, StampStatus, ReadStatusFails,
     IconComputes, BeginApplyCommand, UseReleased, EndCycle, statusVars, commandVars
<1>5. late' \in BOOLEAN
  BY Zenon DEF TypeOK, TakeTick, BeginReadStatus, StampStatus, ReadStatusFails,
     IconComputes, BeginApplyCommand, UseReleased, EndCycle
<1>6. QED  BY <1>2, <1>3, <1>4, <1>5 DEF TypeOK, managerVars

LEMMA TypeCopy ==
    ASSUME TypeOK, CopyPosition \/ (CopyVelocity /\ HasVelocity(StateTypes))
    PROVE  TypeOK'
<1>1. 0 \in Joints /\ joint \in Joints /\ cycle \in Cycles
  BY InterfacesAssumption DEF TypeOK, Joints
<1>2. Value(joint, "position", cycle) \in Values /\ Value(joint, "velocity", cycle) \in Values
  BY <1>1, ValueIsTyped DEF Types
<1>3. position' \in [Joints -> Values] /\ velocity' \in [Joints -> Values]
  <2>1. CASE CopyPosition  BY <1>2, <2>1, CopiesPosition DEF CopyPosition, TypeOK
  <2>2. CASE CopyVelocity /\ HasVelocity(StateTypes)
    BY <1>2, <2>2, CopiesVelocity DEF CopyVelocity, TypeOK
  <2>3. QED  BY <2>1, <2>2
<1>4. joint' \in Joints /\ runtime' \in {"positions", "velocities", "stamp"}
  BY <1>1 DEF CopyPosition, CopyVelocity, NextJoint
<1>5. UNCHANGED <<managerVars, tick, now, stamp, current, commandVars, late>>
  BY DEF CopyPosition, CopyVelocity
<1>6. QED
  BY <1>3, <1>4, <1>5 DEF TypeOK, Loops, managerVars, commandVars

LEMMA TypeCommand ==
    ASSUME TypeOK, SetSoFar, (SetCommand \/ ApplyCommandFails)
    PROVE  TypeOK'
<1>1. 0 \in Joints /\ joint \in Joints
  BY InterfacesAssumption DEF TypeOK, Joints
<1>2. commanded' \in [DOMAIN CommandNames -> Values]
  <2>1. CASE SetCommand  BY <1>1, <2>1, CommandedHolds DEF SetCommand
  <2>2. CASE ApplyCommandFails
    <3>1. Value(joint, "position", command) \in Values
      BY <1>1, ValueIsTyped DEF Types, TypeOK
    <3>2. QED  BY <2>2, <3>1 DEF ApplyCommandFails, TypeOK
  <2>3. QED  BY <2>1, <2>2
<1>3. /\ joint' \in Joints
      /\ runtime' \in {runtime, "idle"}
      /\ tick' \in {tick, "done"}
      /\ applied' \in {applied, current, Failed}
  BY <1>1 DEF SetCommand, ApplyCommandFails, EndCycle
<1>4. UNCHANGED <<managerVars, statusVars, current, late, command>>
  BY DEF SetCommand, ApplyCommandFails, EndCycle
<1>5. QED
  BY <1>2, <1>3, <1>4 DEF TypeOK, managerVars, statusVars

LEMMA TypeStep == TypeOK /\ ReadSinceNow /\ SetSoFar /\ Next => TypeOK'
<1>1. CopyVelocity /\ ReadSinceNow => HasVelocity(StateTypes)
  BY DEF CopyVelocity, ReadSinceNow
<1>2. QED
  BY <1>1, TypeManager, TypeControl, TypeCopy, TypeCommand DEF Next, RuntimeStep

-----------------------------------------------------------------------------
(* ReadStatus(): values and their time *)

LEMMA ReadInit == Init => ReadSinceNow /\ StatusIsAsNewAsItsStamp
<1> SUFFICES ASSUME Init PROVE ReadSinceNow /\ StatusIsAsNewAsItsStamp  OBVIOUS
<1>1. 0 \in Cycles  BY CyclesAssumption DEF Cycles
<1>2. \A i \in Joints : /\ position[i].of = <<i, "position">> /\ position[i].at = 0
                        /\ velocity[i].of = <<i, "velocity">> /\ velocity[i].at = 0
  BY <1>1, ValueIsTyped DEF Init, Types
<1>3. stamp = 0 /\ now = 0 /\ cycle = 0 /\ runtime = "idle"  BY DEF Init
<1>4. StatusIsAsNewAsItsStamp  BY <1>2, <1>3 DEF StatusIsAsNewAsItsStamp
<1>5. QED  BY <1>3, <1>4 DEF ReadSinceNow

\* Time does not run backwards, and the other steps leave the status alone.
LEMMA ReadOther ==
    ASSUME TypeOK, ReadSinceNow, StatusIsAsNewAsItsStamp,
           \/ ManagerStep \/ TakeTick \/ ReadStatusFails \/ IconComputes
           \/ BeginApplyCommand \/ SetCommand \/ ApplyCommandFails \/ UseReleased
    PROVE  ReadSinceNow' /\ StatusIsAsNewAsItsStamp'
<1>1. UNCHANGED statusVars
  BY DEF ManagerStep, HardwareRead, SwitchPlugin, Tick, TickRefused, TickSucceeds,
         DeadlineMissed, Reset, HardwareWrite, runtimeUnchanged, TakeTick, ReadStatusFails,
         IconComputes, BeginApplyCommand, SetCommand, ApplyCommandFails, UseReleased
<1>2. cycle' \in {cycle, cycle + 1}
  BY DEF ManagerStep, HardwareRead, SwitchPlugin, Tick, TickRefused, TickSucceeds,
         DeadlineMissed, Reset, HardwareWrite, managerVars, TakeTick, ReadStatusFails,
         IconComputes, BeginApplyCommand, SetCommand, ApplyCommandFails, UseReleased, EndCycle
<1>3. \/ runtime' = runtime /\ joint' = joint
      \/ runtime' \notin {"positions", "velocities", "stamp"}
  BY DEF ManagerStep, HardwareRead, SwitchPlugin, Tick, TickRefused, TickSucceeds,
         DeadlineMissed, Reset, HardwareWrite, runtimeUnchanged, TakeTick, ReadStatusFails,
         IconComputes, BeginApplyCommand, SetCommand, ApplyCommandFails, UseReleased,
         EndCycle, Goto
<1>4. now =< cycle => now =< cycle'
  BY <1>2 DEF TypeOK, Cycles
<1>5. StatusIsAsNewAsItsStamp'
  BY <1>1 DEF StatusIsAsNewAsItsStamp, statusVars
<1>6. QED
  BY <1>1, <1>3, <1>4, <1>5 DEF ReadSinceNow, statusVars

LEMMA ReadBegins ==
    ASSUME TypeOK, ReadSinceNow, StatusIsAsNewAsItsStamp, BeginReadStatus
    PROVE  ReadSinceNow' /\ StatusIsAsNewAsItsStamp'
<1>1. stamp' =< now' /\ now' =< cycle'
  BY DEF BeginReadStatus, ReadSinceNow, TypeOK, Cycles, managerVars
<1>2. \A i \in Joints : ~(i < joint')  BY JointsAre DEF BeginReadStatus
<1>3. QED
  BY <1>1, <1>2 DEF BeginReadStatus, Goto, ReadSinceNow, StatusIsAsNewAsItsStamp

LEMMA ReadPosition ==
    ASSUME TypeOK, ReadSinceNow, StatusIsAsNewAsItsStamp, CopyPosition
    PROVE  ReadSinceNow' /\ StatusIsAsNewAsItsStamp'
<1>1. /\ joint \in Joints /\ cycle \in Cycles /\ now \in Cycles /\ stamp \in Cycles
      /\ stamp =< now /\ now =< cycle
      /\ \A i \in Joints : position[i].at \in Cycles
  BY DEF TypeOK, ReadSinceNow, Values
<1>2. position' = [position EXCEPT ![joint] = Value(joint, "position", cycle)]
  BY CopiesPosition
<1>3. /\ Value(joint, "position", cycle).of = <<joint, "position">>
      /\ Value(joint, "position", cycle).at = cycle
  BY <1>1, ValueIsTyped DEF Types
<1>4. /\ \A i \in Joints : i # joint => position'[i] = position[i]
      /\ position'[joint].of = <<joint, "position">> /\ position'[joint].at = cycle
  BY <1>1, <1>2, <1>3 DEF TypeOK
<1>5. UNCHANGED <<cycle, now, stamp, velocity>>  BY DEF CopyPosition, managerVars
<1>6. \A i \in Joints : i < joint + 1 => position'[i].at >= now
  <2>1. \A i \in Joints : i < joint => position[i].at >= now
    BY DEF CopyPosition, ReadSinceNow
  <2>2. SUFFICES ASSUME NEW i \in Joints, i < joint + 1 PROVE position'[i].at >= now
    OBVIOUS
  <2>3. i = joint \/ i < joint  BY <1>1, <2>2, JointsAre
  <2>4. QED  BY <1>1, <1>4, <2>1, <2>3, JointsAre DEF Cycles
<1>7. StatusIsAsNewAsItsStamp'
  <2>1. \A i \in Joints : position'[i].of = <<i, "position">> /\ position'[i].at >= stamp
    BY <1>1, <1>4 DEF StatusIsAsNewAsItsStamp, Cycles
  <2>2. QED  BY <1>5, <2>1 DEF StatusIsAsNewAsItsStamp
<1>8. CASE joint + 1 \in Joints
  <2>1. runtime' = "positions" /\ joint' = joint + 1
    BY <1>8 DEF CopyPosition, NextJoint
  <2>2. QED  BY <1>1, <1>5, <1>6, <1>7, <2>1 DEF ReadSinceNow
<1>9. CASE joint + 1 \notin Joints
  <2>1. /\ runtime' = IF HasVelocity(StateTypes) THEN "velocities" ELSE "stamp"
        /\ joint' = 0
    BY <1>9 DEF CopyPosition, NextJoint
  <2>2. \A i \in Joints : i < joint + 1 /\ ~(i < 0)
    BY <1>1, <1>9, JointsAre DEF Joints
  <2>3. \A i \in Joints : position'[i].at >= now  BY <1>6, <2>2
  <2>4. QED  BY <1>1, <1>5, <1>7, <2>1, <2>2, <2>3 DEF ReadSinceNow
<1>10. QED  BY <1>8, <1>9

LEMMA ReadVelocity ==
    ASSUME TypeOK, ReadSinceNow, StatusIsAsNewAsItsStamp, CopyVelocity
    PROVE  ReadSinceNow' /\ StatusIsAsNewAsItsStamp'
<1>1. /\ joint \in Joints /\ cycle \in Cycles /\ now \in Cycles /\ stamp \in Cycles
      /\ stamp =< now /\ now =< cycle
      /\ \A i \in Joints : velocity[i].at \in Cycles
  BY DEF TypeOK, ReadSinceNow, Values
<1>0. HasVelocity(StateTypes)  BY DEF CopyVelocity, ReadSinceNow
<1>2. velocity' = [velocity EXCEPT ![joint] = Value(joint, "velocity", cycle)]
  BY <1>0, CopiesVelocity
<1>3. /\ Value(joint, "velocity", cycle).of = <<joint, "velocity">>
      /\ Value(joint, "velocity", cycle).at = cycle
  BY <1>1, ValueIsTyped DEF Types
<1>4. /\ \A i \in Joints : i # joint => velocity'[i] = velocity[i]
      /\ velocity'[joint].of = <<joint, "velocity">> /\ velocity'[joint].at = cycle
  BY <1>1, <1>2, <1>3 DEF TypeOK
<1>5. UNCHANGED <<cycle, now, stamp, position>>  BY DEF CopyVelocity, managerVars
<1>6. /\ \A i \in Joints : i < joint + 1 => velocity'[i].at >= now
      /\ \A i \in Joints : position[i].at >= now
  <2>1. /\ \A i \in Joints : i < joint => velocity[i].at >= now
        /\ \A i \in Joints : position[i].at >= now
    BY DEF CopyVelocity, ReadSinceNow
  <2>2. ASSUME NEW i \in Joints, i < joint + 1 PROVE velocity'[i].at >= now
    <3>1. i = joint \/ i < joint  BY <1>1, <2>2, JointsAre
    <3>2. QED  BY <1>1, <1>4, <2>1, <3>1, JointsAre DEF Cycles
  <2>3. QED  BY <2>1, <2>2
<1>7. StatusIsAsNewAsItsStamp'
  <2>1. \A i \in Joints : velocity'[i].of = <<i, "velocity">> /\ velocity'[i].at >= stamp
    BY <1>0, <1>1, <1>4 DEF StatusIsAsNewAsItsStamp, Cycles
  <2>2. QED  BY <1>5, <2>1 DEF StatusIsAsNewAsItsStamp
<1>8. CASE joint + 1 \in Joints
  <2>1. runtime' = "velocities" /\ joint' = joint + 1
    BY <1>8 DEF CopyVelocity, NextJoint
  <2>2. QED  BY <1>0, <1>1, <1>5, <1>6, <1>7, <2>1 DEF ReadSinceNow
<1>9. CASE joint + 1 \notin Joints
  <2>1. runtime' = "stamp" /\ joint' = 0
    BY <1>9 DEF CopyVelocity, NextJoint
  <2>2. \A i \in Joints : i < joint + 1  BY <1>1, <1>9, JointsAre DEF Joints
  <2>3. \A i \in Joints : velocity'[i].at >= now  BY <1>6, <2>2
  <2>4. QED  BY <1>1, <1>5, <1>6, <1>7, <2>1, <2>3 DEF ReadSinceNow
<1>10. QED  BY <1>8, <1>9

LEMMA ReadStamps ==
    ASSUME TypeOK, ReadSinceNow, StatusIsAsNewAsItsStamp, StampStatus
    PROVE  ReadSinceNow' /\ StatusIsAsNewAsItsStamp'
<1>1. UNCHANGED <<cycle, now, position, velocity>> /\ stamp' = now /\ runtime' = "compute"
  BY DEF StampStatus, managerVars, Goto
<1>2. \A i \in Joints : /\ position[i].at >= now
                        /\ HasVelocity(StateTypes) => velocity[i].at >= now
  BY DEF StampStatus, Goto, ReadSinceNow
<1>3. QED
  BY <1>1, <1>2 DEF ReadSinceNow, StatusIsAsNewAsItsStamp, TypeOK, Cycles

LEMMA ReadStep ==
    TypeOK /\ ReadSinceNow /\ StatusIsAsNewAsItsStamp /\ Next
      => ReadSinceNow' /\ StatusIsAsNewAsItsStamp'
BY ReadOther, ReadBegins, ReadPosition, ReadVelocity, ReadStamps DEF Next, RuntimeStep

-----------------------------------------------------------------------------
(* ApplyCommand(): one whole command *)

LEMMA CommandInit == Init => SetSoFar /\ CommandIsWhole
<1> SUFFICES ASSUME Init PROVE SetSoFar /\ CommandIsWhole  OBVIOUS
<1>1. /\ commanded = [k \in DOMAIN CommandNames |-> [of |-> CommandNames[k], at |-> 0]]
      /\ applied = 0 /\ runtime = "idle"
  BY DEF Init
<1>2. CommandIsWhole  BY <1>1 DEF CommandIsWhole
<1>3. SetSoFar  BY <1>1 DEF SetSoFar
<1>4. QED  BY <1>2, <1>3

\* The steps that leave the command interfaces alone, and ApplyCommand()'s loop.
LEMMA CommandOther ==
    ASSUME SetSoFar, CommandIsWhole,
           \/ ManagerStep \/ TakeTick \/ BeginReadStatus \/ CopyPosition \/ CopyVelocity
           \/ StampStatus \/ ReadStatusFails \/ IconComputes \/ UseReleased
    PROVE  SetSoFar' /\ CommandIsWhole'
<1>1. UNCHANGED <<commanded, applied>>
  BY DEF ManagerStep, HardwareRead, SwitchPlugin, Tick, TickRefused, TickSucceeds,
         DeadlineMissed, Reset, HardwareWrite, runtimeUnchanged, TakeTick, BeginReadStatus,
         CopyPosition, CopyVelocity, StampStatus, ReadStatusFails, IconComputes,
         UseReleased, commandVars
<1>2. \/ UNCHANGED <<runtime, joint, command, current>>
      \/ runtime \notin {"set", "lost"} /\ runtime' # "set"
      \/ runtime' = "lost"
  BY DEF ManagerStep, HardwareRead, SwitchPlugin, Tick, TickRefused, TickSucceeds,
         DeadlineMissed, Reset, HardwareWrite, runtimeUnchanged, TakeTick, BeginReadStatus,
         CopyPosition, CopyVelocity, StampStatus, ReadStatusFails, IconComputes,
         UseReleased, commandVars, Goto, EndCycle, NextJoint
<1>3. CommandIsWhole'  BY <1>1, <1>2 DEF CommandIsWhole
<1>4. SetSoFar'  BY <1>1, <1>2 DEF SetSoFar
<1>5. QED  BY <1>3, <1>4

LEMMA CommandBegins ==
    ASSUME SetSoFar, CommandIsWhole, BeginApplyCommand
    PROVE  SetSoFar' /\ CommandIsWhole'
<1>1. /\ UNCHANGED <<command, commanded, current>>
      /\ command = current /\ runtime' = "set" /\ joint' = 0
  BY DEF BeginApplyCommand, Goto, commandVars
<1>2. \A i \in Joints : ~(i < joint')  BY <1>1, JointsAre
<1>3. QED  BY <1>1, <1>2 DEF SetSoFar, CommandIsWhole

LEMMA CommandSets ==
    ASSUME TypeOK, SetSoFar, SetCommand
    PROVE  SetSoFar' /\ CommandIsWhole'
<1>1. /\ joint \in Joints /\ runtime = "set" /\ command = current
      /\ commanded' = Commanded(joint) /\ UNCHANGED <<command, current>>
  BY DEF TypeOK, SetCommand, SetSoFar, EndCycle
<1>2. /\ commanded' \in [DOMAIN CommandNames -> Values]
      /\ \A k \in DOMAIN CommandNames :
           /\ commanded'[k].of = CommandNames[k]
           /\ commanded'[k].at \in {current, commanded[k].at}
      /\ commanded'[PositionIndex(joint, CommandTypes)].at = current
      /\ HasVelocity(CommandTypes) =>
           commanded'[VelocityIndex(joint, CommandTypes)].at = current
  BY <1>1, CommandedHolds
<1>3. ASSUME NEW i \in Joints, i < joint + 1
      PROVE  /\ commanded'[PositionIndex(i, CommandTypes)].at = current
             /\ HasVelocity(CommandTypes) =>
                  commanded'[VelocityIndex(i, CommandTypes)].at = current
  <2>1. CASE i = joint  BY <1>2, <2>1
  <2>2. CASE i < joint
    <3>1. /\ commanded[PositionIndex(i, CommandTypes)].at = current
          /\ HasVelocity(CommandTypes) =>
               commanded[VelocityIndex(i, CommandTypes)].at = current
      BY <1>1, <2>2 DEF SetSoFar
    <3>2. /\ PositionIndex(i, CommandTypes) \in DOMAIN CommandNames
          /\ HasVelocity(CommandTypes) =>
               VelocityIndex(i, CommandTypes) \in DOMAIN CommandNames
      BY IndexMeetsName, TypesAre DEF CommandNames
    <3>3. QED  BY <1>2, <3>1, <3>2
  <2>3. QED  BY <1>1, <1>3, <2>1, <2>2, JointsAre
<1>4. CASE joint + 1 \in Joints
  <2>1. UNCHANGED <<runtime, applied>> /\ joint' = joint + 1
    BY <1>4 DEF SetCommand
  <2>2. QED  BY <1>1, <1>2, <1>3, <2>1 DEF SetSoFar, CommandIsWhole
<1>5. CASE joint + 1 \notin Joints
  <2>1. applied' = current /\ runtime' = "idle"
    BY <1>5 DEF SetCommand, EndCycle
  <2>2. \A i \in Joints : i < joint + 1  BY <1>1, <1>5, JointsAre DEF Joints
  <2>3. \A i \in Joints :
          /\ commanded'[PositionIndex(i, CommandTypes)].at = current
          /\ HasVelocity(CommandTypes) =>
               commanded'[VelocityIndex(i, CommandTypes)].at = current
    BY <1>3, <2>2
  <2>4. /\ commanded' \in [DOMAIN CommandNames -> Values]
        /\ \A k \in DOMAIN CommandNames : commanded'[k].of = CommandNames[k]
    BY <1>2
  <2>5. commanded' = [k \in DOMAIN CommandNames |-> [of |-> CommandNames[k], at |-> current]]
    BY <2>3, <2>4, SetAllIsWhole
  <2>6. QED  BY <1>2, <2>1, <2>5 DEF SetSoFar, CommandIsWhole
<1>6. QED  BY <1>4, <1>5

LEMMA CommandFails ==
    ASSUME TypeOK, SetSoFar, ApplyCommandFails
    PROVE  SetSoFar' /\ CommandIsWhole'
<1> DEFINE p == PositionIndex(joint, CommandTypes)
<1>1. applied' = Failed /\ runtime' = "idle"  BY DEF ApplyCommandFails, EndCycle
<1>2. \A k \in DOMAIN CommandNames : commanded'[k].of = CommandNames[k]
  <2>1. joint \in Joints /\ command \in Cycles  BY DEF TypeOK
  <2>2. CommandNames[p] = <<joint, "position">>
    BY <2>1, IndexMeetsName, TypesAre DEF CommandNames
  <2>3. Value(joint, "position", command).of = <<joint, "position">>
    BY <2>1, ValueIsTyped DEF Types
  <2>4. commanded \in [DOMAIN CommandNames -> Values]  BY DEF TypeOK
  <2>5. \/ UNCHANGED commanded
        \/ commanded' = [commanded EXCEPT ![p] = Value(joint, "position", command)]
    BY DEF ApplyCommandFails
  <2> HIDE DEF p
  <2>6. QED  BY <2>2, <2>3, <2>4, <2>5 DEF SetSoFar
<1>3. QED  BY <1>1, <1>2 DEF SetSoFar, CommandIsWhole

LEMMA CommandStep ==
    TypeOK /\ SetSoFar /\ CommandIsWhole /\ Next => SetSoFar' /\ CommandIsWhole'
BY CommandOther, CommandBegins, CommandSets, CommandFails DEF Next, RuntimeStep

-----------------------------------------------------------------------------
(* One thread at a time, unless late *)

LEMMA TurnInit == Init => OneAtATime /\ StampedBeforeApplied
BY CyclesAssumption DEF Init, OneAtATime, StampedBeforeApplied

LEMMA TurnManager == TypeOK /\ OneAtATime /\ ManagerStep => OneAtATime'
<1> SUFFICES ASSUME TypeOK, OneAtATime, ManagerStep PROVE OneAtATime'  OBVIOUS
<1>1. UNCHANGED runtime
  BY DEF ManagerStep, HardwareRead, SwitchPlugin, Tick, TickRefused, TickSucceeds,
         DeadlineMissed, Reset, HardwareWrite, runtimeUnchanged
<1>2. runtime = "idle" \/ late \/ (manager = "wait" /\ tick = "taken")
  BY DEF OneAtATime
<1>3. CASE DeadlineMissed
  <2>1. manager' = "reset" /\ tick' # "pending" /\ (late' = (late \/ runtime # "idle"))
    BY <1>3 DEF DeadlineMissed
  <2>2. (runtime # "idle" => late') /\ (runtime = "lost" => late')
    BY <2>1, Zenon DEF OneAtATime
  <2>3. QED  BY <1>1, <2>1, <2>2 DEF OneAtATime
<1>4. CASE SwitchPlugin
  BY <1>1, <1>2, <1>4, Zenon DEF SwitchPlugin, OneAtATime
<1>5. CASE HardwareRead \/ Tick \/ TickRefused \/ TickSucceeds \/ Reset \/ HardwareWrite
  <2>1. UNCHANGED <<late, claimed>>
    BY <1>5 DEF HardwareRead, Tick, TickRefused, TickSucceeds, Reset, HardwareWrite
  <2>2. /\ manager' \in {"update", "wait"} => claimed
        /\ tick' = "pending" => manager' = "wait"
        /\ runtime # "idle" => late
    BY <1>5, <1>2 DEF HardwareRead, Tick, TickRefused, TickSucceeds, Reset, HardwareWrite, OneAtATime
  <2>3. QED  BY <1>1, <2>1, <2>2, Zenon DEF OneAtATime
<1>6. QED  BY <1>3, <1>4, <1>5 DEF ManagerStep

LEMMA TurnRuntime == TypeOK /\ OneAtATime /\ RuntimeStep => OneAtATime'
<1> SUFFICES ASSUME TypeOK, OneAtATime, RuntimeStep PROVE OneAtATime'  OBVIOUS
<1>1. UNCHANGED managerVars
  BY DEF RuntimeStep, TakeTick, BeginReadStatus, CopyPosition, CopyVelocity, StampStatus,
         ReadStatusFails, IconComputes, BeginApplyCommand, SetCommand, ApplyCommandFails,
         UseReleased, EndCycle
<1>2. CASE TakeTick
  <2>1. tick' = "taken" /\ runtime' = "read_status" /\ (late' = (tick = "expired"))
        /\ tick \in {"pending", "expired"}
    BY <1>2 DEF TakeTick, Goto
  <2>2. ~late' => manager = "wait"
    BY <2>1, Zenon DEF OneAtATime
  <2>3. QED  BY <1>1, <2>1, <2>2 DEF OneAtATime, managerVars
<1>3. CASE UseReleased
  <2>1. /\ UNCHANGED <<tick, late>> /\ runtime' = "lost"
        /\ runtime # "idle" /\ ~claimed
    BY <1>3 DEF UseReleased, Loops
  <2>2. late  BY <2>1 DEF OneAtATime
  <2>3. QED  BY <1>1, <2>1, <2>2 DEF OneAtATime, managerVars
<1>4. CASE ~TakeTick /\ ~UseReleased
  <2>1. UNCHANGED late /\ runtime # "idle" /\ runtime # "lost"
    BY <1>4 DEF RuntimeStep, BeginReadStatus, CopyPosition, CopyVelocity, StampStatus,
       ReadStatusFails, IconComputes, BeginApplyCommand, SetCommand, ApplyCommandFails,
       EndCycle, Goto
  <2>2. /\ runtime' # "lost"
        /\ (runtime' = "idle" /\ tick' \in {tick, "done"}) \/ UNCHANGED tick
    BY <1>4 DEF RuntimeStep, BeginReadStatus, CopyPosition, CopyVelocity, StampStatus,
       ReadStatusFails, IconComputes, BeginApplyCommand, SetCommand, ApplyCommandFails,
       EndCycle, Goto, NextJoint
  <2>3. QED  BY <1>1, <2>1, <2>2 DEF OneAtATime, managerVars
<1>5. QED  BY <1>2, <1>3, <1>4

\* ReadStatus() begins after the tick, and ApplyCommand() after ReadStatus().
LEMMA StampedStep ==
    ASSUME TypeOK, ReadSinceNow, StampedBeforeApplied, Next
    PROVE  StampedBeforeApplied'
<1>1. /\ cycle \in Nat /\ now \in Nat /\ stamp \in Nat /\ current \in Nat
      /\ applied \in Int /\ stamp =< now /\ now =< cycle
  BY DEF TypeOK, Cycles, ReadSinceNow, Failed
<1>2. CASE ManagerStep
  <2>1. /\ UNCHANGED <<runtime, now, stamp, current, applied>>
        /\ cycle' \in {cycle, cycle + 1}
    BY <1>2 DEF ManagerStep, HardwareRead, SwitchPlugin, Tick, TickRefused, TickSucceeds,
       DeadlineMissed, Reset, HardwareWrite, runtimeUnchanged, statusVars, commandVars
  <2>2. QED  BY <1>1, <2>1 DEF StampedBeforeApplied
<1>3. CASE TakeTick
  BY <1>1, <1>3 DEF TakeTick, Goto, managerVars, statusVars, commandVars, StampedBeforeApplied
<1>4. CASE BeginReadStatus
  BY <1>1, <1>4 DEF BeginReadStatus, Goto, managerVars, commandVars, StampedBeforeApplied
<1>5. CASE CopyPosition \/ CopyVelocity
  <2>1. /\ UNCHANGED <<cycle, now, stamp, current, applied>>
        /\ runtime \in {"positions", "velocities"}
        /\ runtime' \in {"positions", "velocities", "stamp"}
    BY <1>5 DEF CopyPosition, CopyVelocity, NextJoint, managerVars, commandVars
  <2>2. QED  BY <1>1, <2>1 DEF StampedBeforeApplied
<1>6. CASE StampStatus
  BY <1>1, <1>6 DEF StampStatus, Goto, managerVars, commandVars, StampedBeforeApplied
<1>7. CASE ReadStatusFails
  BY <1>1, <1>7
  DEF ReadStatusFails, EndCycle, managerVars, statusVars, commandVars, StampedBeforeApplied
<1>8. CASE IconComputes
  <2>1. /\ UNCHANGED <<cycle, now, stamp, current, applied>>
        /\ runtime = "compute" /\ runtime' \in {"apply", "idle"}
    BY <1>8 DEF IconComputes, EndCycle, managerVars, statusVars
  <2>2. QED  BY <1>1, <2>1 DEF StampedBeforeApplied
<1>9. CASE BeginApplyCommand
  BY <1>1, <1>9
  DEF BeginApplyCommand, Goto, managerVars, statusVars, commandVars, StampedBeforeApplied
<1>10. CASE SetCommand
  <2>1. /\ UNCHANGED <<cycle, now, stamp, current>> /\ runtime = "set"
        /\ applied' \in {applied, current} /\ runtime' \in {"set", "idle"}
    BY <1>10 DEF SetCommand, EndCycle, managerVars, statusVars
  <2>2. QED  BY <1>1, <2>1 DEF StampedBeforeApplied
<1>11. CASE ApplyCommandFails
  BY <1>1, <1>11
  DEF ApplyCommandFails, EndCycle, Failed, managerVars, statusVars, StampedBeforeApplied
<1>12. CASE UseReleased
  BY <1>1, <1>12 DEF UseReleased, managerVars, statusVars, commandVars, StampedBeforeApplied
<1>13. QED
  BY <1>2, <1>3, <1>4, <1>5, <1>6, <1>7, <1>8, <1>9, <1>10, <1>11, <1>12 DEF Next, RuntimeStep

-----------------------------------------------------------------------------
(* The theorems *)

LEMMA InvInit == Init => CycleInv
BY TypeInit, ReadInit, CommandInit, TurnInit DEF CycleInv

LEMMA InvStep == CycleInv /\ [Next]_vars => CycleInv'
<1> SUFFICES ASSUME CycleInv, [Next]_vars PROVE CycleInv'  OBVIOUS
<1>1. CASE Next
  <2>1. TypeOK' /\ ReadSinceNow' /\ StatusIsAsNewAsItsStamp' /\ SetSoFar' /\ CommandIsWhole'
    BY <1>1, TypeStep, ReadStep, CommandStep DEF CycleInv
  <2>2. OneAtATime'  BY <1>1, TurnManager, TurnRuntime DEF CycleInv, Next
  <2>3. StampedBeforeApplied'  BY <1>1, StampedStep DEF CycleInv
  <2>4. QED  BY <2>1, <2>2, <2>3 DEF CycleInv
<1>2. CASE UNCHANGED vars
  BY <1>2 DEF vars, managerVars, statusVars, commandVars, CycleInv, TypeOK, ReadSinceNow,
     StatusIsAsNewAsItsStamp, SetSoFar, CommandIsWhole, OneAtATime, StampedBeforeApplied
<1>3. QED  BY <1>1, <1>2

LEMMA Invariance == Spec => []CycleInv
BY InvInit, InvStep, PTL DEF Spec

\* No index of either loop leaves the loaned interfaces, whatever their number.
THEOREM TypeCorrect == Spec => []TypeOK
<1>1. CycleInv => TypeOK  BY DEF CycleInv
<1>2. QED  BY <1>1, Invariance, PTL

\* A status that ReadStatus() has stamped is no older than its stamp, of whichever
\* joint, although reading may be late, interrupted or overtaken.
THEOREM StatusIsFresh == Spec => []StatusIsAsNewAsItsStamp
<1>1. CycleInv => StatusIsAsNewAsItsStamp  BY DEF CycleInv
<1>2. QED  BY <1>1, Invariance, PTL

\* An ApplyCommand() that did not fail has set every command interface.
THEOREM WholeCommand == Spec => []CommandIsWhole
<1>1. CycleInv => CommandIsWhole  BY DEF CycleInv
<1>2. QED  BY <1>1, Invariance, PTL

\* Interfaces are indexed after they were taken back only past a missed deadline.
THEOREM ReleasedInterfaces == Spec => []ReleasedOnlyIfLate
<1>1. CycleInv => ReleasedOnlyIfLate  BY DEF CycleInv, OneAtATime, ReleasedOnlyIfLate
<1>2. QED  BY <1>1, Invariance, PTL

\* The write after update() finds the runtime idle, so what it sends is whole.
LEMMA WriteIsLockstep ==
    ASSUME CycleInv, HardwareWrite
    PROVE  \/ late
           \/ applied = Failed
           \/ /\ \A k \in DOMAIN CommandNames : commanded[k].at = applied
              /\ applied = cycle => stamp = cycle
<1> SUFFICES ASSUME ~late, applied # Failed
             PROVE  /\ \A k \in DOMAIN CommandNames : commanded[k].at = applied
                    /\ applied = cycle => stamp = cycle
  OBVIOUS
<1>1. runtime = "idle"  BY DEF CycleInv, OneAtATime, HardwareWrite
<1>2. commanded = [k \in DOMAIN CommandNames |-> [of |-> CommandNames[k], at |-> applied]]
  BY <1>1 DEF CycleInv, CommandIsWhole
<1>3. applied =< stamp /\ stamp =< now /\ now =< cycle
  BY DEF CycleInv, StampedBeforeApplied, ReadSinceNow
<1>4. applied = cycle => stamp = cycle
  BY <1>3 DEF CycleInv, TypeOK, Cycles
<1>5. QED  BY <1>2, <1>4

\* The lockstep of README.md:76, with the two exceptions the code leaves.
THEOREM LockstepHolds == Spec => Lockstep
<1>1. CycleInv /\ [Next]_vars =>
        [HardwareWrite =>
          \/ late
          \/ applied = Failed
          \/ /\ \A k \in DOMAIN CommandNames : commanded[k].at = applied
             /\ applied = cycle => stamp = cycle]_vars
  BY WriteIsLockstep
<1>2. QED  BY <1>1, Invariance, PTL DEF Spec, Lockstep
=============================================================================
