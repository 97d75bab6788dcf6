------------------------ MODULE HostSchedules_proofs ------------------------
(***************************************************************************)
(* Proofs about the lock and the gas schedules of hosts, for any number of *)
(* hosts, goroutines, schedules and changes.                               *)
(***************************************************************************)
EXTENDS HostSchedules, TLAPS

-----------------------------------------------------------------------------
(* Type correctness *)

\* What a goroutine has in hand at each of its steps.  A schedule that
\* reaches Wasmer or a metering context was found to be valid.
WantedInv ==
    \A c \in Caller :
        /\ pc[c] \in {"lock", "store"} => wanted[c] \in DOMAIN GasMaps
        /\ pc[c] \in {"opcodes", "metering"} => wanted[c] \in ValidSchedules

LEMMA FirstScheduleValid == FirstSchedule \in ValidSchedules
  BY HostSchedulesAssumption DEF ValidSchedules

LEMMA InitTypes == Init => TypeOK /\ WantedInv
  BY FirstScheduleValid, HostSchedulesAssumption
  DEF Init, TypeOK, WantedInv, ValidSchedules

\* The actions of a goroutine on the lock and on schedules.
LEMMA CallerStepTypes ==
  ASSUME TypeOK, WantedInv, NEW c \in Caller, CallerStep(c)
  PROVE  TypeOK' /\ WantedInv'
  <1>. USE HostSchedulesAssumption DEF TypeOK, WantedInv, Goto, lockVars
  <1>1. CASE RLock(c) BY <1>1 DEF RLock
  <1>2. CASE CompileContract(c) BY <1>2 DEF CompileContract
  <1>3. CASE EndRun(c) BY <1>3 DEF EndRun, RUnlock
  <1>4. CASE Catch(c) BY <1>4 DEF Catch, RUnlock
  <1>5. CASE Lock(c) BY <1>5 DEF Lock
  <1>6. CASE StoreSchedule(c) BY <1>6 DEF StoreSchedule, Unlock
  <1>7. CASE SetOpcodeCosts(c) BY <1>7 DEF SetOpcodeCosts
  <1>8. CASE SetGasSchedule(c) BY <1>8 DEF SetGasSchedule, Unlock
  <1>. QED BY <1>1, <1>2, <1>3, <1>4, <1>5, <1>6, <1>7, <1>8 DEF CallerStep

LEMMA NextTypes ==
  ASSUME TypeOK, WantedInv, [Next]_vars
  PROVE  TypeOK' /\ WantedInv'
  <1>. USE HostSchedulesAssumption DEF TypeOK, WantedInv, Goto, lockVars
  <1>1. ASSUME NEW c \in Caller, CallerStep(c) PROVE TypeOK' /\ WantedInv'
    BY ONLY TypeOK, WantedInv, <1>1, CallerStepTypes
  <1>2. ASSUME NEW c \in Caller, RunSmartContract(c) PROVE TypeOK' /\ WantedInv'
    BY <1>2 DEF RunSmartContract
  <1>3. ASSUME NEW c \in Caller, NEW s \in DOMAIN GasMaps, GasScheduleChange(c, s)
        PROVE  TypeOK' /\ WantedInv'
    BY <1>3 DEF GasScheduleChange
  <1>4. CASE UNCHANGED vars BY <1>4 DEF vars
  <1>. QED BY <1>1, <1>2, <1>3, <1>4 DEF Next

\* Type correctness: only schedules that CreateGasConfig accepts reach a
\* metering context, Wasmer and compiled code.
THEOREM TypeOKTheorem == Spec => []TypeOK
  <1>1. TypeOK /\ WantedInv /\ [Next]_vars => (TypeOK /\ WantedInv)' BY NextTypes
  <1>. QED BY <1>1, InitTypes, PTL DEF Spec

-----------------------------------------------------------------------------
(* The lock *)

\* A goroutine that runs a contract is among the readers of its host, one that
\* changes the schedule is its writer, and a lock that is held for writing has
\* no readers: sync.RWMutex, as the functions of the host use it.
LockInv ==
    /\ \A h \in Host : \A c \in readers[h] : at[c] = h /\ pc[c] = "run"
    /\ \A c \in Caller : pc[c] \in {"store", "opcodes", "metering"} => writer[at[c]] = c
    /\ \A h \in Host : writer[h] # Nobody => readers[h] = {}
    /\ \A h \in Host : writer[h] \in Caller =>
            /\ at[writer[h]] = h
            /\ pc[writer[h]] \in {"store", "opcodes", "metering"}

LEMMA InitLock == Init => LockInv
  BY HostSchedulesAssumption DEF Init, LockInv

LEMMA CallerStepLock ==
  ASSUME TypeOK, LockInv, NEW c \in Caller, CallerStep(c)
  PROVE  LockInv'
  <1>0. Nobody \notin Caller BY HostSchedulesAssumption
  <1>. USE <1>0 DEF TypeOK, LockInv, Goto, lockVars
  <1>1. CASE RLock(c) BY <1>1 DEF RLock
  <1>2. CASE CompileContract(c) BY <1>2 DEF CompileContract
  <1>3. CASE EndRun(c) BY <1>3 DEF EndRun, RUnlock
  <1>4. CASE Catch(c) BY <1>4 DEF Catch, RUnlock
  <1>5. CASE Lock(c) BY <1>5 DEF Lock
  <1>6. CASE StoreSchedule(c)
    <2>1. CASE wanted[c] \in ValidSchedules BY <1>6, <2>1 DEF StoreSchedule
    <2>2. CASE wanted[c] \notin ValidSchedules
      <3>1. /\ writer[at[c]] = c /\ readers' = readers /\ at' = at
            /\ writer' = [writer EXCEPT ![at[c]] = Nobody]
            /\ pc' = [pc EXCEPT ![c] = "idle"]
            /\ pc[c] = "store"
        BY <1>6, <2>2 DEF StoreSchedule, Unlock
      <3>. QED BY <3>1
    <2>. QED BY <2>1, <2>2
  <1>7. CASE SetOpcodeCosts(c) BY <1>7 DEF SetOpcodeCosts
  <1>8. CASE SetGasSchedule(c)
    <2>1. /\ writer[at[c]] = c /\ readers' = readers /\ at' = at
          /\ writer' = [writer EXCEPT ![at[c]] = Nobody]
          /\ pc' = [pc EXCEPT ![c] = "idle"]
          /\ pc[c] = "metering"
      BY <1>8 DEF SetGasSchedule, Unlock
    <2>. QED BY <2>1
  <1>. QED BY <1>1, <1>2, <1>3, <1>4, <1>5, <1>6, <1>7, <1>8 DEF CallerStep

LEMMA NextLock ==
  ASSUME TypeOK, LockInv, [Next]_vars
  PROVE  LockInv'
  <1>. USE HostSchedulesAssumption DEF TypeOK, LockInv, Goto, lockVars
  <1>1. ASSUME NEW c \in Caller, CallerStep(c) PROVE LockInv'
    BY ONLY TypeOK, LockInv, <1>1, CallerStepLock
  <1>2. ASSUME NEW c \in Caller, RunSmartContract(c) PROVE LockInv'
    BY <1>2 DEF RunSmartContract
  <1>3. ASSUME NEW c \in Caller, NEW s \in DOMAIN GasMaps, GasScheduleChange(c, s)
        PROVE  LockInv'
    BY <1>3 DEF GasScheduleChange
  <1>4. CASE UNCHANGED vars BY <1>4 DEF vars
  <1>. QED BY <1>1, <1>2, <1>3, <1>4 DEF Next

\* The schedules of a host that runs a contract stay as they are.
FixedStep ==
    \A h \in Host : readers[h] # {} =>
        metering'[h] = metering[h] /\ gasSchedule'[h] = gasSchedule[h]

LEMMA NextFixed ==
  ASSUME TypeOK, LockInv, [Next]_vars
  PROVE  FixedStep
  <1>. USE HostSchedulesAssumption DEF TypeOK, LockInv, FixedStep, lockVars
  <1>1. ASSUME NEW c \in Caller, StoreSchedule(c) PROVE FixedStep
    <2>1. readers[at[c]] = {} BY <1>1 DEF StoreSchedule
    <2>. QED BY <1>1, <2>1 DEF StoreSchedule, Unlock
  <1>2. ASSUME NEW c \in Caller, SetGasSchedule(c) PROVE FixedStep
    <2>1. readers[at[c]] = {} BY <1>2 DEF SetGasSchedule
    <2>. QED BY <1>2, <2>1 DEF SetGasSchedule, Unlock
  <1>3. ASSUME NEW c \in Caller,
               RLock(c) \/ CompileContract(c) \/ EndRun(c) \/ Catch(c)
                   \/ Lock(c) \/ SetOpcodeCosts(c) \/ RunSmartContract(c)
        PROVE  FixedStep
    BY <1>3 DEF RLock, CompileContract, EndRun, Catch, Lock, SetOpcodeCosts, RunSmartContract
  <1>4. ASSUME NEW c \in Caller, NEW s \in DOMAIN GasMaps, GasScheduleChange(c, s)
        PROVE  FixedStep
    BY <1>4 DEF GasScheduleChange
  <1>5. CASE UNCHANGED vars BY <1>5 DEF vars
  <1>. QED BY <1>1, <1>2, <1>3, <1>4, <1>5 DEF Next, CallerStep

\* No schedule changes under a running contract: GasScheduleChange writes under
\* the write lock, which excludes every reader (mutExecution).
THEOREM ScheduleFixedTheorem == Spec => ScheduleFixedDuringExecution
  <1>1. Init => TypeOK /\ WantedInv /\ LockInv BY InitTypes, InitLock
  <1>2. TypeOK /\ WantedInv /\ LockInv /\ [Next]_vars => (TypeOK /\ WantedInv /\ LockInv)'
    BY NextTypes, NextLock
  <1>3. TypeOK /\ LockInv /\ [Next]_vars => [FixedStep]_vars BY NextFixed
  <1>. QED BY <1>1, <1>2, <1>3, PTL DEF Spec, ScheduleFixedDuringExecution, FixedStep

-----------------------------------------------------------------------------
(* The opcode costs of the process *)

\* Goroutine c has set the opcode costs and has yet to set the metering
\* context of host h.
Halfway(c, h) == at[c] = h /\ pc[c] = "metering"

\* Some host was the last to set the opcode costs: its metering context has
\* their schedule, or will have it as soon as its writer is done.
LastSetter(h) ==
    \/ \E c \in Caller : Halfway(c, h) /\ wanted[c] = opcodeCosts
    \/ metering[h] = opcodeCosts /\ \A c \in Caller : ~Halfway(c, h)

CostsInv == \E h \in Host : LastSetter(h)

LEMMA InitCosts == Init => CostsInv
  <1>1. PICK h \in Host : TRUE BY HostSchedulesAssumption
  <1>2. Init => LastSetter(h) BY DEF Init, LastSetter, Halfway
  <1>. QED BY <1>2 DEF CostsInv

LEMMA CallerStepCosts ==
  ASSUME TypeOK, LockInv, CostsInv, NEW c \in Caller, CallerStep(c)
  PROVE  CostsInv'
  <1>1. PICK h \in Host : LastSetter(h) BY DEF CostsInv
  <1>. USE HostSchedulesAssumption DEF TypeOK, Goto, lockVars, Halfway, LastSetter
  <1>2. CASE RLock(c) \/ CompileContract(c) \/ EndRun(c) \/ Catch(c) \/ Lock(c)
    <2>1. LastSetter(h)'
      BY <1>1, <1>2 DEF RLock, CompileContract, EndRun, Catch, Lock
    <2>. QED BY <2>1 DEF CostsInv
  <1>3. CASE StoreSchedule(c)
    <2>1. LastSetter(h)' BY <1>1, <1>3 DEF StoreSchedule, Unlock
    <2>. QED BY <2>1 DEF CostsInv
  <1>4. CASE SetOpcodeCosts(c)
    <2>1. LastSetter(at[c])' BY <1>4 DEF SetOpcodeCosts
    <2>. QED BY <2>1, at[c] \in Host, <1>4 DEF CostsInv, SetOpcodeCosts
  <1>5. CASE SetGasSchedule(c)
    <2>1. ASSUME NEW d \in Caller, Halfway(d, at[c]) PROVE d = c
      BY <1>5, <2>1 DEF SetGasSchedule, LockInv
    <2>2. CASE h = at[c]
      <3>1. wanted[c] = opcodeCosts BY <1>1, <1>5, <2>1, <2>2 DEF SetGasSchedule
      <3>. QED BY <3>1, <1>5, <2>1, <2>2 DEF SetGasSchedule, Unlock, CostsInv
    <2>3. CASE h # at[c]
      <3>1. LastSetter(h)' BY <1>1, <1>5, <2>3 DEF SetGasSchedule, Unlock
      <3>. QED BY <3>1 DEF CostsInv
    <2>. QED BY <2>2, <2>3
  <1>. QED BY <1>2, <1>3, <1>4, <1>5 DEF CallerStep

LEMMA NextCosts ==
  ASSUME TypeOK, LockInv, CostsInv, [Next]_vars
  PROVE  CostsInv'
  <1>1. ASSUME NEW c \in Caller, CallerStep(c) PROVE CostsInv'
    BY <1>1, CallerStepCosts
  <1>2. PICK h \in Host : LastSetter(h) BY DEF CostsInv
  <1>. USE DEF TypeOK, Goto, lockVars, Halfway, LastSetter
  <1>3. ASSUME NEW c \in Caller, RunSmartContract(c) PROVE LastSetter(h)'
    BY <1>2, <1>3 DEF RunSmartContract
  <1>4. ASSUME NEW c \in Caller, NEW s \in DOMAIN GasMaps, GasScheduleChange(c, s)
        PROVE  LastSetter(h)'
    BY <1>2, <1>4 DEF GasScheduleChange
  <1>5. CASE UNCHANGED vars BY <1>2, <1>5 DEF vars, CostsInv
  <1>. QED BY <1>1, <1>3, <1>4, <1>5 DEF Next, CostsInv

LEMMA CostsFollow ==
  ASSUME TypeOK, LockInv, CostsInv
  PROVE  OpcodeCostsFollowSchedules
  <1>1. PICK h \in Host : LastSetter(h) BY DEF CostsInv
  <1>2. ASSUME NEW s \in ValidSchedules,
               \A g \in Host : writer[g] = Nobody /\ metering[g] = s
        PROVE  opcodeCosts = s
    <2>1. \A c \in Caller : ~Halfway(c, h)
      BY <1>2, HostSchedulesAssumption DEF Halfway, LockInv, TypeOK
    <2>. QED BY <1>1, <1>2, <2>1 DEF LastSetter
  <1>. QED BY <1>2 DEF OpcodeCostsFollowSchedules

\* When every host has the same schedule and none is changing it, Wasmer's opcode
\* costs are of that schedule, however the changes of several hosts interleave
\* between SetOpcodeCosts and SetGasSchedule.
THEOREM OpcodeCostsFollowTheorem == Spec => []OpcodeCostsFollowSchedules
  <1>1. Init => TypeOK /\ WantedInv /\ LockInv /\ CostsInv
    BY InitTypes, InitLock, InitCosts
  <1>2. TypeOK /\ WantedInv /\ LockInv /\ CostsInv /\ [Next]_vars
            => (TypeOK /\ WantedInv /\ LockInv /\ CostsInv)'
    BY NextTypes, NextLock, NextCosts
  <1>3. TypeOK /\ LockInv /\ CostsInv => OpcodeCostsFollowSchedules BY CostsFollow
  <1>. QED BY <1>1, <1>2, <1>3, PTL DEF Spec

-----------------------------------------------------------------------------
(* No opcode is free *)

\* The five tables of ToOpcodeCostsArray leave no opcode out.
LEMMA ArrayIsComplete ==
  ASSUME NEW costs, NEW i \in Opcodes
  PROVE  ToOpcodeCostsArray(costs)[i] = costs[i]
  <1>1. i \in ControlAndMemoryOpcodes \cup NumericOpcodes \cup BulkAndAtomicOpcodes
                  \cup VectorAccessOpcodes \cup VectorMathOpcodes
    BY DEF Opcodes, OPCODE_COUNT, ControlAndMemoryOpcodes, NumericOpcodes,
           BulkAndAtomicOpcodes, VectorAccessOpcodes, VectorMathOpcodes
  <1>. QED
    BY <1>1 DEF ToOpcodeCostsArray, ControlAndMemoryCosts, NumericCosts,
                BulkAndAtomicCosts, VectorAccessCosts, VectorMathCosts

\* Every opcode has a field in the section of the schedule.
LEMMA OpcodesHaveFields == Opcodes \subseteq WASMOpcodeCost
  BY DEF Opcodes, OPCODE_COUNT, WASMOpcodeCost, ControlAndMemoryFields, NumericFields,
         BulkAndAtomicFields, VectorAccessFields, VectorMathFields,
         ControlAndMemoryOpcodes, NumericOpcodes, BulkAndAtomicOpcodes,
         VectorAccessOpcodes, VectorMathOpcodes

\* A valid schedule has no opcode that is free, its costs of more than 32 bits
\* included: they are checked after they were cut.
LEMMA ValidCosts ==
  ASSUME NEW s \in ValidSchedules, NEW i \in Opcodes
  PROVE  OpcodeCosts[s][i] > 0
  <1> DEFINE costs == GasMaps[s]["WASMOpcodeCost"]
             decoded == Decode("WASMOpcodeCost", costs)
  <1>1. "WASMOpcodeCost" \in DOMAIN GasCost /\ GasCost["WASMOpcodeCost"] = WASMOpcodeCost
    BY DEF GasCost
  <1>2. s \in DOMAIN GasMaps /\ IsValid(GasMaps[s]) BY DEF ValidSchedules
  <1>3. costs \in [WASMOpcodeCost -> Nat] BY <1>1, <1>2, HostSchedulesAssumption
  <1>4. i \in WASMOpcodeCost BY OpcodesHaveFields
  <1>5. decoded = [f \in WASMOpcodeCost |-> costs[f] % Uint32Limit]
    BY <1>1 DEF Decode
  <1>6. decoded[i] # 0 BY <1>1, <1>2, <1>4, <1>5 DEF IsValid, checkForZeroUint64Fields
  <1>7. decoded[i] \in Nat
    <2>1. costs[i] \in Nat BY <1>3, <1>4
    <2>2. costs[i] % Uint32Limit \in Nat BY <2>1, GasScheduleAssumption
    <2>. QED BY <1>4, <1>5, <2>2
  <1>8. CreateGasConfig(GasMaps[s])["WASMOpcodeCost"] = decoded
    BY <1>1 DEF CreateGasConfig
  <1>9. OpcodeCosts[s] = ToOpcodeCostsArray(decoded) BY <1>8 DEF OpcodeCosts
  <1>10. OpcodeCosts[s][i] = decoded[i] BY <1>9, ArrayIsComplete
  <1>. QED BY <1>6, <1>7, <1>10

\* No opcode is free, whatever gas maps the node has: an endless loop is paid for
\* (CreateGasConfig, ToOpcodeCostsArray).
THEOREM OpcodesAreMeteredTheorem == Spec => []OpcodesAreMetered
  <1>1. TypeOK => OpcodesAreMetered BY ValidCosts DEF TypeOK, OpcodesAreMetered
  <1>. QED BY <1>1, TypeOKTheorem, PTL
=============================================================================
