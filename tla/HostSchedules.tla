---------------------------- MODULE HostSchedules ---------------------------
(***************************************************************************)
(* The lock and the gas schedules of the hosts of one process              *)
(* (vmhost/hostCore/host.go): RunSmartContractCall and                     *)
(* RunSmartContractCreate hold mutExecution for reading, GasScheduleChange *)
(* for writing.  A node has a host for transactions and others for         *)
(* queries; each has its lock and its metering context, but Wasmer's       *)
(* opcode costs belong to the process.                                     *)
(*                                                                         *)
(* What a contract does is left out: it compiles its code, unless it has a *)
(* compiled or warm instance, and ends or panics.  sync.RWMutex            *)
(* (external): a writer that waits keeps new readers out.                  *)
(***************************************************************************)
EXTENDS GasSchedule

CONSTANTS
    Host,               \* hosts of the process
    Caller,             \* goroutines of the node
    GasMaps,            \* the schedules of the node: ids to gas maps
    FirstSchedule,      \* the schedule that the hosts are created with
    Nobody, NoSchedule,
    MaxChanges          \* bound: calls of GasScheduleChange

ASSUME HostSchedulesAssumption ==
    /\ Host # {}
    /\ Nobody \notin Caller /\ NoSchedule \notin DOMAIN GasMaps
    /\ \A s \in DOMAIN GasMaps : \A section \in DOMAIN GasCost :
            GasMaps[s][section] \in [GasCost[section] -> Nat]
    /\ FirstSchedule \in DOMAIN GasMaps /\ IsValid(GasMaps[FirstSchedule])
    /\ MaxChanges \in Nat

VARIABLES
    pc,             \* of each caller
    at,             \* of each caller: the host it uses
    wanted,         \* of each caller: the schedule of its GasScheduleChange
    instance,       \* of each caller: the schedule its contract was compiled with
    readers, writer, waiting,   \* mutExecution of each host
    gasSchedule,    \* of each host: host.gasSchedule
    metering,       \* of each host: the schedule of its metering context
    opcodeCosts,    \* of the process: the schedule whose costs Wasmer has
    changes         \* history: calls of GasScheduleChange

lockVars == <<readers, writer, waiting>>
vars == <<pc, at, wanted, instance, readers, writer, waiting, gasSchedule,
          metering, opcodeCosts, changes>>

ValidSchedules == {s \in DOMAIN GasMaps : IsValid(GasMaps[s])}

\* The opcode costs that a schedule gives to Wasmer.
OpcodeCosts ==
    [s \in ValidSchedules |->
        ToOpcodeCostsArray(CreateGasConfig(GasMaps[s])["WASMOpcodeCost"])]

\* The types of the variables: only valid schedules are in use.
TypeOK ==
    /\ pc \in [Caller -> {"idle", "rlock", "run", "lock", "store", "opcodes", "metering"}]
    /\ at \in [Caller -> Host]
    /\ wanted \in [Caller -> DOMAIN GasMaps \cup {NoSchedule}]
    /\ instance \in [Caller -> ValidSchedules \cup {NoSchedule}]
    /\ readers \in [Host -> SUBSET Caller]
    /\ writer \in [Host -> Caller \cup {Nobody}]
    /\ waiting \in [Host -> SUBSET Caller]
    /\ gasSchedule \in [Host -> DOMAIN GasMaps]
    /\ metering \in [Host -> ValidSchedules]
    /\ opcodeCosts \in ValidSchedules
    /\ changes \in 0 .. MaxChanges

\* NewVMHost, for each host.
Init ==
    /\ pc = [c \in Caller |-> "idle"]
    /\ at \in [Caller -> Host]
    /\ wanted = [c \in Caller |-> NoSchedule]
    /\ instance = [c \in Caller |-> NoSchedule]
    /\ readers = [h \in Host |-> {}]
    /\ writer = [h \in Host |-> Nobody]
    /\ waiting = [h \in Host |-> {}]
    /\ gasSchedule = [h \in Host |-> FirstSchedule]
    /\ metering = [h \in Host |-> FirstSchedule]
    /\ opcodeCosts = FirstSchedule
    /\ changes = 0

Goto(c, label) == pc' = [pc EXCEPT ![c] = label]

-----------------------------------------------------------------------------
(* RunSmartContractCall and RunSmartContractCreate *)

\* The node runs one contract at a time on a host (external): executions
\* share the contexts, and the read lock would let them both in.
NodeRunsNothingOn(h) == \A c \in Caller : at[c] = h => pc[c] \notin {"rlock", "run"}

RunSmartContract(c) ==
    /\ pc[c] = "idle" /\ NodeRunsNothingOn(at[c])
    /\ Goto(c, "rlock")
    /\ UNCHANGED <<at, wanted, instance, lockVars, gasSchedule, metering,
                   opcodeCosts, changes>>

\* Mutant: the lock is taken although a schedule is being changed.
RLockAnyway(c) ==
    /\ pc[c] = "rlock"
    /\ readers' = [readers EXCEPT ![at[c]] = @ \cup {c}]
    /\ Goto(c, "run")
    /\ UNCHANGED <<at, wanted, instance, writer, waiting, gasSchedule, metering,
                   opcodeCosts, changes>>

RLock(c) ==
    /\ pc[c] = "rlock" /\ writer[at[c]] = Nobody /\ waiting[at[c]] = {}
    /\ readers' = [readers EXCEPT ![at[c]] = @ \cup {c}]
    /\ Goto(c, "run")
    /\ UNCHANGED <<at, wanted, instance, writer, waiting, gasSchedule, metering,
                   opcodeCosts, changes>>

\* NewInstanceWithOptions builds the current opcode costs into the code.
CompileContract(c) ==
    /\ pc[c] = "run" /\ instance[c] = NoSchedule
    /\ instance' = [instance EXCEPT ![c] = opcodeCosts]
    /\ UNCHANGED <<pc, at, wanted, lockVars, gasSchedule, metering, opcodeCosts, changes>>

RUnlock(c) == readers' = [readers EXCEPT ![at[c]] = @ \ {c}]

\* The contract ends, well or with an error.
EndRun(c) ==
    /\ pc[c] = "run"
    /\ RUnlock(c)
    /\ Goto(c, "idle")
    /\ instance' = [instance EXCEPT ![c] = NoSchedule]
    /\ UNCHANGED <<at, wanted, writer, waiting, gasSchedule, metering, opcodeCosts, changes>>

\* Mutant: the lock is not released when the execution panics.
CatchWithoutUnlock(c) ==
    /\ pc[c] = "run"
    /\ Goto(c, "idle")
    /\ instance' = [instance EXCEPT ![c] = NoSchedule]
    /\ UNCHANGED <<at, wanted, lockVars, gasSchedule, metering, opcodeCosts, changes>>

\* The execution panics: TryCatch makes an error of it, and the deferred
\* RUnlock is done.
Catch(c) ==
    /\ pc[c] = "run"
    /\ RUnlock(c)
    /\ Goto(c, "idle")
    /\ instance' = [instance EXCEPT ![c] = NoSchedule]
    /\ UNCHANGED <<at, wanted, writer, waiting, gasSchedule, metering, opcodeCosts, changes>>

-----------------------------------------------------------------------------
(* GasScheduleChange *)

GasScheduleChange(c, s) ==
    /\ pc[c] = "idle" /\ changes < MaxChanges
    /\ Goto(c, "lock")
    /\ wanted' = [wanted EXCEPT ![c] = s]
    /\ waiting' = [waiting EXCEPT ![at[c]] = @ \cup {c}]
    /\ changes' = changes + 1
    /\ UNCHANGED <<at, instance, readers, writer, gasSchedule, metering, opcodeCosts>>

Lock(c) ==
    LET h == at[c] IN
    /\ pc[c] = "lock" /\ writer[h] = Nobody /\ readers[h] = {}
    /\ writer' = [writer EXCEPT ![h] = c]
    /\ waiting' = [waiting EXCEPT ![h] = @ \ {c}]
    /\ Goto(c, "store")
    /\ UNCHANGED <<at, wanted, instance, readers, gasSchedule, metering, opcodeCosts, changes>>

Unlock(c) ==
    /\ writer' = [writer EXCEPT ![at[c]] = Nobody]
    /\ Goto(c, "idle")
    /\ wanted' = [wanted EXCEPT ![c] = NoSchedule]

\* The schedule is stored before it is known to be valid.
StoreSchedule(c) ==
    /\ pc[c] = "store"
    /\ gasSchedule' = [gasSchedule EXCEPT ![at[c]] = wanted[c]]
    /\ IF wanted[c] \in ValidSchedules
       THEN Goto(c, "opcodes") /\ UNCHANGED <<wanted, writer>>
       ELSE Unlock(c)
    /\ UNCHANGED <<at, instance, readers, waiting, metering, opcodeCosts, changes>>

\* Mutant: the opcode costs stay as they are.
ForgetOpcodeCosts(c) ==
    /\ pc[c] = "opcodes"
    /\ Goto(c, "metering")
    /\ UNCHANGED <<at, wanted, instance, lockVars, gasSchedule, metering, opcodeCosts, changes>>

SetOpcodeCosts(c) ==
    /\ pc[c] = "opcodes"
    /\ opcodeCosts' = wanted[c]
    /\ Goto(c, "metering")
    /\ UNCHANGED <<at, wanted, instance, lockVars, gasSchedule, metering, changes>>

SetGasSchedule(c) ==
    /\ pc[c] = "metering"
    /\ metering' = [metering EXCEPT ![at[c]] = wanted[c]]
    /\ Unlock(c)
    /\ UNCHANGED <<at, instance, readers, waiting, gasSchedule, opcodeCosts, changes>>

-----------------------------------------------------------------------------
CallerStep(c) ==
    \/ RLock(c) \/ CompileContract(c) \/ EndRun(c) \/ Catch(c)
    \/ Lock(c) \/ StoreSchedule(c) \/ SetOpcodeCosts(c) \/ SetGasSchedule(c)

Next ==
    \E c \in Caller :
        \/ CallerStep(c) \/ RunSmartContract(c)
        \/ \E s \in DOMAIN GasMaps : GasScheduleChange(c, s)

Spec == Init /\ [][Next]_vars

\* A goroutine that can go on does: contracts run out of gas, and the mutex
\* lets a waiting writer in once the readers it met are gone.  The number of
\* schedule changes is finite, so that weak fairness is enough.
FairSpec == Spec /\ \A c \in Caller : WF_vars(CallerStep(c))

-----------------------------------------------------------------------------
(* Properties *)

\* No schedule changes under a running contract: the gas of a transaction is
\* computed with one schedule of its metering context (mutExecution).
ScheduleFixedDuringExecution ==
    [][\A h \in Host : readers[h] # {} =>
            metering'[h] = metering[h] /\ gasSchedule'[h] = gasSchedule[h]]_vars

\* When every host has the same schedule and none is changing it, Wasmer's
\* opcode costs are of that schedule: each change sets both or neither, and
\* an invalid schedule sets neither.
OpcodeCostsFollowSchedules ==
    \A s \in ValidSchedules :
        (\A h \in Host : writer[h] = Nobody /\ metering[h] = s)
            => opcodeCosts = s

\* No opcode is free, for any schedule that CreateGasConfig accepts, costs of
\* more than 32 bits included (ToOpcodeCostsArray assigns every entry).
OpcodesAreMetered == \A i \in Opcodes : OpcodeCosts[opcodeCosts][i] > 0

\* A change of the schedule and the execution of a contract come to an end:
\* nobody keeps the lock, also when executions panic.
LockIsReleased == \A c \in Caller : pc[c] # "idle" ~> pc[c] = "idle"
=============================================================================
