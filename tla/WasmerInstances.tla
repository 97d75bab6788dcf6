-------------------------- MODULE WasmerInstances ---------------------------
(***************************************************************************)
(* The Wasmer instances of vmhost/contexts/runtime.go: the current one,    *)
(* the stack of those that wait for a callee, and the warm instance that   *)
(* is kept between calls of the same contract.  Nested calls push and pop  *)
(* instances; cleaning one frees the memory and the machine code of a      *)
(* contract, which may still have to resume.                               *)
(*                                                                         *)
(* VMHost models the same stack together with the other contexts, without  *)
(* warm instances; here they may be used, and contracts do nothing else    *)
(* than call each other.  A contract stands for its code.                  *)
(***************************************************************************)
EXTENDS Integers, Sequences, SequencesExt, FiniteSets

CONSTANTS
    Address,               \* addresses of contracts
    Handle,                \* references to instances, enough of them
    Nil,                   \* the nil instance, the nil address
    AheadOfTimeCompile,    \* activation flag of the host
    MaxWasmerInstances

ASSUME InstancesAssumption ==
    /\ Nil \notin Handle /\ Nil \notin Address
    /\ AheadOfTimeCompile \in BOOLEAN
    /\ MaxWasmerInstances \in Nat

VARIABLES
    useWarmInstance,   \* a parameter of the host, fixed when it is created
    phase,             \* idle, running, or finishing the innermost execution
    scAddress,         \* the running contract
    stateStack,        \* the contracts below it
    instance, instanceStack,
    warmInstance, warmInstanceAddress,
    live,              \* the instances that have not been cleaned
    compiled           \* the contracts whose compiled code is cached

vars == <<useWarmInstance, phase, scAddress, stateStack, instance, instanceStack,
          warmInstance, warmInstanceAddress, live, compiled>>
warmVars == <<warmInstance, warmInstanceAddress>>

TypeOK ==
    /\ useWarmInstance \in BOOLEAN
    /\ phase \in {"idle", "running", "finish"}
    /\ scAddress \in Address \cup {Nil}
    /\ stateStack \in Seq(Address \cup {Nil})
    /\ instance \in Handle \cup {Nil}
    /\ instanceStack \in Seq(Handle \cup {Nil})
    /\ warmInstance \in Handle \cup {Nil}
    /\ warmInstanceAddress \in Address \cup {Nil}
    /\ live \in SUBSET Handle
    /\ compiled \in SUBSET Address

-----------------------------------------------------------------------------
(* StartWasmerInstance for the contract at a *)

IsWarmInstance(i) == i # Nil /\ i = warmInstance

\* Mutants: the warm instance is cleaned too; nothing is cleaned.
LiveAfterCleanOfAny(i) == live \ {i}
LiveAfterNoClean(i) == live

\* CleanWasmerInstance: what is live, and the current instance, afterwards.
\* The warm instance is not cleaned.
LiveAfterClean(i) == IF i = Nil \/ IsWarmInstance(i) THEN live ELSE live \ {i}
InstanceAfterClean(i) == IF IsWarmInstance(i) THEN i ELSE Nil

\* Mutant: off by one.
RoomForOneMore(stack) == Len(stack) <= MaxWasmerInstances

\* maxWasmerInstances is compared with the instances that wait.
RoomForInstance(stack) == Len(stack) < MaxWasmerInstances

MaxInstancesReached(stack) ==
    /\ ~RoomForInstance(stack)
    /\ instance' = Nil
    /\ phase' = "finish"
    /\ UNCHANGED <<warmVars, live, compiled>>

SetWarmInstanceWhenNeeded(a, stack) ==
    /\ RoomForInstance(stack)
    /\ useWarmInstance /\ warmInstanceAddress = a
    /\ instance' = warmInstance
    /\ phase' = "running"
    /\ UNCHANGED <<warmVars, live, compiled>>

NoWarmInstance(a, stack) ==
    /\ RoomForInstance(stack)
    /\ ~(useWarmInstance /\ warmInstanceAddress = a)

CompiledCodeFound(a, newCode) == AheadOfTimeCompile /\ ~newCode /\ a \in compiled

MakeInstanceFromCompiledCode(a, newCode, stack) ==
    /\ NoWarmInstance(a, stack)
    /\ CompiledCodeFound(a, newCode)
    /\ \E i \in Handle \ live : instance' = i /\ live' = live \cup {i}
    /\ phase' = "running"
    /\ UNCHANGED <<warmVars, compiled>>

\* Bytecode that Wasmer refuses, or new code that cannot be verified: the
\* compiled code of the latter is already saved, its instance is cleaned.
MakeInstanceFails(a, newCode, stack) ==
    /\ NoWarmInstance(a, stack)
    /\ instance' = Nil
    /\ phase' = "finish"
    /\ \/ compiled' = compiled
       \/ newCode /\ compiled' = compiled \cup {a}
    /\ UNCHANGED <<warmVars, live>>

\* Wasmer may also refuse the cached code, so that the bytecode is compiled again.
MakeInstanceFromContractByteCode(a, newCode, stack) ==
    /\ NoWarmInstance(a, stack)
    /\ \E i \in Handle \ live : instance' = i /\ live' = live \cup {i}
    /\ compiled' = compiled \cup {a}
    /\ IF useWarmInstance
       THEN warmInstance' = instance' /\ warmInstanceAddress' = a
       ELSE UNCHANGED warmVars
    /\ phase' = "running"

StartWasmerInstance(a, newCode, stack) ==
    \/ MaxInstancesReached(stack)
    \/ SetWarmInstanceWhenNeeded(a, stack)
    \/ MakeInstanceFromCompiledCode(a, newCode, stack)
    \/ MakeInstanceFails(a, newCode, stack)
    \/ MakeInstanceFromContractByteCode(a, newCode, stack)

-----------------------------------------------------------------------------
(* Runs and calls *)

\* An execution that fails before StartWasmerInstance keeps the instance.
FailsBeforeStart ==
    phase' = "finish" /\ UNCHANGED <<instance, warmVars, live, compiled>>

\* A transaction: InitState clears the state stack, not the instance stack.
Run(a, newCode) ==
    /\ phase = "idle"
    /\ stateStack' = <<>>
    /\ scAddress' = a
    /\ UNCHANGED <<useWarmInstance, instanceStack>>
    /\ StartWasmerInstance(a, newCode, instanceStack) \/ FailsBeforeStart

\* An indirect call or upgrade: PushState, with pushInstance, then execute.
Call(a, newCode) ==
    /\ phase = "running"
    /\ stateStack' = Append(stateStack, scAddress)
    /\ instanceStack' = Append(instanceStack, instance)
    /\ scAddress' = a
    /\ UNCHANGED useWarmInstance
    /\ StartWasmerInstance(a, newCode, Append(instanceStack, instance)) \/ FailsBeforeStart

\* The contract's function returns or fails.
Stop ==
    /\ phase = "running"
    /\ phase' = "finish"
    /\ UNCHANGED <<useWarmInstance, scAddress, stateStack, instance, instanceStack, warmVars,
                   live, compiled>>

\* Mutant: popInstance without the check.
PopInstanceUnchecked ==
    /\ phase = "finish" /\ stateStack # <<>>
    /\ scAddress' = Last(stateStack) /\ stateStack' = Front(stateStack)
    /\ instanceStack' = Front(instanceStack)
    /\ live' = LiveAfterClean(instance) /\ instance' = Last(instanceStack)
    /\ phase' = "running"
    /\ UNCHANGED <<useWarmInstance, warmVars, compiled>>

\* PopSetActiveState with popInstance: an instance that was pushed but never
\* replaced is not cleaned, because its contract resumes on it.
PopInstance ==
    /\ phase = "finish" /\ stateStack # <<>>
    /\ scAddress' = Last(stateStack) /\ stateStack' = Front(stateStack)
    /\ instanceStack' = Front(instanceStack)
    /\ IF Last(instanceStack) = instance
       THEN UNCHANGED <<instance, live>>
       ELSE live' = LiveAfterClean(instance) /\ instance' = Last(instanceStack)
    /\ phase' = "running"
    /\ UNCHANGED <<useWarmInstance, warmVars, compiled>>

\* The end of a run: CleanWasmerInstance, or the Clean of the host.
Clean ==
    /\ phase = "finish" /\ stateStack = <<>>
    /\ live' = LiveAfterClean(instance)
    /\ instance' = InstanceAfterClean(instance)
    /\ phase' = "idle"
    /\ UNCHANGED <<useWarmInstance, scAddress, stateStack, instanceStack, warmVars, compiled>>

\* ... of a run that ended in an allocation error on the warm instance.
ResetWarmInstance ==
    /\ phase = "finish" /\ stateStack = <<>>
    /\ IsWarmInstance(instance)
    /\ live' = live \ {instance}
    /\ instance' = Nil /\ warmInstance' = Nil /\ warmInstanceAddress' = Nil
    /\ phase' = "idle"
    /\ UNCHANGED <<useWarmInstance, scAddress, stateStack, instanceStack, compiled>>

Init ==
    /\ useWarmInstance \in BOOLEAN
    /\ phase = "idle"
    /\ scAddress = Nil /\ stateStack = <<>>
    /\ instance = Nil /\ instanceStack = <<>>
    /\ warmInstance = Nil /\ warmInstanceAddress = Nil
    /\ live = {} /\ compiled = {}

Next ==
    \/ \E a \in Address, newCode \in BOOLEAN : Run(a, newCode) \/ Call(a, newCode)
    \/ Stop
    \/ PopInstance
    \/ Clean
    \/ ResetWarmInstance

Spec == Init /\ [][Next]_vars

-----------------------------------------------------------------------------
(* Properties *)

Needed == {instance} \cup {instanceStack[k] : k \in DOMAIN instanceStack}

\* Why nothing that is needed is cleaned as long as no instance is warm: the
\* instances on the stack are different, and the current one is the top of the
\* stack at most while its callee is finishing without one of its own.  Then
\* popInstance, which compares it with the top only, compares it with them all.
InstancesInv ==
    /\ TypeOK
    /\ warmInstance = Nil /\ warmInstanceAddress = Nil
    /\ Len(stateStack) = Len(instanceStack)
    /\ \A k \in DOMAIN instanceStack : instanceStack[k] # Nil
    /\ \A j, k \in DOMAIN instanceStack : instanceStack[j] = instanceStack[k] => j = k
    /\ phase = "running" =>
        instance # Nil /\ \A k \in DOMAIN instanceStack : instanceStack[k] # instance
    /\ phase = "finish" =>
        \A k \in DOMAIN instanceStack : instanceStack[k] = instance => k = Len(instanceStack)
    /\ phase = "idle" => instance = Nil /\ stateStack = <<>>
    /\ live = Needed \ {Nil}

\* runtime.PushState, "a check is made to ensure that the running instance will
\* not be cleaned while still required for execution": the current instance and
\* the instances that wait for a callee are live.
RequiredInstancesLive == Needed \ {Nil} \subseteq live

\* So it is in a host without warm instances: popInstance compares the running
\* instance with the top of the stack only, and that is enough there.
ColdInstancesLive == ~useWarmInstance => RequiredInstancesLive

\* In a host without warm instances every live instance is still needed: whatever
\* fails in StartWasmerInstance or in a callee, no instance is forgotten.
NoInstanceLeaked == ~useWarmInstance => live \subseteq Needed

\* setWarmInstanceWhenNeeded only ever reuses an instance that is live.
WarmInstanceLive == warmInstance # Nil => warmInstance \in live

\* In a host without warm instances no more of them are live than
\* maxWasmerInstances allows.
InstancesBounded == ~useWarmInstance => Cardinality(live) <= MaxWasmerInstances
=============================================================================
