----------------------- MODULE WasmerInstances_proofs -----------------------
(***************************************************************************)
(* Proofs about the Wasmer instances, for every number of contracts,       *)
(* handles and nested calls.                                               *)
(***************************************************************************)
EXTENDS WasmerInstances, BasicTheorems

-----------------------------------------------------------------------------
(* The warm instance *)

\* setWarmInstanceWhenNeeded and makeInstanceFromContractByteCode: the warm
\* instance is live, with any mixture of nested calls, failures and resets.
THEOREM WarmInstanceLiveTheorem == Spec => []WarmInstanceLive
<1>1. Init => WarmInstanceLive
    BY DEF Init, WarmInstanceLive
<1>2. WarmInstanceLive /\ [Next]_vars => WarmInstanceLive'
    <2> SUFFICES ASSUME WarmInstanceLive, [Next]_vars PROVE WarmInstanceLive'
        OBVIOUS
    <2>1. ASSUME NEW a, NEW newCode, NEW stack, StartWasmerInstance(a, newCode, stack)
          PROVE  WarmInstanceLive'
        BY <2>1 DEF WarmInstanceLive, StartWasmerInstance, MaxInstancesReached,
            SetWarmInstanceWhenNeeded, MakeInstanceFromCompiledCode, MakeInstanceFails,
            MakeInstanceFromContractByteCode, warmVars
    <2>2. CASE FailsBeforeStart
        BY <2>2 DEF WarmInstanceLive, FailsBeforeStart, warmVars
    <2>3. ASSUME NEW a \in Address, NEW newCode \in BOOLEAN, Run(a, newCode)
          PROVE  WarmInstanceLive'
        BY <2>1, <2>2, <2>3 DEF Run
    <2>4. ASSUME NEW a \in Address, NEW newCode \in BOOLEAN, Call(a, newCode)
          PROVE  WarmInstanceLive'
        BY <2>1, <2>2, <2>4 DEF Call
    <2>5. CASE Stop
        BY <2>5 DEF WarmInstanceLive, Stop, warmVars
    <2>6. CASE PopInstance
        BY <2>6 DEF WarmInstanceLive, PopInstance, warmVars, LiveAfterClean, IsWarmInstance
    <2>7. CASE Clean
        BY <2>7 DEF WarmInstanceLive, Clean, warmVars, LiveAfterClean, IsWarmInstance
    <2>8. CASE ResetWarmInstance
        BY <2>8 DEF WarmInstanceLive, ResetWarmInstance
    <2>9. CASE UNCHANGED vars
        BY <2>9 DEF WarmInstanceLive, vars
    <2> QED BY <2>3, <2>4, <2>5, <2>6, <2>7, <2>8, <2>9 DEF Next
<1> QED BY <1>1, <1>2, PTL DEF Spec

-----------------------------------------------------------------------------
(* Hosts without warm instances *)

\* InstancesInv survives StartWasmerInstance, in all the ways in which it can
\* start an instance or fail, for the contract of a transaction (the stack is
\* empty) and for a callee (the stack ends in the caller's instance).
LEMMA StartPreservesInv ==
    ASSUME ~useWarmInstance, UNCHANGED useWarmInstance,
           NEW a \in Address, NEW newCode \in BOOLEAN,
           StartWasmerInstance(a, newCode, instanceStack') \/ FailsBeforeStart,
           TypeOK, warmInstance = Nil, warmInstanceAddress = Nil,
           live = Needed \ {Nil},
           scAddress' \in Address,
           stateStack' \in Seq(Address \cup {Nil}),
           instanceStack' \in Seq(Handle \cup {Nil}),
           Len(stateStack') = Len(instanceStack'),
           \A k \in DOMAIN instanceStack' : instanceStack'[k] # Nil,
           \A j, k \in DOMAIN instanceStack' : instanceStack'[j] = instanceStack'[k] => j = k,
           {instanceStack'[k] : k \in DOMAIN instanceStack'} = Needed \ {Nil},
           instance # Nil =>
               /\ instanceStack' # <<>>
               /\ instanceStack'[Len(instanceStack')] = instance
    PROVE  InstancesInv'
<1> USE InstancesAssumption
<1>a. instanceStack' = <<>> \/ Len(instanceStack') \in DOMAIN instanceStack'
    BY EmptySeq, LenProperties
<1>w. IsWarmInstance(instance) = FALSE
    BY DEF IsWarmInstance
<1>1. ASSUME instance' = Nil, phase' = "finish", live' = live, compiled' \subseteq Address,
             UNCHANGED warmVars
      PROVE  InstancesInv'
    <2>1. TypeOK'
        BY <1>1 DEF TypeOK, warmVars
    <2>2. live' = Needed' \ {Nil}
        BY <1>1 DEF Needed
    <2> QED BY <1>1, <2>1, <2>2 DEF InstancesInv, warmVars
<1>2. ASSUME NEW i \in Handle \ live, instance' = i, phase' = "running",
             live' = live \cup {i}, compiled' \subseteq Address, UNCHANGED warmVars
      PROVE  InstancesInv'
    <2>1. TypeOK'
        BY <1>2 DEF TypeOK, warmVars
    <2>2. live' = Needed' \ {Nil}
        BY <1>2 DEF Needed
    <2>3. \A k \in DOMAIN instanceStack' : instanceStack'[k] # i
        BY <1>2
    <2> QED BY <1>2, <2>1, <2>2, <2>3 DEF InstancesInv, warmVars
<1>3. CASE FailsBeforeStart
    <2>1. TypeOK'
        BY <1>3 DEF TypeOK, FailsBeforeStart, warmVars
    <2>2. live' = Needed' \ {Nil}
        BY <1>3, <1>a DEF FailsBeforeStart, Needed
    <2>3. \A k \in DOMAIN instanceStack' :
              instanceStack'[k] = instance' => k = Len(instanceStack')
        BY <1>3, <1>a DEF FailsBeforeStart
    <2> QED BY <1>3, <2>1, <2>2, <2>3 DEF InstancesInv, FailsBeforeStart, warmVars
<1>4. CASE MaxInstancesReached(instanceStack')
    BY <1>1, <1>4 DEF MaxInstancesReached, TypeOK
<1>5. CASE MakeInstanceFails(a, newCode, instanceStack')
    BY <1>1, <1>5 DEF MakeInstanceFails, TypeOK
<1>6. CASE MakeInstanceFromCompiledCode(a, newCode, instanceStack')
    BY <1>2, <1>6 DEF MakeInstanceFromCompiledCode, TypeOK
<1>7. CASE MakeInstanceFromContractByteCode(a, newCode, instanceStack')
    BY <1>2, <1>7 DEF MakeInstanceFromContractByteCode, TypeOK
<1> QED BY <1>3, <1>4, <1>5, <1>6, <1>7 DEF StartWasmerInstance, SetWarmInstanceWhenNeeded

\* useWarmInstance is fixed when the host is created.
LEMMA WarmIsFixed == [Next]_vars => UNCHANGED useWarmInstance
BY DEF Next, Run, Call, Stop, PopInstance, Clean, ResetWarmInstance, vars

\* The inductive invariant of a host that keeps no warm instance.
ColdInv == ~useWarmInstance => InstancesInv

\* What runtime.go keeps of its instances: every step of a host without warm
\* instances preserves InstancesInv.
THEOREM InstancesInvTheorem == Spec => []ColdInv
<1> USE InstancesAssumption
<1>1. Init => ColdInv
    BY DEF Init, ColdInv, InstancesInv, TypeOK, Needed
<1>2. ColdInv /\ [Next]_vars => ColdInv'
    <2> SUFFICES ASSUME ~useWarmInstance, UNCHANGED useWarmInstance, InstancesInv, [Next]_vars
                 PROVE  InstancesInv'
        BY WarmIsFixed DEF ColdInv
    <2>t. /\ stateStack \in Seq(Address \cup {Nil})
          /\ instanceStack \in Seq(Handle \cup {Nil})
          /\ Len(instanceStack) \in Nat /\ DOMAIN instanceStack = 1 .. Len(instanceStack)
          /\ instanceStack = <<>> <=> Len(instanceStack) = 0
          /\ stateStack = <<>> <=> Len(stateStack) = 0
        BY EmptySeq, LenProperties DEF InstancesInv, TypeOK
    <2>w. IsWarmInstance(instance) = FALSE
        BY DEF IsWarmInstance, InstancesInv
    <2>1. ASSUME NEW a \in Address, NEW newCode \in BOOLEAN, Run(a, newCode)
          PROVE  InstancesInv'
        <3>1. instanceStack = <<>> /\ instance = Nil
            BY <2>1, <2>t DEF Run, InstancesInv
        <3>2. {instanceStack'[k] : k \in DOMAIN instanceStack'} = Needed \ {Nil}
            BY <2>1, <3>1 DEF Run, Needed
        <3> QED BY <2>1, <2>t, <3>1, <3>2, StartPreservesInv DEF Run, InstancesInv
    <2>2. ASSUME NEW a \in Address, NEW newCode \in BOOLEAN, Call(a, newCode)
          PROVE  InstancesInv'
        <3>1. /\ instanceStack' \in Seq(Handle \cup {Nil})
              /\ Len(instanceStack') = Len(instanceStack) + 1
              /\ \A k \in 1 .. Len(instanceStack) : instanceStack'[k] = instanceStack[k]
              /\ instanceStack'[Len(instanceStack) + 1] = instance
            BY <2>2, <2>t, PushProperties DEF Call, InstancesInv, TypeOK
        <3>2. /\ stateStack' \in Seq(Address \cup {Nil})
              /\ Len(stateStack') = Len(stateStack) + 1
            BY <2>2, <2>t, PushProperties DEF Call, InstancesInv, TypeOK
        <3>3. DOMAIN instanceStack' = 1 .. Len(instanceStack) + 1
            BY <3>1, LenProperties
        <3>4. {instanceStack'[k] : k \in DOMAIN instanceStack'} = Needed \ {Nil}
            BY <2>2, <2>t, <3>1, <3>3 DEF Call, Needed, InstancesInv
        <3>5. \A j, k \in DOMAIN instanceStack' : instanceStack'[j] = instanceStack'[k] => j = k
            BY <2>2, <2>t, <3>1, <3>3 DEF Call, InstancesInv
        <3>6. \A k \in DOMAIN instanceStack' : instanceStack'[k] # Nil
            BY <2>2, <2>t, <3>1, <3>3 DEF Call, InstancesInv
        <3>7. instanceStack' # <<>> /\ instanceStack'[Len(instanceStack')] = instance
            BY <2>t, <3>1, EmptySeq
        <3>8. StartWasmerInstance(a, newCode, instanceStack') \/ FailsBeforeStart
            BY <2>2 DEF Call
        <3> QED BY <2>2, <2>t, <3>1, <3>2, <3>4, <3>5, <3>6, <3>7, <3>8, StartPreservesInv
                DEF Call, InstancesInv
    <2>3. CASE Stop
        BY <2>3, <2>t DEF Stop, InstancesInv, TypeOK, Needed, warmVars
    <2>4. CASE PopInstance
        <3>1. instanceStack # <<>>
            BY <2>4, <2>t DEF PopInstance, InstancesInv
        <3> DEFINE n == Len(instanceStack)
        <3>2. /\ n \in Nat \ {0}
              /\ instanceStack' \in Seq(Handle \cup {Nil})
              /\ Len(instanceStack') = n - 1
              /\ \A k \in 1 .. n - 1 : instanceStack'[k] = instanceStack[k]
              /\ Last(instanceStack) = instanceStack[n]
              /\ Last(instanceStack) \in Handle \cup {Nil}
            BY <2>4, <2>t, <3>1, PopProperties DEF PopInstance
        <3>3. /\ stateStack' \in Seq(Address \cup {Nil})
              /\ Len(stateStack') = Len(stateStack) - 1
              /\ scAddress' \in Address \cup {Nil}
            BY <2>4, <2>t, PopProperties DEF PopInstance
        <3>4. DOMAIN instanceStack' = 1 .. n - 1
            BY <3>2, LenProperties
        <3>5. instance' = instanceStack[n]
            BY <2>4, <3>2 DEF PopInstance
        <3>6. live' = IF instanceStack[n] = instance THEN live ELSE live \ {instance}
            BY <2>4, <2>w, <3>2 DEF PopInstance, LiveAfterClean, InstancesInv
        <3>7. TypeOK'
            BY <2>4, <3>2, <3>3, <3>5, <3>6 DEF PopInstance, TypeOK, InstancesInv, warmVars
        <3>8. \A k \in DOMAIN instanceStack' : instanceStack'[k] # instance'
            BY <2>t, <3>2, <3>4, <3>5 DEF InstancesInv
        <3>9. live' = Needed' \ {Nil}
            <4>1. Needed' = {instanceStack[k] : k \in 1 .. n}
                BY <3>2, <3>4, <3>5 DEF Needed
            <4>2. Needed = {instance} \cup {instanceStack[k] : k \in 1 .. n}
                BY <2>t DEF Needed
            <4>3. instanceStack[n] # instance => \A k \in 1 .. n : instanceStack[k] # instance
                BY <2>4, <2>t DEF PopInstance, InstancesInv
            <4> QED BY <3>2, <3>6, <4>1, <4>2, <4>3 DEF InstancesInv
        <3>10. /\ instance' # Nil
               /\ \A k \in DOMAIN instanceStack' : instanceStack'[k] # Nil
               /\ \A j, k \in DOMAIN instanceStack' :
                     instanceStack'[j] = instanceStack'[k] => j = k
            BY <2>t, <3>2, <3>4, <3>5 DEF InstancesInv
        <3>11. Len(stateStack') = Len(instanceStack')
            BY <3>2, <3>3 DEF InstancesInv
        <3>12. phase' = "running" /\ warmInstance' = Nil /\ warmInstanceAddress' = Nil
            BY <2>4 DEF PopInstance, InstancesInv, warmVars
        <3> QED BY <3>7, <3>8, <3>9, <3>10, <3>11, <3>12 DEF InstancesInv
    <2>5. CASE Clean
        BY <2>5, <2>t, <2>w DEF Clean, InstancesInv, TypeOK, Needed, warmVars,
            LiveAfterClean, InstanceAfterClean
    <2>6. CASE ResetWarmInstance
        BY <2>6, <2>w DEF ResetWarmInstance
    <2>7. CASE UNCHANGED vars
        BY <2>7 DEF vars, InstancesInv, TypeOK, Needed
    <2> QED BY <2>1, <2>2, <2>3, <2>4, <2>5, <2>6, <2>7 DEF Next
<1> QED BY <1>1, <1>2, PTL DEF Spec

\* popInstance and CleanWasmerInstance, in a host that keeps no warm instance:
\* the instances of all the contracts in progress are live.
THEOREM ColdInstancesLiveTheorem == Spec => []ColdInstancesLive
<1>1. ColdInv => ColdInstancesLive
    BY DEF ColdInv, InstancesInv, ColdInstancesLive, RequiredInstancesLive
<1> QED BY <1>1, InstancesInvTheorem, PTL

\* ... and no other instance is: whatever fails, none is leaked.
THEOREM NoInstanceLeakedTheorem == Spec => []NoInstanceLeaked
<1>1. ColdInv => NoInstanceLeaked
    BY DEF ColdInv, InstancesInv, NoInstanceLeaked
<1> QED BY <1>1, InstancesInvTheorem, PTL

-----------------------------------------------------------------------------
(* The bound on instances *)

\* StartWasmerInstance compares the instances that wait with maxWasmerInstances:
\* there is room on the stack for a current instance that is not yet on it.
Depth ==
    /\ Len(instanceStack) <= MaxWasmerInstances
    /\ instance = Nil
       \/ (\E k \in DOMAIN instanceStack : instanceStack[k] = instance)
       \/ Len(instanceStack) < MaxWasmerInstances

DepthInv == ~useWarmInstance => Depth

\* maxWasmerInstances bounds the live instances, in a host that keeps no warm one.
THEOREM InstancesBoundedTheorem == Spec => []InstancesBounded
<1> USE InstancesAssumption
<1>1. Init => DepthInv
    BY EmptySeq DEF Init, DepthInv, Depth
<1>2. ColdInv /\ DepthInv /\ [Next]_vars => DepthInv'
    <2> SUFFICES ASSUME ~useWarmInstance, UNCHANGED useWarmInstance, InstancesInv, Depth,
                        [Next]_vars
                 PROVE  Depth'
        BY WarmIsFixed DEF ColdInv, DepthInv
    <2>t. /\ stateStack \in Seq(Address \cup {Nil})
          /\ instanceStack \in Seq(Handle \cup {Nil})
          /\ Len(instanceStack) \in Nat /\ DOMAIN instanceStack = 1 .. Len(instanceStack)
          /\ instanceStack = <<>> <=> Len(instanceStack) = 0
          /\ stateStack = <<>> <=> Len(stateStack) = 0
        BY EmptySeq, LenProperties DEF InstancesInv, TypeOK
    <2>1. ASSUME NEW a \in Address, NEW newCode \in BOOLEAN,
                 StartWasmerInstance(a, newCode, instanceStack') \/ FailsBeforeStart,
                 Len(instanceStack') <= MaxWasmerInstances,
                 instance = Nil \/ \E k \in DOMAIN instanceStack' : instanceStack'[k] = instance
          PROVE  Depth'
        BY <2>1 DEF Depth, FailsBeforeStart, StartWasmerInstance, MaxInstancesReached,
            SetWarmInstanceWhenNeeded, MakeInstanceFails, MakeInstanceFromCompiledCode,
            MakeInstanceFromContractByteCode, NoWarmInstance, RoomForInstance
    <2>2. ASSUME NEW a \in Address, NEW newCode \in BOOLEAN, Run(a, newCode)
          PROVE  Depth'
        BY <2>1, <2>2 DEF Run, InstancesInv, Depth
    <2>3. ASSUME NEW a \in Address, NEW newCode \in BOOLEAN, Call(a, newCode)
          PROVE  Depth'
        <3>1. /\ instanceStack' \in Seq(Handle \cup {Nil})
              /\ Len(instanceStack') = Len(instanceStack) + 1
              /\ instanceStack'[Len(instanceStack) + 1] = instance
            BY <2>3, <2>t, PushProperties DEF Call, InstancesInv, TypeOK
        <3>2. Len(instanceStack) + 1 \in DOMAIN instanceStack'
            BY <2>t, <3>1, LenProperties
        <3>3. Len(instanceStack') <= MaxWasmerInstances
            BY <2>3, <2>t, <3>1 DEF Call, InstancesInv, Depth
        <3> QED BY <2>1, <2>3, <3>1, <3>2, <3>3 DEF Call
    <2>4. CASE Stop
        BY <2>4 DEF Stop, Depth
    <2>5. CASE PopInstance
        <3>1. /\ Len(instanceStack) \in Nat \ {0}
              /\ Len(instanceStack') = Len(instanceStack) - 1
            BY <2>5, <2>t, PopProperties DEF PopInstance, InstancesInv
        <3> QED BY <2>t, <3>1 DEF Depth
    <2>6. CASE Clean \/ ResetWarmInstance
        BY <2>6, <2>t DEF Clean, ResetWarmInstance, InstancesInv, Depth,
            InstanceAfterClean, IsWarmInstance
    <2>7. CASE UNCHANGED vars
        BY <2>7 DEF vars, Depth
    <2> QED BY <2>2, <2>3, <2>4, <2>5, <2>6, <2>7 DEF Next
<1>3. ColdInv /\ DepthInv => InstancesBounded
    <2> SUFFICES ASSUME InstancesInv, Depth PROVE InstancesBounded
        BY DEF ColdInv, DepthInv, InstancesBounded
    <2> DEFINE T == {instanceStack[k] : k \in DOMAIN instanceStack}
    <2>1. instanceStack \in Seq(Handle \cup {Nil}) /\ Len(instanceStack) \in Nat
        BY LenProperties DEF InstancesInv, TypeOK
    <2>2. IsFiniteSet(T) /\ Cardinality(T) \in Nat /\ Cardinality(T) <= Len(instanceStack)
        BY <2>1, StackCardinality
    <2>3. Nil \notin T
        BY DEF InstancesInv
    <2>4. live = (T \cup {instance}) \ {Nil}
        BY DEF InstancesInv, Needed
    <2>5. CASE instance = Nil \/ instance \in T
        <3>1. live = T
            BY <2>3, <2>4, <2>5
        <3> QED BY <2>1, <2>2, <3>1 DEF Depth, InstancesBounded
    <2>6. CASE instance # Nil /\ instance \notin T
        <3>1. live = T \cup {instance}
            BY <2>3, <2>4, <2>6
        <3>2. Cardinality(T \cup {instance}) = Cardinality(T) + 1
            BY <2>2, <2>6, FS_AddElement
        <3>3. Len(instanceStack) < MaxWasmerInstances
            BY <2>6 DEF Depth
        <3> QED BY <2>1, <2>2, <3>1, <3>2, <3>3 DEF InstancesBounded
    <2> QED BY <2>5, <2>6
<1> QED BY <1>1, <1>2, <1>3, InstancesInvTheorem, PTL DEF Spec
=============================================================================
