--------------------------- MODULE VMHooks_proofs ---------------------------
(***************************************************************************)
(* Proofs about VMHooks, for every contract, all arguments of its calls,   *)
(* all answers of the node, any memory, any depth of nested calls and words*)
(* of every width: the guards of math/overflow.go are exact, memory        *)
(* accesses agree, protected keys hold locks only, big integers are kept,  *)
(* and a failed API function leaves no trace.                              *)
(*                                                                         *)
(* An API function is a chain of operators on the record of the execution. *)
(* Quiet(s, t) says that a chain that began in s has come to t and done    *)
(* nothing yet that a later fault would have to undo.  There is one lemma  *)
(* per operator, Quiet(s, t) => Quiet(s, operator of t), so that what a    *)
(* function does follows from its definition and the lemmas of the         *)
(* operators in it.  After(s, t) is what holds when the function returns.  *)
(***************************************************************************)
EXTENDS VMHooks, BasicTheorems

-----------------------------------------------------------------------------
(* Division with remainder *)

\* What is below the modulus is its own remainder.
LEMMA ModBelow ==
  ASSUME NEW m \in Nat \ {0}, NEW x \in Nat, x < m
  PROVE  x % m = x
OBVIOUS

\* One modulus is lost between the modulus and its double.
LEMMA ModOnce ==
  ASSUME NEW m \in Nat \ {0}, NEW x \in Nat, m <= x, x < 2 * m
  PROVE  x % m = x - m
OBVIOUS

\* At least one modulus is lost above it.
LEMMA ModAbove ==
  ASSUME NEW m \in Nat \ {0}, NEW x \in Nat, m <= x
  PROVE  /\ x % m \in Nat
         /\ x % m <= x - m
         /\ x % m < m
OBVIOUS

\* Division undoes a multiplication.
LEMMA DivOfProduct ==
  ASSUME NEW a \in Nat, NEW b \in Nat \ {0}
  PROVE  (a * b) \div b = a
OBVIOUS

\* A quotient times its divisor is at most the dividend.
LEMMA DivBelow ==
  ASSUME NEW r \in Nat, NEW b \in Nat \ {0}
  PROVE  (r \div b) * b <= r
OBVIOUS

\* The bounds of the words: a signed word is a half of an unsigned one, on
\* either side of zero (math.MaxInt64, math.MinInt64).
LEMMA Bounds ==
  /\ Modulus \in Nat \ {0}
  /\ Modulus = MaxUint + 1
  /\ MaxInt \in Nat
  /\ MinInt \in Int
  /\ MinInt = -(MaxInt + 1)
  /\ Modulus = 2 * MaxInt + 2
BY MaxUintAssumption DEF Modulus, MaxInt, MinInt

-----------------------------------------------------------------------------
(* Wrapping *)

\* The wrapped sum of two unsigned words.
LEMMA WrappedSum ==
  ASSUME NEW a \in Uint, NEW b \in Uint
  PROVE  WrapU(a + b) = IF a + b <= MaxUint THEN a + b ELSE (a + b) - Modulus
<1>1. /\ a \in Nat /\ b \in Nat
      /\ a < Modulus /\ b < Modulus
  BY Bounds, MaxUintAssumption DEF Uint
<1>2. CASE a + b <= MaxUint
  BY <1>1, <1>2, ModBelow, Bounds, MaxUintAssumption DEF WrapU
<1>3. CASE ~(a + b <= MaxUint)
  <2>1. a + b \in Nat /\ Modulus <= a + b /\ a + b < 2 * Modulus
    BY <1>1, <1>3, Bounds, MaxUintAssumption
  <2>2. (a + b) % Modulus = (a + b) - Modulus
    BY <2>1, ModOnce, Bounds
  <2>. QED  BY <2>2, <1>3 DEF WrapU
<1>. QED  BY <1>2, <1>3

\* An integer that is less than one modulus outside the signed words.
LEMMA WrappedSigned ==
  ASSUME NEW x \in Int, MinInt - Modulus <= x, x <= MaxInt + Modulus
  PROVE  WrapS(x) = IF x < MinInt THEN x + Modulus
                    ELSE IF x > MaxInt THEN x - Modulus ELSE x
<1>. DEFINE y == x - MinInt
<1>1. y \in Int /\ -Modulus <= y /\ y < 2 * Modulus
  BY Bounds
<1>2. CASE x < MinInt
  <2>1. y < 0
    BY <1>2, Bounds
  <2>2. y % Modulus = y + Modulus
    BY <1>1, <2>1, Bounds
  <2>. QED  BY <2>2, <1>2, Bounds DEF WrapS
<1>3. CASE x > MaxInt
  <2>1. y \in Nat /\ Modulus <= y
    BY <1>1, <1>3, Bounds
  <2>2. y % Modulus = y - Modulus
    BY <1>1, <2>1, ModOnce, Bounds
  <2>. QED  BY <2>2, <1>3, Bounds DEF WrapS
<1>4. CASE ~(x < MinInt) /\ ~(x > MaxInt)
  <2>1. y \in Nat /\ y < Modulus
    BY <1>1, <1>4, Bounds
  <2>2. y % Modulus = y
    BY <2>1, ModBelow, Bounds
  <2>. QED  BY <2>2, <1>4, Bounds DEF WrapS
<1>. QED  BY <1>2, <1>3, <1>4

-----------------------------------------------------------------------------
(* The guards *)

\* AddUint64: a sum that wrapped is smaller than its terms.
LEMMA AddUint64Exact ==
  ASSUME NEW a \in Uint, NEW b \in Uint
  PROVE  AddUint64(a, b) = IF a + b \in Uint THEN a + b ELSE MaxUint
BY WrappedSum, Bounds, MaxUintAssumption DEF AddUint64, Uint

\* SubUint64 compares before it subtracts.
LEMMA SubUint64Exact ==
  ASSUME NEW a \in Uint, NEW b \in Uint
  PROVE  SubUint64(a, b) = IF a - b \in Uint THEN a - b ELSE 0
BY MaxUintAssumption DEF SubUint64, Uint

\* MulUint64: the division of a product that wrapped does not give the factor
\* back, because a * b is more than the product that is left.
LEMMA MulUint64Exact ==
  ASSUME NEW a \in Uint, NEW b \in Uint
  PROVE  MulUint64(a, b) = IF a * b \in Uint THEN a * b ELSE MaxUint
<1>. DEFINE res == WrapU(a * b)
<1>1. a \in Nat /\ b \in Nat /\ a * b \in Nat
  BY MaxUintAssumption DEF Uint
<1>2. MulUint64(a, b) = IF a = 0 \/ b = 0 \/ a = res \div b THEN res ELSE MaxUint
  BY DEF MulUint64
<1>3. a * b \in Uint <=> a * b < Modulus
  BY <1>1, Bounds, MaxUintAssumption DEF Uint
<1>4. CASE a = 0 \/ b = 0
  <2>1. a * b = 0
    BY <1>1, <1>4
  <2>2. res = 0
    BY <2>1, ModBelow, Bounds DEF WrapU
  <2>. QED  BY <1>2, <1>3, <1>4, <2>1, <2>2, Bounds
<1>5. CASE a # 0 /\ b # 0 /\ a * b < Modulus
  <2>1. res = a * b
    BY <1>1, <1>5, ModBelow, Bounds DEF WrapU
  <2>2. res \div b = a
    BY <1>1, <1>5, <2>1, DivOfProduct
  <2>. QED  BY <1>2, <1>3, <1>5, <2>1, <2>2
<1>6. CASE a # 0 /\ b # 0 /\ ~(a * b < Modulus)
  <2>1. Modulus <= a * b
    BY <1>1, <1>6, Bounds
  <2>2. /\ res \in Nat
        /\ res <= a * b - Modulus
    BY <1>1, <2>1, ModAbove, Bounds DEF WrapU
  <2>3. res < a * b
    <3>. HIDE DEF res
    <3>. QED  BY <1>1, <2>2, Bounds
  <2>4. (res \div b) * b <= res
    <3>. HIDE DEF res
    <3>. QED  BY <1>1, <1>6, <2>2, DivBelow
  <2>5. a # res \div b
    <3>. HIDE DEF res
    <3>. SUFFICES ASSUME a = res \div b  PROVE FALSE
      OBVIOUS
    <3>1. a * b <= res
      BY <2>4
    <3>. QED  BY <3>1, <2>2, <2>3, <1>1
  <2>. QED  BY <1>2, <1>3, <1>6, <2>5
<1>. QED  BY <1>4, <1>5, <1>6

\* AddInt64 and AddInt32: a sum that wrapped is on the wrong side of its term.
LEMMA AddIntExact ==
  ASSUME NEW a \in SInt, NEW b \in SInt
  PROVE  AddInt(a, b) = IF a + b \in SInt THEN a + b ELSE MaxInt
<1>. DEFINE res == WrapS(a + b)
<1>1. /\ a \in Int /\ MinInt <= a /\ a <= MaxInt
      /\ b \in Int /\ MinInt <= b /\ b <= MaxInt
  BY Bounds DEF SInt
<1>2. a + b \in Int /\ MinInt - Modulus <= a + b /\ a + b <= MaxInt + Modulus
  BY <1>1, Bounds
<1>3. res = IF a + b < MinInt THEN a + b + Modulus
            ELSE IF a + b > MaxInt THEN (a + b) - Modulus ELSE a + b
  BY <1>2, WrappedSigned
<1>4. a + b \in SInt <=> ~(a + b < MinInt) /\ ~(a + b > MaxInt)
  BY <1>2, Bounds DEF SInt
<1>5. ((res > a) <=> (b > 0)) <=> a + b \in SInt
  <2>. HIDE DEF res
  <2>. QED  BY <1>1, <1>3, <1>4, Bounds
<1>6. a + b \in SInt => res = a + b
  BY <1>3, <1>4
<1>7. AddInt(a, b) = IF (res > a) <=> (b > 0) THEN res ELSE MaxInt
  BY DEF AddInt
<1>. QED  BY <1>5, <1>6, <1>7

\* SubInt64: the same for a difference.
LEMMA SubIntExact ==
  ASSUME NEW a \in SInt, NEW b \in SInt
  PROVE  SubInt(a, b) = IF a - b \in SInt THEN a - b ELSE MinInt
<1>. DEFINE res == WrapS(a - b)
<1>1. /\ a \in Int /\ MinInt <= a /\ a <= MaxInt
      /\ b \in Int /\ MinInt <= b /\ b <= MaxInt
  BY Bounds DEF SInt
<1>2. a - b \in Int /\ MinInt - Modulus <= a - b /\ a - b <= MaxInt + Modulus
  BY <1>1, Bounds
<1>3. res = IF a - b < MinInt THEN a - b + Modulus
            ELSE IF a - b > MaxInt THEN a - b - Modulus ELSE a - b
  BY <1>2, WrappedSigned
<1>4. a - b \in SInt <=> ~(a - b < MinInt) /\ ~(a - b > MaxInt)
  BY <1>2, Bounds DEF SInt
<1>5. ((res < a) <=> (b > 0)) <=> a - b \in SInt
  <2>. HIDE DEF res
  <2>. QED  BY <1>1, <1>3, <1>4, Bounds
<1>6. a - b \in SInt => res = a - b
  BY <1>3, <1>4
<1>7. SubInt(a, b) = IF (res < a) <=> (b > 0) THEN res ELSE MinInt
  BY DEF SubInt
<1>. QED  BY <1>5, <1>6, <1>7

\* AddUint64, SubUint64, MulUint64, AddInt and SubInt return the exact result
\* when it is a word and the bound that they document otherwise, for every width
\* and every pair of words (math/overflow.go).
THEOREM SaturationExactTheorem == SaturationExact
BY AddUint64Exact, SubUint64Exact, MulUint64Exact, AddIntExact, SubIntExact
   DEF SaturationExact, UnsignedSaturates, SignedSaturates

-----------------------------------------------------------------------------
(* What an API function does to an execution *)

\* The fields that the invariant is about.
Fields == {"mem", "bigInts", "bigIntStack", "updates", "written", "protection",
           "returnData", "logs", "gasUsed", "ret", "status", "readOnly"}

\* ProtectedKeysHoldLocks, of the history of one execution.
WrittenInv(written) ==
    \A cell \in DOMAIN written :
        /\ ~IsProtocolProtectedKey(cell[2])
        /\ IsVMProtectedKey(cell[2]) => written[cell][1] = "lock"

\* A memory is some pages long; what the bytes are does not matter here.
IsMemory(m) == IsStack(m) /\ \E n \in 1 .. MaxPages : Len(m) = PageSize * n

\* A map, as opposed to any other value.
IsFunction(f) == f = [x \in DOMAIN f |-> f[x]]

\* What is true of an execution at all times: the keys are protected, only locks
\* are under protected keys, the cache is indexed by accounts and keys, the
\* memory consists of pages, and finitely many big integers are in use.
Sound(s) ==
    /\ Fields \subseteq DOMAIN s
    /\ s.protection = TRUE
    /\ WrittenInv(s.written)
    /\ \A cell \in DOMAIN s.updates : cell = <<cell[1], cell[2]>>
    /\ IsMemory(s.mem)
    /\ IsFiniteSet(DOMAIN s.bigInts) /\ IsFunction(s.bigInts)

\* The storage reads the same: values that were only read may be in the cache.
Reads(s, t) ==
    \A address, key : CachedOrStored(t, address, key) = CachedOrStored(s, address, key)

\* Nothing was stored, returned or logged on the way from s to t.
NoTrace(s, t) == Reads(s, t) /\ t.returnData = s.returnData /\ t.logs = s.logs

\* An API function that was called in s has come to t, without a trace so far.
Quiet(s, t) == Sound(t) /\ t.bigIntStack = s.bigIntStack /\ NoTrace(s, t)
\* An API function that was called in s has returned in t.
After(s, t) ==
    Sound(t) /\ t.bigIntStack = s.bigIntStack /\ (t.status = "failed" => NoTrace(s, t))


\* The fields that Quiet looks at.
Same(s, t) ==
    /\ DOMAIN t = DOMAIN s
    /\ \A f \in Fields \ {"gasUsed", "ret", "status"} : t[f] = s[f]

\* The charges, the result and the status are free.
LEMMA SameQuiet ==
  ASSUME NEW s, NEW t, NEW u, Quiet(s, t), Same(t, u)
  PROVE  Quiet(s, u)
<1>1. /\ DOMAIN u = DOMAIN t
      /\ u.mem = t.mem /\ u.bigInts = t.bigInts /\ u.bigIntStack = t.bigIntStack
      /\ u.updates = t.updates /\ u.written = t.written /\ u.protection = t.protection
      /\ u.returnData = t.returnData /\ u.logs = t.logs
  BY DEF Same, Fields
<1>2. Sound(u)
  BY <1>1 DEF Quiet, Sound
<1>3. Reads(s, u)
  BY <1>1 DEF Quiet, NoTrace, Reads, CachedOrStored, IsCached
<1>. QED  BY <1>1, <1>2, <1>3 DEF Quiet, NoTrace

\* UseGas.
LEMMA QuietUseGas ==
  ASSUME NEW s, NEW t, NEW gas, Quiet(s, t)
  PROVE  Quiet(s, UseGas(t, gas))
<1>1. Same(t, UseGas(t, gas))
  BY DEF Same, UseGas, Fields, Quiet, Sound
<1>. QED  BY <1>1, SameQuiet

\* The charges of the API functions.
LEMMA QuietCharge ==
  ASSUME NEW s, NEW t, Quiet(s, t)
  PROVE  /\ Quiet(s, Charge(t))
         /\ \A perByte, n : Quiet(s, ChargeBytes(t, perByte, n))
         /\ \A key : Quiet(s, ChargeKey(t, key))
BY QuietUseGas DEF Charge, ChargeBytes, ChargeKey

\* The result of a function.
LEMMA QuietReturn ==
  ASSUME NEW s, NEW t, NEW value, Quiet(s, t)
  PROVE  Quiet(s, Return(t, value))
<1>1. Same(t, Return(t, value))
  BY DEF Same, Return, Fields, Quiet, Sound
<1>. QED  BY <1>1, SameQuiet

\* The end of an execution.
LEMMA QuietStatus ==
  ASSUME NEW s, NEW t, NEW status, Quiet(s, t)
  PROVE  Quiet(s, [t EXCEPT !.status = status])
<1>1. Same(t, [t EXCEPT !.status = status])
  BY DEF Same, Fields, Quiet, Sound
<1>. QED  BY <1>1, SameQuiet

\* WithFault, and a panic.
LEMMA QuietFault ==
  ASSUME NEW s, NEW t, Quiet(s, t)
  PROVE  Quiet(s, Fault(t)) /\ Quiet(s, Panic(t))
BY QuietStatus, QuietUseGas DEF Fault, Panic

\* useExtraGasForOperations, whatever the operands cost.
LEMMA QuietUseExtraGas ==
  ASSUME NEW s, NEW t, NEW handles, Quiet(s, t)
  PROVE  Quiet(s, UseExtraGas(t, handles))
<1>1. ASSUME NEW used PROVE Same(t, [t EXCEPT !.gasUsed = used])
  BY DEF Same, Fields, Quiet, Sound
<1>2. ASSUME NEW used PROVE Quiet(s, [t EXCEPT !.gasUsed = used])
  BY <1>1, SameQuiet
<1>. QED  BY <1>2 DEF UseExtraGas

\* A map with one entry more.
LEMMA Put2Is ==
  ASSUME NEW f, NEW x, NEW y
  PROVE  /\ DOMAIN Put2(f, x, y) = DOMAIN f \cup {x}
         /\ Put2(f, x, y)[x] = y
         /\ \A z \in DOMAIN f : z # x => Put2(f, x, y)[z] = f[z]
         /\ IsFunction(Put2(f, x, y))
BY DEF Put2, IsFunction

\* The fields that Quiet looks at, but for the big integers.
LEMMA QuietIntegers ==
  ASSUME NEW s, NEW t, NEW ints, Quiet(s, t), IsFiniteSet(DOMAIN ints), IsFunction(ints)
  PROVE  Quiet(s, [t EXCEPT !.bigInts = ints])
<1>. DEFINE u == [t EXCEPT !.bigInts = ints]
<1>1. /\ DOMAIN u = DOMAIN t
      /\ u.mem = t.mem /\ u.bigInts = ints /\ u.bigIntStack = t.bigIntStack
      /\ u.updates = t.updates /\ u.written = t.written /\ u.protection = t.protection
      /\ u.returnData = t.returnData /\ u.logs = t.logs
  BY DEF Quiet, Sound, Fields
<1>. HIDE DEF u
<1>2. Sound(u)
  BY <1>1 DEF Quiet, Sound
<1>3. Reads(s, u)
  BY <1>1 DEF Quiet, NoTrace, Reads, CachedOrStored, IsCached
<1>4. Quiet(s, u)
  BY <1>1, <1>2, <1>3 DEF Quiet, NoTrace
<1>. QED  BY <1>4 DEF u

\* An integer is set.
LEMMA QuietSetBigInt ==
  ASSUME NEW s, NEW t, NEW handle, NEW value, Quiet(s, t)
  PROVE  Quiet(s, SetBigInt(t, handle, value))
<1>. DEFINE ints == Put2(t.bigInts, handle, value)
<1>1. IsFiniteSet(DOMAIN ints)
  <2>1. IsFiniteSet(DOMAIN t.bigInts)
    BY DEF Quiet, Sound
  <2>2. DOMAIN ints = DOMAIN t.bigInts \cup {handle}
    BY DEF Put2
  <2>. QED  BY <2>1, <2>2, FS_AddElement
<1>2. IsFunction(ints)
  BY Put2Is
<1>3. SetBigInt(t, handle, value) = [t EXCEPT !.bigInts = ints]
  BY DEF SetBigInt
<1>. QED  BY <1>1, <1>2, <1>3, QuietIntegers

\* Put of contexts/bigint.go.
LEMMA QuietPutBigInt ==
  ASSUME NEW s, NEW t, NEW value, Quiet(s, t)
  PROVE  Quiet(s, PutBigInt(t, value))
<1>1. PutBigInt(t, value) = Return(SetBigInt(t, NewHandle(t), value), NewHandle(t))
  BY DEF PutBigInt, SetBigInt
<1>. QED  BY <1>1, QuietSetBigInt, QuietReturn

\* Integers that were not in use become zeroes.
LEMMA QuietGetBigInts ==
  ASSUME NEW s, NEW t, NEW handles, IsFiniteSet(handles), Quiet(s, t)
  PROVE  Quiet(s, GetBigInts(t, handles))
<1>. DEFINE ints == [h \in DOMAIN t.bigInts \cup handles |->
                        IF h \in DOMAIN t.bigInts THEN t.bigInts[h] ELSE 0]
<1>1. IsFiniteSet(DOMAIN ints)
  <2>1. IsFiniteSet(DOMAIN t.bigInts) /\ DOMAIN ints = DOMAIN t.bigInts \cup handles
    BY DEF Quiet, Sound
  <2>. QED  BY <2>1, FS_Union
<1>2. IsFunction(ints)
  BY DEF IsFunction
<1>3. GetBigInts(t, handles) = [t EXCEPT !.bigInts = ints]
  BY DEF GetBigInts
<1>. QED  BY <1>1, <1>2, <1>3, QuietIntegers

\* GetOne, GetTwo and GetThree.
LEMMA QuietGetOne ==
  ASSUME NEW s, NEW t, Quiet(s, t)
  PROVE  \A a, b, c : /\ Quiet(s, GetBigInts(t, {a}))
                      /\ Quiet(s, GetBigInts(t, {a, b}))
                      /\ Quiet(s, GetBigInts(t, {a, b, c}))
<1>. TAKE a, b, c
<1>1. IsFiniteSet({a}) /\ IsFiniteSet({a, b}) /\ IsFiniteSet({a, b, c})
  <2>1. IsFiniteSet({a})
    BY FS_Singleton
  <2>2. IsFiniteSet({a} \cup {b})
    BY <2>1, FS_AddElement
  <2>3. IsFiniteSet(({a} \cup {b}) \cup {c})
    BY <2>2, FS_AddElement
  <2>4. {a, b} = {a} \cup {b} /\ {a, b, c} = ({a} \cup {b}) \cup {c}
    OBVIOUS
  <2>. QED  BY <2>1, <2>2, <2>3, <2>4
<1>. QED  BY <1>1, QuietGetBigInts

\* Reading caches.
LEMMA QuietGetStorageUnmetered ==
  ASSUME NEW s, NEW t, NEW address, NEW key, Quiet(s, t)
  PROVE  Quiet(s, GetStorageUnmetered(t, address, key))
<1>. DEFINE cell == <<address, key>>
            new == Put2(t.updates, cell, GetStorageData(address, key))
            u == [t EXCEPT !.updates = new]
<1>1. SUFFICES ASSUME ~IsCached(t, address, key)
               PROVE  Quiet(s, u)
  BY DEF GetStorageUnmetered
<1>2. /\ DOMAIN u = DOMAIN t
      /\ u.mem = t.mem /\ u.bigInts = t.bigInts /\ u.bigIntStack = t.bigIntStack
      /\ u.updates = new /\ u.written = t.written /\ u.protection = t.protection
      /\ u.returnData = t.returnData /\ u.logs = t.logs
  BY DEF Quiet, Sound, Fields
<1>3. /\ DOMAIN new = DOMAIN t.updates \cup {cell}
      /\ new[cell] = GetStorageData(address, key)
      /\ \A z \in DOMAIN t.updates : z # cell => new[z] = t.updates[z]
  BY DEF Put2
<1>4. cell \notin DOMAIN t.updates
  BY <1>1 DEF IsCached
<1>. HIDE DEF u, new
<1>5. Sound(u)
  <2>1. ASSUME NEW z \in DOMAIN u.updates PROVE z = <<z[1], z[2]>>
    BY <1>2, <1>3 DEF Quiet, Sound
  <2>. QED  BY <1>2, <2>1 DEF Quiet, Sound
<1>6. ASSUME NEW a, NEW k PROVE CachedOrStored(u, a, k) = CachedOrStored(t, a, k)
  <2>1. CASE <<a, k>> = cell
    <3>1. a = address /\ k = key
      BY <2>1
    <3>. QED  BY <3>1, <1>2, <1>3, <1>4 DEF CachedOrStored, IsCached
  <2>2. CASE <<a, k>> # cell
    BY <2>2, <1>2, <1>3, <1>4 DEF CachedOrStored, IsCached
  <2>. QED  BY <2>1, <2>2
<1>7. Reads(s, u)
  BY <1>6 DEF Quiet, NoTrace, Reads
<1>. QED  BY <1>2, <1>5, <1>7 DEF Quiet, NoTrace

-----------------------------------------------------------------------------
(* Memory *)

\* Another memory.
LEMMA QuietMemory ==
  ASSUME NEW s, NEW t, NEW m, Quiet(s, t), IsMemory(m)
  PROVE  Quiet(s, [t EXCEPT !.mem = m])
<1>. DEFINE u == [t EXCEPT !.mem = m]
<1>1. /\ DOMAIN u = DOMAIN t
      /\ u.mem = m /\ u.bigInts = t.bigInts /\ u.bigIntStack = t.bigIntStack
      /\ u.updates = t.updates /\ u.written = t.written /\ u.protection = t.protection
      /\ u.returnData = t.returnData /\ u.logs = t.logs
  BY DEF Quiet, Sound, Fields
<1>. HIDE DEF u
<1>2. Sound(u)
  BY <1>1 DEF Quiet, Sound
<1>3. Reads(s, u)
  BY <1>1 DEF Quiet, NoTrace, Reads, CachedOrStored, IsCached
<1>4. Quiet(s, u)
  BY <1>1, <1>2, <1>3 DEF Quiet, NoTrace
<1>. QED  BY <1>4 DEF u

\* A map on 1 .. n is a sequence of length n.
LEMMA FunctionIsStack ==
  ASSUME NEW n \in Nat, NEW f, DOMAIN f = 1 .. n, IsFunction(f)
  PROVE  IsStack(f) /\ Len(f) = n
<1>. DEFINE S == {f[i] : i \in 1 .. n}
<1>1. f = [i \in 1 .. n |-> f[i]]
  BY DEF IsFunction
<1>2. f \in [1 .. n -> S]
  BY <1>1
<1>3. f \in Seq(S)
  BY <1>2
<1>4. Len(f) = n
  BY <1>3
<1>. QED  BY <1>3, <1>4 DEF IsStack

\* A new page.
Zeroes == [i \in 1 .. PageSize |-> 0]

\* A memory that is not full grows by a page, behind what it has.
LEMMA MemoryGrows ==
  ASSUME NEW m, IsMemory(m), Len(m) # PageSize * MaxPages
  PROVE  LET g == m \o Zeroes
         IN  /\ IsMemory(g) /\ Len(m) \in Nat /\ Len(g) = Len(m) + PageSize
             /\ DOMAIN m = 1 .. Len(m) /\ DOMAIN g = 1 .. Len(m) + PageSize
             /\ \A i \in 1 .. Len(m) : g[i] = m[i]
<1>. DEFINE g == m \o Zeroes
<1>1. PICK S : m \in Seq(S)
  BY DEF IsMemory, IsStack
<1>2. PICK n \in 1 .. MaxPages : Len(m) = PageSize * n
  BY DEF IsMemory
<1>3. PageSize \in Nat /\ MaxPages \in Nat
  BY HooksAssumption
<1>4. Zeroes \in Seq({0}) /\ Len(Zeroes) = PageSize
  BY <1>3 DEF Zeroes
<1>5. m \in Seq(S \cup {0}) /\ Zeroes \in Seq(S \cup {0})
  BY <1>1, <1>4
<1>6. /\ g \in Seq(S \cup {0})
      /\ Len(g) = Len(m) + Len(Zeroes)
      /\ \A i \in 1 .. Len(m) + Len(Zeroes) :
            g[i] = IF i <= Len(m) THEN m[i] ELSE Zeroes[i - Len(m)]
  BY <1>5, ConcatProperties
<1>0. \A i \in 1 .. Len(m) + PageSize : i <= Len(m) => g[i] = m[i]
  BY <1>4, <1>6
<1>7. Len(m) \in Nat /\ DOMAIN m = 1 .. Len(m) /\ DOMAIN g = 1 .. Len(g)
  BY <1>1, <1>6, LenProperties
<1>. HIDE DEF g
<1>8. n # MaxPages
  BY <1>2
<1>9. n + 1 \in 1 .. MaxPages /\ PageSize * n + PageSize = PageSize * (n + 1)
  BY <1>2, <1>3, <1>8
<1>10. ASSUME NEW i \in 1 .. Len(m) PROVE g[i] = m[i]
  <2>. DEFINE l == Len(m)
  <2>0. l \in Nat
    BY <1>7
  <2>. HIDE DEF l
  <2>2. i \in 1 .. l
    BY DEF l
  <2>3. i \in 1 .. l + PageSize /\ i <= l
    BY <1>3, <2>0, <2>2
  <2>1. i \in 1 .. Len(m) + PageSize /\ i <= Len(m)
    BY <2>3 DEF l
  <2>. QED  BY <2>1, <1>0
<1>11. IsMemory(g)
  BY <1>2, <1>4, <1>6, <1>9 DEF IsMemory, IsStack
<1>12. g = m \o Zeroes
  BY DEF g
<1>. QED  BY <1>4, <1>6, <1>7, <1>10, <1>11, <1>12

\* A memory with other bytes is one of the same length.
LEMMA MemoryPatched ==
  ASSUME NEW m, NEW g, IsMemory(m), IsFunction(g), DOMAIN g = DOMAIN m
  PROVE  IsMemory(g) /\ Len(g) = Len(m)
<1>1. Len(m) \in Nat /\ DOMAIN m = 1 .. Len(m)
  BY StackEmpty DEF IsMemory
<1>2. IsStack(g) /\ Len(g) = Len(m)
  BY <1>1, FunctionIsStack
<1>. QED  BY <1>2 DEF IsMemory

\* The memory after a store that is not empty and not refused at once.
Grown(m, offset, data) ==
    IF AddInt(offset, Len(data)) > Len(m) THEN m \o Zeroes ELSE m

\* The bytes after a store into g.
Patched(g, offset, data) ==
    [i \in DOMAIN g |->
        IF i \in offset + 1 .. AddInt(offset, Len(data)) THEN data[i - offset] ELSE g[i]]

\* The four outcomes of MemStore, in the order of its tests.
LEMMA MemStoreIs ==
  ASSUME NEW t, NEW offset, NEW data
  PROVE  LET end == AddInt(offset, Len(data))
             grown == Grown(t.mem, offset, data)
         IN  MemStore(t, offset, data) =
               IF data = <<>> THEN t
               ELSE IF offset < 0 \/ (end > Len(t.mem) /\ Len(t.mem) = PageSize * MaxPages)
               THEN Fault(t)
               ELSE IF end > Len(grown) THEN Fault([t EXCEPT !.mem = grown])
               ELSE [t EXCEPT !.mem = Patched(grown, offset, data)]
BY DEF MemStore, Grown, Patched, Zeroes

\* A memory stays one, grown and written to.
LEMMA GrownMemory ==
  ASSUME NEW m, NEW offset, NEW data, IsMemory(m),
         ~(AddInt(offset, Len(data)) > Len(m) /\ Len(m) = PageSize * MaxPages)
  PROVE  /\ IsMemory(Grown(m, offset, data))
         /\ IsMemory(Patched(Grown(m, offset, data), offset, data))
<1>. DEFINE g == Grown(m, offset, data)
            p == Patched(g, offset, data)
<1>1. IsMemory(g)
  BY MemoryGrows DEF Grown
<1>2. IsFunction(p) /\ DOMAIN p = DOMAIN g
  BY DEF Patched, IsFunction
<1>3. IsMemory(p)
  <2>. HIDE DEF g, p
  <2>. QED  BY <1>1, <1>2, MemoryPatched
<1>. QED  BY <1>1, <1>3

\* MemStore, followed by WithFault.
LEMMA QuietMemStore ==
  ASSUME NEW s, NEW t, NEW offset, NEW data, Quiet(s, t)
  PROVE  Quiet(s, MemStore(t, offset, data))
<1>. DEFINE end == AddInt(offset, Len(data))
            g == Grown(t.mem, offset, data)
            refused == offset < 0 \/ (end > Len(t.mem) /\ Len(t.mem) = PageSize * MaxPages)
<1>1. CASE data = <<>>
  BY <1>1, MemStoreIs
<1>2. CASE data # <<>> /\ refused
  <2>1. MemStore(t, offset, data) = Fault(t)
    BY <1>2, MemStoreIs
  <2>. QED  BY <2>1, QuietFault
<1>3. CASE data # <<>> /\ ~refused
  <2>1. IsMemory(t.mem)
    BY DEF Quiet, Sound
  <2>2. IsMemory(g) /\ IsMemory(Patched(g, offset, data))
    BY <1>3, <2>1, GrownMemory
  <2>3. MemStore(t, offset, data) = IF end > Len(g) THEN Fault([t EXCEPT !.mem = g])
                                    ELSE [t EXCEPT !.mem = Patched(g, offset, data)]
    BY <1>3, MemStoreIs
  <2>. HIDE DEF g
  <2>4. Quiet(s, [t EXCEPT !.mem = g]) /\ Quiet(s, [t EXCEPT !.mem = Patched(g, offset, data)])
    BY <2>2, QuietMemory
  <2>. QED  BY <2>3, <2>4, QuietFault
<1>. QED  BY <1>1, <1>2, <1>3

\* A store whose length is the result.
LEMMA QuietStoreResult ==
  ASSUME NEW s, NEW t, Quiet(s, t), NEW offset, NEW data
  PROVE  Quiet(s, StoreResult(t, offset, data))
<1>1. Quiet(s, MemStore(t, offset, data))
  BY QuietMemStore
<1>. QED  BY <1>1, QuietReturn DEF StoreResult, Store, IfRunning

\* A function has done nothing when it begins.
LEMMA QuietSelf ==
  ASSUME NEW s, Sound(s)
  PROVE  Quiet(s, s)
BY DEF Quiet, NoTrace, Reads

\* A function that never writes is done at any time.
LEMMA QuietAfter ==
  ASSUME NEW s, NEW t, Quiet(s, t)
  PROVE  After(s, t)
BY DEF Quiet, After

\* The steps before a function writes do not stop the execution.
LEMMA StatusKept ==
  ASSUME NEW s, "status" \in DOMAIN s
  PROVE  /\ "status" \in DOMAIN Charge(s) /\ Charge(s).status = s.status
         /\ \A perByte, n : /\ "status" \in DOMAIN ChargeBytes(s, perByte, n)
                            /\ ChargeBytes(s, perByte, n).status = s.status
         /\ \A handles : /\ "status" \in DOMAIN GetBigInts(s, handles)
                         /\ GetBigInts(s, handles).status = s.status
BY DEF Charge, ChargeBytes, UseGas, GetBigInts

\* The cell of a key of the current account.
Cell(t, key) == <<t.address, key>>

\* What a SetStorage that is not refused leaves.
SetStorageWrites(t, key, value, what) ==
    LET change == StorageChange(CachedOrStored(t, t.address, key), value)
    IN  [UseGas(ChargeKey(t, key), change[2]) EXCEPT
            !.updates = Put2(@, Cell(t, key), value), !.written = Put2(@, Cell(t, key), what),
            !.ret = change[1]]

\* The three outcomes of SetStorage.
LEMMA SetStorageIs ==
  ASSUME NEW t, NEW key, NEW value, NEW what
  PROVE  SetStorage(t, key, value, what) =
           IF t.readOnly THEN Return(t, StorageStatus.StorageUnchanged)
           ELSE IF IsProtocolProtectedKey(key) \/ (IsVMProtectedKey(key) /\ t.protection)
           THEN Fault(t)
           ELSE SetStorageWrites(t, key, value, what)
BY DEF SetStorage, SetStorageWrites, Cell

\* Charging changes the gas only.
LEMMA ChargesKeep ==
  ASSUME NEW t, Fields \subseteq DOMAIN t, NEW key, NEW gas
  PROVE  LET u == UseGas(ChargeKey(t, key), gas)
         IN  /\ Fields \subseteq DOMAIN u
             /\ \A f \in Fields \ {"gasUsed"} : u[f] = t[f]
<1>1. ASSUME NEW v, NEW g, Fields \subseteq DOMAIN v
      PROVE  /\ Fields \subseteq DOMAIN UseGas(v, g)
             /\ \A f \in Fields \ {"gasUsed"} : UseGas(v, g)[f] = v[f]
  BY <1>1 DEF UseGas, Fields
<1>2. /\ Fields \subseteq DOMAIN ChargeKey(t, key)
      /\ \A f \in Fields \ {"gasUsed"} : ChargeKey(t, key)[f] = t[f]
  BY <1>1 DEF ChargeKey, ChargeBytes
<1>. HIDE DEF Fields
<1>. QED  BY <1>1, <1>2

\* The fields after a write.
LEMMA SetStorageWritesFields ==
  ASSUME NEW t, Fields \subseteq DOMAIN t, NEW key, NEW value, NEW what
  PROVE  LET u == SetStorageWrites(t, key, value, what)
         IN  /\ Fields \subseteq DOMAIN u
             /\ u.mem = t.mem /\ u.bigInts = t.bigInts /\ u.bigIntStack = t.bigIntStack
             /\ u.protection = t.protection /\ u.status = t.status
             /\ u.updates = Put2(t.updates, Cell(t, key), value)
             /\ u.written = Put2(t.written, Cell(t, key), what)
<1>. DEFINE gas == StorageChange(CachedOrStored(t, t.address, key), value)[2]
            ret == StorageChange(CachedOrStored(t, t.address, key), value)[1]
            v == UseGas(ChargeKey(t, key), gas)
<1>1. /\ Fields \subseteq DOMAIN v
      /\ \A f \in Fields \ {"gasUsed"} : v[f] = t[f]
  BY ChargesKeep
<1>2. SetStorageWrites(t, key, value, what) =
        [v EXCEPT !.updates = Put2(@, Cell(t, key), value),
                  !.written = Put2(@, Cell(t, key), what), !.ret = ret]
  BY DEF SetStorageWrites
<1>. HIDE DEF v, ret
<1>3. /\ v.mem = t.mem /\ v.bigInts = t.bigInts /\ v.bigIntStack = t.bigIntStack
      /\ v.protection = t.protection /\ v.status = t.status
      /\ v.updates = t.updates /\ v.written = t.written
  BY <1>1 DEF Fields
<1>. QED  BY <1>1, <1>2, <1>3 DEF Fields

\* A write under a key that may be written keeps the history sound.
LEMMA WrittenPut ==
  ASSUME NEW written, NEW address, NEW key, NEW what, WrittenInv(written),
         ~IsProtocolProtectedKey(key), IsVMProtectedKey(key) => what[1] = "lock"
  PROVE  WrittenInv(Put2(written, <<address, key>>, what))
<1>. DEFINE cell == <<address, key>>
            w == Put2(written, cell, what)
<1>1. /\ DOMAIN w = DOMAIN written \cup {cell}
      /\ w[cell] = what
      /\ \A z \in DOMAIN written : z # cell => w[z] = written[z]
  BY DEF Put2
<1>2. cell[2] = key
  OBVIOUS
<1>. HIDE DEF w, cell
<1>3. WrittenInv(w)
  BY <1>1, <1>2 DEF WrittenInv
<1>. QED  BY <1>3 DEF w, cell

\* A write leaves a sound execution.
LEMMA SetStorageWritesSound ==
  ASSUME NEW s, NEW t, NEW u, NEW key, NEW value, NEW what,
         Sound(s),
         ~IsProtocolProtectedKey(key), IsVMProtectedKey(key) => what[1] = "lock",
         Fields \subseteq DOMAIN u,
         u.mem = s.mem, u.bigInts = s.bigInts, u.protection = TRUE,
         u.updates = Put2(s.updates, Cell(t, key), value),
         u.written = Put2(s.written, Cell(t, key), what)
  PROVE  Sound(u)
<1>1. WrittenInv(u.written)
  BY WrittenPut DEF Sound, Cell
<1>2. DOMAIN u.updates = DOMAIN s.updates \cup {Cell(t, key)}
  BY DEF Put2
<1>3. \A cell \in DOMAIN u.updates : cell = <<cell[1], cell[2]>>
  BY <1>2 DEF Sound, Cell
<1>. QED  BY <1>1, <1>3 DEF Sound

\* Functions that store under a key of the contract.
LEMMA AfterSetStorage ==
  ASSUME NEW s, NEW t, NEW key, NEW value, NEW what, Quiet(s, t), t.status = "running"
  PROVE  After(s, SetStorage(t, key, value, what))
<1>1. CASE t.readOnly
  BY <1>1, SetStorageIs, QuietReturn, QuietAfter
<1>2. CASE /\ ~t.readOnly
           /\ IsProtocolProtectedKey(key) \/ (IsVMProtectedKey(key) /\ t.protection)
  BY <1>2, SetStorageIs, QuietFault, QuietAfter
<1>3. CASE /\ ~t.readOnly
           /\ ~(IsProtocolProtectedKey(key) \/ (IsVMProtectedKey(key) /\ t.protection))
  <2>. DEFINE u == SetStorageWrites(t, key, value, what)
  <2>1. SetStorage(t, key, value, what) = u
    BY <1>3, SetStorageIs
  <2>2. /\ Sound(t) /\ Fields \subseteq DOMAIN t
        /\ t.protection = TRUE /\ t.bigIntStack = s.bigIntStack
    BY DEF Quiet, Sound
  <2>3. /\ Fields \subseteq DOMAIN u
        /\ u.mem = t.mem /\ u.bigInts = t.bigInts /\ u.bigIntStack = t.bigIntStack
        /\ u.protection = t.protection /\ u.status = t.status
        /\ u.updates = Put2(t.updates, Cell(t, key), value)
        /\ u.written = Put2(t.written, Cell(t, key), what)
    BY <2>2, SetStorageWritesFields
  <2>. HIDE DEF u
  <2>4. Sound(u)
    BY <1>3, <2>2, <2>3, SetStorageWritesSound
  <2>. QED  BY <2>1, <2>2, <2>3, <2>4 DEF After
<1>. QED  BY <1>1, <1>2, <1>3

\* SetProtectedStorage: the protection is on again in each of the outcomes, also
\* after a refusal.
LEMMA AfterSetProtectedStorage ==
  ASSUME NEW s, NEW t, NEW key, NEW value, NEW what, Quiet(s, t), t.status = "running",
         what[1] = "lock"
  PROVE  After(s, SetProtectedStorage(t, key, value, what))
<1>. DEFINE p == [t EXCEPT !.protection = FALSE]
            r == SetProtectedStorage(t, key, value, what)
<1>1. /\ Sound(t) /\ Fields \subseteq DOMAIN t
      /\ t.protection = TRUE /\ t.bigIntStack = s.bigIntStack
  BY DEF Quiet, Sound
<1>2. /\ DOMAIN p = DOMAIN t /\ p.protection = FALSE
      /\ p.mem = t.mem /\ p.bigInts = t.bigInts /\ p.bigIntStack = t.bigIntStack
      /\ p.updates = t.updates /\ p.written = t.written
      /\ p.returnData = t.returnData /\ p.logs = t.logs /\ p.status = t.status
      /\ p.readOnly = t.readOnly
  BY <1>1 DEF Fields
<1>3. r = [SetStorage(p, key, value, what) EXCEPT !.protection = TRUE]
  BY DEF SetProtectedStorage
<1>. HIDE DEF p, r
<1>4. /\ \A x, z : Same(t, [[[p EXCEPT !.gasUsed = x] EXCEPT !.status = z]
                                EXCEPT !.protection = TRUE])
      /\ \A x : Same(t, [[p EXCEPT !.ret = x] EXCEPT !.protection = TRUE])
  <2>1. ASSUME NEW x, NEW z
        PROVE  Same(t, [[[p EXCEPT !.gasUsed = x] EXCEPT !.status = z]
                            EXCEPT !.protection = TRUE])
    BY <1>1, <1>2 DEF Same, Fields
  <2>2. ASSUME NEW x
        PROVE  Same(t, [[p EXCEPT !.ret = x] EXCEPT !.protection = TRUE])
    BY <1>1, <1>2 DEF Same, Fields
  <2>. QED  BY <2>1, <2>2
<1>5. CASE p.readOnly
  <2>1. r = [[p EXCEPT !.ret = StorageStatus.StorageUnchanged] EXCEPT !.protection = TRUE]
    BY <1>3, <1>5, SetStorageIs DEF Return
  <2>2. Same(t, r)
    BY <2>1, <1>4
  <2>. QED  BY <2>2, SameQuiet, QuietAfter DEF r
<1>6. CASE /\ ~p.readOnly
           /\ IsProtocolProtectedKey(key) \/ (IsVMProtectedKey(key) /\ p.protection)
  <2>1. SetStorage(p, key, value, what) = Fault(p)
    BY <1>6, SetStorageIs
  <2>. DEFINE x == PointsSet(AddUint64(p.gasUsed, GasLeft(p)))
  <2>2. Fault(p) = [[p EXCEPT !.gasUsed = x] EXCEPT !.status = "failed"]
    BY DEF Fault, UseGas
  <2>. HIDE DEF x
  <2>3. Same(t, r)
    <3>1. Same(t, [[[p EXCEPT !.gasUsed = x] EXCEPT !.status = "failed"]
                        EXCEPT !.protection = TRUE])
      BY <1>4
    <3>. QED  BY <2>1, <2>2, <1>3, <3>1
  <2>. QED  BY <2>3, SameQuiet, QuietAfter DEF r
<1>7. CASE /\ ~p.readOnly
           /\ ~(IsProtocolProtectedKey(key) \/ (IsVMProtectedKey(key) /\ p.protection))
  <2>. DEFINE u == SetStorageWrites(p, key, value, what)
  <2>1. SetStorage(p, key, value, what) = u
    BY <1>7, SetStorageIs
  <2>2. /\ Fields \subseteq DOMAIN u
        /\ u.mem = p.mem /\ u.bigInts = p.bigInts /\ u.bigIntStack = p.bigIntStack
        /\ u.protection = p.protection /\ u.status = p.status
        /\ u.updates = Put2(p.updates, Cell(p, key), value)
        /\ u.written = Put2(p.written, Cell(p, key), what)
    BY <1>1, <1>2, SetStorageWritesFields
  <2>. HIDE DEF u
  <2>3. /\ Fields \subseteq DOMAIN r /\ r.protection = TRUE
        /\ r.mem = t.mem /\ r.bigInts = t.bigInts /\ r.bigIntStack = t.bigIntStack
        /\ r.status = t.status
        /\ r.updates = Put2(t.updates, Cell(p, key), value)
        /\ r.written = Put2(t.written, Cell(p, key), what)
    BY <1>2, <1>3, <2>1, <2>2 DEF Fields
  <2>4. Sound(r)
    BY <1>1, <1>7, <2>3, SetStorageWritesSound
  <2>. QED  BY <1>1, <2>3, <2>4 DEF After, r
<1>. QED  BY <1>5, <1>6, <1>7 DEF r

-----------------------------------------------------------------------------
(* The API functions *)

\* Queries (vmhooks/baseOps.go) write to the memory at most.
LEMMA QueriesAreQuiet ==
  ASSUME NEW s, Sound(s)
  PROVE  /\ Quiet(s, getGasLeft(s))
         /\ Quiet(s, getNumArguments(s))
         /\ \A f : Quiet(s, getBlockInt(s, f))
         /\ \A id : Quiet(s, getArgumentLength(s, id))
         /\ \A o : Quiet(s, getOwnAddress(s, o))
         /\ \A o, known : Quiet(s, getOwnerAddress(s, o, known))
         /\ \A o : Quiet(s, getCaller(s, o))
         /\ \A o : Quiet(s, queryAddress(s, o))
         /\ \A o : Quiet(s, blockHash(s, o))
         /\ \A o : Quiet(s, getBlockBytes(s, o))
         /\ \A o : Quiet(s, getFunction(s, o))
         /\ \A id, o : Quiet(s, getArgument(s, id, o))
         /\ \A o, r : Quiet(s, getExternalBalance(s, o, r))
<1>c. Quiet(s, Charge(s))
  BY QuietSelf, QuietCharge
<1>1. Quiet(s, getGasLeft(s))
  BY <1>c, QuietReturn DEF getGasLeft
<1>2. Quiet(s, getNumArguments(s))
  BY <1>c, QuietReturn DEF getNumArguments
<1>3. ASSUME NEW f PROVE Quiet(s, getBlockInt(s, f))
  BY <1>c, QuietReturn DEF getBlockInt
<1>4. ASSUME NEW id PROVE Quiet(s, getArgumentLength(s, id))
  BY <1>c, QuietReturn DEF getArgumentLength
<1>5. ASSUME NEW o PROVE Quiet(s, getOwnAddress(s, o))
  BY <1>c, QuietMemStore DEF getOwnAddress
<1>6. ASSUME NEW o, NEW known PROVE Quiet(s, getOwnerAddress(s, o, known))
  BY <1>c, QuietMemStore, QuietFault DEF getOwnerAddress
<1>7. ASSUME NEW o PROVE Quiet(s, getCaller(s, o))
  BY <1>c, QuietMemStore DEF getCaller
<1>8. ASSUME NEW o PROVE Quiet(s, queryAddress(s, o))
  BY <1>c, QuietReturn, QuietFault DEF queryAddress, LoadAddress, Load
<1>9. ASSUME NEW o PROVE Quiet(s, blockHash(s, o))
  BY <1>c, QuietReturn, QuietMemStore DEF blockHash, Store, IfRunning
<1>10. ASSUME NEW o PROVE Quiet(s, getBlockBytes(s, o))
  BY <1>c, QuietMemStore DEF getBlockBytes
<1>11. ASSUME NEW o PROVE Quiet(s, getFunction(s, o))
  BY <1>c, QuietStoreResult DEF getFunction
<1>12. ASSUME NEW id, NEW o PROVE Quiet(s, getArgument(s, id, o))
  BY <1>c, QuietStoreResult, QuietReturn DEF getArgument
<1>13. ASSUME NEW o, NEW r PROVE Quiet(s, getExternalBalance(s, o, r))
  BY <1>c, QuietMemStore, QuietFault DEF getExternalBalance, LoadAddress, Load
<1>. QED  BY <1>1, <1>2, <1>3, <1>4, <1>5, <1>6, <1>7, <1>8, <1>9, <1>10, <1>11, <1>12, <1>13

\* So do the functions on the payment of the call.
LEMMA PaymentIsQuiet ==
  ASSUME NEW s, Sound(s)
  PROVE  /\ Quiet(s, checkNoPayment(s))
         /\ Quiet(s, getESDTTokenNonce(s))
         /\ Quiet(s, getESDTTokenType(s))
         /\ \A o : Quiet(s, callValue(s, o))
         /\ \A o : Quiet(s, getESDTValue(s, o))
         /\ \A o : Quiet(s, getESDTTokenName(s, o))
         /\ \A o, r : Quiet(s, getCallValueTokenName(s, o, r))
<1>c. Quiet(s, Charge(s))
  BY QuietSelf, QuietCharge
<1>1. Quiet(s, checkNoPayment(s))
  BY <1>c, QuietFault DEF checkNoPayment
<1>2. Quiet(s, getESDTTokenNonce(s))
  BY <1>c, QuietReturn DEF getESDTTokenNonce
<1>3. Quiet(s, getESDTTokenType(s))
  BY <1>c, QuietReturn DEF getESDTTokenType
<1>4. ASSUME NEW o PROVE Quiet(s, callValue(s, o))
  BY <1>c, QuietStoreResult DEF callValue
<1>5. ASSUME NEW o PROVE Quiet(s, getESDTValue(s, o))
  BY <1>c, QuietStoreResult DEF getESDTValue
<1>6. ASSUME NEW o PROVE Quiet(s, getESDTTokenName(s, o))
  BY <1>c, QuietStoreResult DEF getESDTTokenName
<1>7. ASSUME NEW o, NEW r PROVE Quiet(s, getCallValueTokenName(s, o, r))
  BY <1>c, QuietMemStore, QuietReturn DEF getCallValueTokenName, Store, IfRunning
<1>. QED  BY <1>1, <1>2, <1>3, <1>4, <1>5, <1>6, <1>7

\* And cryptography (cryptoapi/cryptoei.go).
LEMMA CryptoIsQuiet ==
  ASSUME NEW s, Sound(s)
  PROVE  /\ \A slot, o, ok : Quiet(s, hash(s, slot, o, ok))
         /\ \A k, slot, o, ok : Quiet(s, verify(s, k, slot, o, ok))
         /\ \A k, slot, o, ok : Quiet(s, verifySecp256k1(s, k, slot, o, ok))
<1>c. Quiet(s, Charge(s))
  BY QuietSelf, QuietCharge
<1>1. ASSUME NEW slot, NEW o, NEW ok PROVE Quiet(s, hash(s, slot, o, ok))
  BY <1>c, QuietCharge, QuietMemStore, QuietReturn, QuietFault DEF hash, Load, Store, IfRunning
<1>2. ASSUME NEW k, NEW slot, NEW o, NEW ok PROVE Quiet(s, verify(s, k, slot, o, ok))
  BY <1>c, QuietCharge, QuietReturn, QuietFault DEF verify, Load
<1>3. ASSUME NEW k, NEW slot, NEW o, NEW ok PROVE Quiet(s, verifySecp256k1(s, k, slot, o, ok))
  BY <1>c, QuietCharge, QuietReturn, QuietFault DEF verifySecp256k1, Load
<1>. QED  BY <1>1, <1>2, <1>3

\* The integers of an execution (vmhooks/bigIntOps.go, smallIntOps.go).
LEMMA IntegersAreQuiet ==
  ASSUME NEW s, Sound(s)
  PROVE  /\ \A id : Quiet(s, smallIntGetUnsignedArgument(s, id))
         /\ \A id : Quiet(s, smallIntGetSignedArgument(s, id))
         /\ \A id, h, signed : Quiet(s, bigIntGetArgument(s, id, h, signed))
         /\ \A n : Quiet(s, bigIntNew(s, n))
         /\ \A h, n : Quiet(s, bigIntSetInt64(s, h, n))
         /\ \A h, n : Quiet(s, bigIntGetCallValue(s, h, n))
         /\ \A o, h : Quiet(s, bigIntGetExternalBalance(s, o, h))
         /\ \A h : Quiet(s, bigIntIsInt64(s, h))
         /\ \A h : Quiet(s, bigIntGetInt64(s, h))
         /\ \A h : Quiet(s, bigIntSign(s, h))
         /\ \A h, signed : Quiet(s, bigIntByteLength(s, h, signed))
         /\ \A h, o, signed : Quiet(s, bigIntGetBytes(s, h, o, signed))
         /\ \A h, slot, signed : Quiet(s, bigIntSetBytes(s, h, slot, signed))
<1>c. Quiet(s, Charge(s))
  BY QuietSelf, QuietCharge
<1>1. ASSUME NEW id PROVE Quiet(s, smallIntGetUnsignedArgument(s, id))
  BY <1>c, QuietReturn, QuietFault DEF smallIntGetUnsignedArgument
<1>2. ASSUME NEW id PROVE Quiet(s, smallIntGetSignedArgument(s, id))
  BY <1>c, QuietReturn, QuietFault DEF smallIntGetSignedArgument
<1>3. ASSUME NEW id, NEW h, NEW signed PROVE Quiet(s, bigIntGetArgument(s, id, h, signed))
  BY <1>c, QuietSetBigInt, QuietGetOne, QuietFault DEF bigIntGetArgument
<1>4. ASSUME NEW n PROVE Quiet(s, bigIntNew(s, n))
  BY <1>c, QuietPutBigInt DEF bigIntNew
<1>5. ASSUME NEW h, NEW n PROVE Quiet(s, bigIntSetInt64(s, h, n))
  BY <1>c, QuietSetBigInt DEF bigIntSetInt64
<1>6. ASSUME NEW h, NEW n PROVE Quiet(s, bigIntGetCallValue(s, h, n))
  BY <1>c, QuietSetBigInt DEF bigIntGetCallValue
<1>7. ASSUME NEW o, NEW h PROVE Quiet(s, bigIntGetExternalBalance(s, o, h))
  BY <1>c, QuietSetBigInt, QuietFault DEF bigIntGetExternalBalance, LoadAddress, Load
<1>8. ASSUME NEW h PROVE Quiet(s, bigIntIsInt64(s, h))
  BY <1>c, QuietGetOne, QuietReturn DEF bigIntIsInt64
<1>9. ASSUME NEW h PROVE Quiet(s, bigIntGetInt64(s, h))
  BY <1>c, QuietGetOne, QuietReturn DEF bigIntGetInt64
<1>10. ASSUME NEW h PROVE Quiet(s, bigIntSign(s, h))
  BY <1>c, QuietGetOne, QuietReturn, QuietUseExtraGas DEF bigIntSign
<1>11. ASSUME NEW h, NEW signed PROVE Quiet(s, bigIntByteLength(s, h, signed))
  BY <1>c, QuietGetOne, QuietReturn DEF bigIntByteLength
<1>12. ASSUME NEW h, NEW o, NEW signed PROVE Quiet(s, bigIntGetBytes(s, h, o, signed))
  BY <1>c, QuietGetOne, QuietReturn, QuietMemStore, QuietCharge
     DEF bigIntGetBytes, Store, IfRunning
<1>13. ASSUME NEW h, NEW slot, NEW signed PROVE Quiet(s, bigIntSetBytes(s, h, slot, signed))
  BY <1>c, QuietSetBigInt, QuietCharge, QuietFault DEF bigIntSetBytes, Load
<1>. QED  BY <1>1, <1>2, <1>3, <1>4, <1>5, <1>6, <1>7, <1>8, <1>9, <1>10, <1>11, <1>12, <1>13

\* Arithmetic on big integers.
LEMMA ArithmeticIsQuiet ==
  ASSUME NEW s, Sound(s)
  PROVE  /\ \A a, b : Quiet(s, bigIntCmp(s, a, b))
         /\ \A op \in UnaryOps : \A dest, a : Quiet(s, bigIntUnary(s, op, dest, a))
         /\ \A op, dest, a, bits : Quiet(s, bigIntShift(s, op, dest, a, bits))
         /\ \A op, dest, a, b : Quiet(s, bigIntArithmetic(s, op, dest, a, b))
         /\ \A op, dest, a, b : Quiet(s, bigIntDivision(s, op, dest, a, b))
         /\ \A op, dest, a, b : Quiet(s, bigIntBitwise(s, op, dest, a, b))
<1>c. Quiet(s, Charge(s))
  BY QuietSelf, QuietCharge
<1>1. ASSUME NEW a, NEW b PROVE Quiet(s, bigIntCmp(s, a, b))
  BY <1>c, QuietGetOne, QuietReturn, QuietUseExtraGas DEF bigIntCmp
<1>2. ASSUME NEW op \in UnaryOps, NEW dest, NEW a PROVE Quiet(s, bigIntUnary(s, op, dest, a))
  BY <1>c, QuietGetOne, QuietUseExtraGas, QuietSetBigInt, QuietFault DEF bigIntUnary, UnaryOps
<1>3. ASSUME NEW op, NEW dest, NEW a, NEW bits PROVE Quiet(s, bigIntShift(s, op, dest, a, bits))
  BY <1>c, QuietGetOne, QuietUseExtraGas, QuietSetBigInt, QuietFault DEF bigIntShift
<1>4. ASSUME NEW op, NEW dest, NEW a, NEW b PROVE Quiet(s, bigIntArithmetic(s, op, dest, a, b))
  BY <1>c, QuietGetOne, QuietUseExtraGas, QuietSetBigInt DEF bigIntArithmetic
<1>5. ASSUME NEW op, NEW dest, NEW a, NEW b PROVE Quiet(s, bigIntDivision(s, op, dest, a, b))
  BY <1>c, QuietGetOne, QuietUseExtraGas, QuietSetBigInt, QuietFault DEF bigIntDivision
<1>6. ASSUME NEW op, NEW dest, NEW a, NEW b PROVE Quiet(s, bigIntBitwise(s, op, dest, a, b))
  BY <1>c, QuietGetOne, QuietUseExtraGas, QuietSetBigInt, QuietFault DEF bigIntBitwise
<1>. QED  BY <1>1, <1>2, <1>3, <1>4, <1>5, <1>6

\* Reads of the storage change its cache only (contexts/storage.go).
LEMMA ReadsAreQuiet ==
  ASSUME NEW s, Sound(s)
  PROVE  /\ \A slot : Quiet(s, storageLoadLength(s, slot))
         /\ \A slot, o : Quiet(s, storageLoad(s, slot, o))
         /\ \A a, slot, o : Quiet(s, storageLoadFromAddress(s, a, slot, o))
         /\ \A slot : Quiet(s, getStorageLock(s, slot))
         /\ \A slot, h : Quiet(s, bigIntStorageLoadUnsigned(s, slot, h))
         /\ \A slot : Quiet(s, smallIntStorageLoadUnsigned(s, slot))
         /\ \A slot : Quiet(s, smallIntStorageLoadSigned(s, slot))
         /\ \A o, slot : Quiet(s, getCurrentESDTNFTNonce(s, o, slot))
<1>c. Quiet(s, Charge(s))
  BY QuietSelf, QuietCharge
<1>1. ASSUME NEW slot PROVE Quiet(s, storageLoadLength(s, slot))
  BY <1>c, QuietGetStorageUnmetered, QuietReturn, QuietFault DEF storageLoadLength, Load
<1>2. ASSUME NEW slot, NEW o PROVE Quiet(s, storageLoad(s, slot, o))
  BY <1>c, QuietGetStorageUnmetered, QuietCharge, QuietStoreResult, QuietFault
     DEF storageLoad, Load, GetStorage
<1>3. ASSUME NEW a, NEW slot, NEW o PROVE Quiet(s, storageLoadFromAddress(s, a, slot, o))
  BY <1>c, QuietGetStorageUnmetered, QuietCharge, QuietStoreResult, QuietFault
     DEF storageLoadFromAddress, GetStorageFromAddress, LoadAddress, Load
<1>4. ASSUME NEW slot PROVE Quiet(s, getStorageLock(s, slot))
  BY <1>c, QuietGetStorageUnmetered, QuietCharge, QuietReturn, QuietFault
     DEF getStorageLock, Load, GetStorage
<1>5. ASSUME NEW slot, NEW h PROVE Quiet(s, bigIntStorageLoadUnsigned(s, slot, h))
  BY <1>c, QuietGetStorageUnmetered, QuietCharge, QuietReturn, QuietFault, QuietSetBigInt
     DEF bigIntStorageLoadUnsigned, Load, GetStorage
<1>6. ASSUME NEW slot PROVE Quiet(s, smallIntStorageLoadUnsigned(s, slot))
  BY <1>c, QuietGetStorageUnmetered, QuietCharge, QuietReturn, QuietFault
     DEF smallIntStorageLoadUnsigned, Load, GetStorage
<1>7. ASSUME NEW slot PROVE Quiet(s, smallIntStorageLoadSigned(s, slot))
  BY <1>c, QuietGetStorageUnmetered, QuietCharge, QuietReturn, QuietFault
     DEF smallIntStorageLoadSigned, Load, GetStorage
<1>8. ASSUME NEW o, NEW slot PROVE Quiet(s, getCurrentESDTNFTNonce(s, o, slot))
  BY <1>c, QuietGetStorageUnmetered, QuietCharge, QuietReturn
     DEF getCurrentESDTNFTNonce, GetStorageFromAddress
<1>. QED  BY <1>1, <1>2, <1>3, <1>4, <1>5, <1>6, <1>7, <1>8

\* Reads of the return data.
LEMMA ResultsAreQuiet ==
  ASSUME NEW s, Sound(s)
  PROVE  /\ Quiet(s, getNumReturnData(s))
         /\ \A id : Quiet(s, getReturnDataSize(s, id))
         /\ \A id, o : Quiet(s, getReturnData(s, id, o))
         /\ \A n : Quiet(s, transferESDT(s, n))
<1>c. Quiet(s, Charge(s))
  BY QuietSelf, QuietCharge
<1>1. Quiet(s, getNumReturnData(s))
  BY <1>c, QuietReturn DEF getNumReturnData
<1>2. ASSUME NEW id PROVE Quiet(s, getReturnDataSize(s, id))
  BY <1>c, QuietReturn, QuietFault DEF getReturnDataSize
<1>3. ASSUME NEW id, NEW o PROVE Quiet(s, getReturnData(s, id, o))
  BY <1>c, QuietReturn, QuietStoreResult, QuietFault DEF getReturnData
<1>4. ASSUME NEW n PROVE Quiet(s, transferESDT(s, n))
  BY <1>c, QuietCharge, QuietReturn DEF transferESDT
<1>. QED  BY <1>1, <1>2, <1>3, <1>4

\* What the node answers about a token is a fault at worst.
LEMMA EsdtDataIsQuiet ==
  ASSUME NEW s, NEW t, Quiet(s, t), NEW offset, NEW slot, NEW answer
  PROVE  Quiet(s, EsdtData(t, offset, slot, answer))
BY QuietCharge, QuietFault DEF EsdtData, LoadAddress, Load

\* Queries of tokens: fields are stored one after the other, until one fails.
LEMMA TokensAreQuiet ==
  ASSUME NEW s, Sound(s)
  PROVE  /\ \A offset, slot, answer, result :
               Quiet(s, getESDTBalance(s, offset, slot, answer, result))
         /\ \A offset, slot, answer, result :
               Quiet(s, bigIntGetESDTExternalBalance(s, offset, slot, answer, result))
         /\ \A offset, slot, answer, field :
               Quiet(s, getESDTNFTLength(s, offset, slot, answer, field))
         /\ \A offset, slot, answer, h, r, result :
               Quiet(s, getESDTTokenData(s, offset, slot, answer, h, r, result))
<1>c. Quiet(s, Charge(s)) /\ Quiet(s, s)
  BY QuietSelf, QuietCharge
<1>1. ASSUME NEW offset, NEW slot, NEW answer, NEW result
      PROVE  Quiet(s, getESDTBalance(s, offset, slot, answer, result))
  BY <1>c, EsdtDataIsQuiet, QuietFault, QuietStoreResult DEF getESDTBalance, IfRunning
<1>2. ASSUME NEW offset, NEW slot, NEW answer, NEW result
      PROVE  Quiet(s, bigIntGetESDTExternalBalance(s, offset, slot, answer, result))
  BY <1>c, EsdtDataIsQuiet, QuietSetBigInt DEF bigIntGetESDTExternalBalance, IfRunning
<1>3. ASSUME NEW offset, NEW slot, NEW answer, NEW field
      PROVE  Quiet(s, getESDTNFTLength(s, offset, slot, answer, field))
  BY <1>c, EsdtDataIsQuiet, QuietReturn DEF getESDTNFTLength, IfRunning
<1>4. ASSUME NEW offset, NEW slot, NEW answer, NEW h, NEW r, NEW result
      PROVE  Quiet(s, getESDTTokenData(s, offset, slot, answer, h, r, result))
  <2>. DEFINE t == EsdtData(s, offset, slot, answer)
  <2>1. Quiet(s, t)
    BY <1>c, EsdtDataIsQuiet
  <2>. HIDE DEF t
  <2>2. getESDTTokenData(s, offset, slot, answer, h, r, result) =
          LET token == Env["token"]
              Done(u) == Return(u, Len(UnsignedBytes(TokenValue)))
              StoreURI(u) ==
                  LET v == SetBigInt(u, r, token.royalties)
                  IN  IF answer = "nftWithURI" THEN Store(v, result, token.uri, Done) ELSE Done(v)
              StoreMetaData(u) ==
                  Store(u, result, token.hash, LAMBDA v :
                    Store(v, result, token.name, LAMBDA w :
                      Store(w, result, token.attributes, LAMBDA x :
                        Store(x, result, token.creator, StoreURI))))
          IN  IF ~Running(t) THEN t
              ELSE IF answer = "nothing" THEN Panic(GetBigInts(t, {h}))
              ELSE Store(SetBigInt(t, h, TokenValue), result, token.properties,
                         LAMBDA u : IF answer \in {"nft", "nftWithURI"}
                                    THEN StoreMetaData(u) ELSE Done(u))
    BY DEF getESDTTokenData, IfRunning, t
  <2>. QED  BY <2>1, <2>2, QuietGetOne, QuietFault, QuietSetBigInt, QuietMemStore, QuietReturn
            DEF Store, IfRunning
<1>. QED  BY <1>1, <1>2, <1>3, <1>4

\* isStorageLocked compares the lock with the time of the block.
LEMMA LockQueryIsQuiet ==
  ASSUME NEW s, Sound(s), NEW slot
  PROVE  Quiet(s, isStorageLocked(s, slot))
<1>1. Quiet(s, getStorageLock(s, slot))
  BY ReadsAreQuiet
<1>. QED  BY <1>1, QuietReturn, QuietCharge DEF isStorageLocked

\* Stores.
LEMMA StoresLeaveNoTrace ==
  ASSUME NEW s, Sound(s), Running(s)
  PROVE  /\ \A slot, data : After(s, storageStore(s, slot, data))
         /\ \A slot, h : After(s, bigIntStorageStoreUnsigned(s, slot, h))
         /\ \A slot, n : After(s, smallIntStorageStoreUnsigned(s, slot, n))
         /\ \A slot, n : After(s, smallIntStorageStoreSigned(s, slot, n))
         /\ \A slot, timestamp : After(s, setStorageLock(s, slot, timestamp))
<1>c. Quiet(s, Charge(s)) /\ \A h : Quiet(s, GetBigInts(Charge(s), {h}))
  BY QuietSelf, QuietCharge, QuietGetOne
<1>f. After(s, Fault(Charge(s)))
  BY <1>c, QuietFault, QuietAfter
<1>r. Charge(s).status = "running" /\ \A h : GetBigInts(Charge(s), {h}).status = "running"
  BY StatusKept DEF Running, Sound, Fields
<1>1. ASSUME NEW slot, NEW data PROVE After(s, storageStore(s, slot, data))
  BY <1>c, <1>f, <1>r, AfterSetStorage DEF storageStore, Load
<1>2. ASSUME NEW slot, NEW h PROVE After(s, bigIntStorageStoreUnsigned(s, slot, h))
  BY <1>c, <1>f, <1>r, AfterSetStorage DEF bigIntStorageStoreUnsigned, Load
<1>3. ASSUME NEW slot, NEW n PROVE After(s, smallIntStorageStoreUnsigned(s, slot, n))
  BY <1>c, <1>f, <1>r, AfterSetStorage DEF smallIntStorageStoreUnsigned, Load
<1>4. ASSUME NEW slot, NEW n PROVE After(s, smallIntStorageStoreSigned(s, slot, n))
  BY <1>c, <1>f, <1>r, AfterSetStorage DEF smallIntStorageStoreSigned, Load
<1>5. ASSUME NEW slot, NEW timestamp PROVE After(s, setStorageLock(s, slot, timestamp))
  <2>1. <<"lock", timestamp>>[1] = "lock"
    OBVIOUS
  <2>. QED  BY <1>c, <1>f, <1>r, <2>1, AfterSetProtectedStorage DEF setStorageLock, Load
<1>. QED  BY <1>1, <1>2, <1>3, <1>4, <1>5

\* What only adds to the return data or to the logs.
LEMMA AfterOutput ==
  ASSUME NEW s, NEW t, NEW x, Quiet(s, t), t.status = "running"
  PROVE  /\ After(s, Finish(t, x)) /\ Sound(Finish(t, x))
         /\ Finish(t, x).bigIntStack = s.bigIntStack /\ Finish(t, x).status = "running"
         /\ After(s, [t EXCEPT !.logs = Append(@, x)])
<1>1. ASSUME NEW u, Fields \subseteq DOMAIN u,
             u.mem = t.mem, u.bigInts = t.bigInts, u.bigIntStack = t.bigIntStack,
             u.updates = t.updates, u.written = t.written, u.protection = t.protection,
             u.status = t.status
      PROVE  Sound(u) /\ u.bigIntStack = s.bigIntStack /\ u.status = "running"
  BY <1>1 DEF Quiet, Sound
<1>2. /\ Sound(Finish(t, x)) /\ Finish(t, x).bigIntStack = s.bigIntStack
      /\ Finish(t, x).status = "running"
  BY <1>1 DEF Finish, Quiet, Sound, Fields
<1>3. LET u == [t EXCEPT !.logs = Append(@, x)]
      IN  Sound(u) /\ u.bigIntStack = s.bigIntStack /\ u.status = "running"
  BY <1>1 DEF Quiet, Sound, Fields
<1>. QED  BY <1>2, <1>3 DEF After

\* finish and the functions that return an integer, and writeEventLog.
LEMMA OutputLeavesNoTrace ==
  ASSUME NEW s, Sound(s), Running(s)
  PROVE  /\ \A slot : After(s, finish(s, slot))
         /\ \A n : After(s, smallIntFinishUnsigned(s, n))
         /\ \A n : After(s, smallIntFinishSigned(s, n))
         /\ \A h, signed : After(s, bigIntFinish(s, h, signed))
         /\ \A n, o, slot : After(s, writeEventLog(s, n, o, slot))
<1>c. Quiet(s, s) /\ Quiet(s, Charge(s)) /\ \A h : Quiet(s, GetBigInts(Charge(s), {h}))
  BY QuietSelf, QuietCharge, QuietGetOne
<1>d. \A perByte, n : Quiet(s, ChargeBytes(Charge(s), perByte, n))
  BY <1>c, QuietCharge
<1>f. After(s, Fault(s)) /\ \A perByte, n : After(s, Fault(ChargeBytes(Charge(s), perByte, n)))
  BY <1>c, <1>d, QuietFault, QuietAfter
<1>r. /\ Charge(s).status = "running" /\ \A h : GetBigInts(Charge(s), {h}).status = "running"
      /\ \A perByte, n : ChargeBytes(Charge(s), perByte, n).status = "running"
  <2>1. "status" \in DOMAIN s /\ s.status = "running"
    BY DEF Running, Sound, Fields
  <2>2. "status" \in DOMAIN Charge(s) /\ Charge(s).status = "running"
    BY <2>1, StatusKept
  <2>. QED  BY <2>2, StatusKept
<1>1. ASSUME NEW slot PROVE After(s, finish(s, slot))
  BY <1>d, <1>f, <1>r, AfterOutput DEF finish, Load
<1>2. ASSUME NEW n
      PROVE  After(s, smallIntFinishUnsigned(s, n)) /\ After(s, smallIntFinishSigned(s, n))
  BY <1>c, <1>r, AfterOutput DEF smallIntFinishUnsigned, smallIntFinishSigned
<1>3. ASSUME NEW h, NEW signed PROVE After(s, bigIntFinish(s, h, signed))
  <2>. DEFINE bytes == Encoded(ValueOf(s, h), signed)
              t == Finish(GetBigInts(Charge(s), {h}), bytes)
  <2>1. Sound(t) /\ t.bigIntStack = s.bigIntStack /\ t.status = "running"
    BY <1>c, <1>r, AfterOutput
  <2>2. bigIntFinish(s, h, signed) = ChargeBytes(t, PersistPerByte, Len(bytes))
    BY DEF bigIntFinish
  <2>. HIDE DEF t, bytes
  <2>3. Quiet(t, ChargeBytes(t, PersistPerByte, Len(bytes)))
    BY <2>1, QuietSelf, QuietCharge
  <2>4. ChargeBytes(t, PersistPerByte, Len(bytes)).status = "running"
    <3>1. "status" \in DOMAIN t
      BY <2>1 DEF Sound, Fields
    <3>. QED  BY <2>1, <3>1, StatusKept
  <2>. QED  BY <2>1, <2>2, <2>3, <2>4 DEF After, Quiet
<1>4. ASSUME NEW n, NEW o, NEW slot PROVE After(s, writeEventLog(s, n, o, slot))
  <2>. DEFINE data == Loaded(s, slot[1], slot[2])
              topics == ArgumentsFromMemory(s, n, o, slot[1])
              t == ChargeBytes(Charge(s), DataCopyPerByte, Len(FlattenSeq(topics)) + Len(data))
  <2>1. \/ writeEventLog(s, n, o, slot) = Fault(s)
        \/ writeEventLog(s, n, o, slot) = t
        \/ writeEventLog(s, n, o, slot) = [t EXCEPT !.logs = Append(@, <<topics, data>>)]
    BY DEF writeEventLog, Load
  <2>2. Quiet(s, t) /\ t.status = "running"
    BY <1>d, <1>r
  <2>. HIDE DEF t, topics, data
  <2>3. After(s, t) /\ After(s, [t EXCEPT !.logs = Append(@, <<topics, data>>)])
    BY <2>2, AfterOutput, QuietAfter
  <2>. QED  BY <1>f, <2>1, <2>3
<1>. QED  BY <1>1, <1>2, <1>3, <1>4

\* What every call of an API function does to the execution.
Calls == After(vm, vm') /\ Running(vm) /\ UNCHANGED <<frames, chain>>

\* Every call of a query, a payment or a crypto function.
LEMMA QueryCalls ==
  ASSUME Sound(vm), CallQuery \/ CallPayment \/ CallCrypto
  PROVE  Calls
BY QueriesAreQuiet, PaymentIsQuiet, CryptoIsQuiet, QuietAfter
   DEF CallQuery, CallPayment, CallCrypto, Call, CanCall, Calls

\* Every call of a token function.
LEMMA TokenCalls ==
  ASSUME Sound(vm), CallToken
  PROVE  Calls
BY TokensAreQuiet, ReadsAreQuiet, ResultsAreQuiet, QuietAfter
   DEF CallToken, Call, CanCall, Calls

\* Every call of a storage function.
LEMMA StorageCalls ==
  ASSUME Sound(vm), CallStorage
  PROVE  Calls
<1>1. Running(vm)
  BY DEF CallStorage, Call, CanCall
<1>. QED  BY <1>1, ReadsAreQuiet, LockQueryIsQuiet, StoresLeaveNoTrace, QuietAfter
          DEF CallStorage, Call, CanCall, Calls

\* Every call of a function on return data and logs.
LEMMA OutputCalls ==
  ASSUME Sound(vm), CallOutput
  PROVE  Calls
<1>1. Running(vm)
  BY DEF CallOutput, Call, CanCall
<1>. QED  BY <1>1, OutputLeavesNoTrace, ResultsAreQuiet, QuietAfter
          DEF CallOutput, Call, CanCall, Calls

\* Every call of an integer function.
LEMMA IntegerCalls ==
  ASSUME Sound(vm), CallInteger \/ CallArithmetic
  PROVE  Calls
BY IntegersAreQuiet, ArithmeticIsQuiet, QuietAfter
   DEF CallInteger, CallArithmetic, Call, CanCall, Calls

-----------------------------------------------------------------------------
(* Nested calls and the inductive invariant *)

\* What the host keeps for a caller.
CallerInv(frame, saved) ==
    /\ Sound(frame.caller) /\ frame.caller.status = "running"
    /\ frame.seen = saved /\ IsFiniteSet(DOMAIN saved) /\ IsFunction(saved)

\* The inductive invariant: the execution is sound, and so is every caller, for
\* which the host keeps the big integers that it had.  MemoryAccessesAgree needs
\* the memory of a caller to be sound, because the caller goes on with it, and
\* ProtectedKeysHoldLocks what the caller wrote, because a failure restores it.
IndInv ==
    /\ Sound(vm)
    /\ IsStack(frames) /\ IsStack(vm.bigIntStack) /\ Len(vm.bigIntStack) = Len(frames)
    /\ \A k \in 1 .. Len(frames) : CallerInv(frames[k], vm.bigIntStack[k])

\* An empty map.
LEMMA NoFunctionIs ==
  IsFunction(NoFunction) /\ IsFiniteSet(DOMAIN NoFunction) /\ DOMAIN NoFunction = {}
BY FS_EmptySet DEF NoFunction, IsFunction

\* A new instance has one page.
LEMMA InitialMemoryIs == IsMemory(InitialMemory)
<1>1. PageSize \in Nat /\ MaxPages \in Nat /\ MaxPages > 0
  BY HooksAssumption
<1>2. DOMAIN InitialMemory = 1 .. PageSize /\ IsFunction(InitialMemory)
  BY DEF InitialMemory, IsFunction
<1>3. IsStack(InitialMemory) /\ Len(InitialMemory) = PageSize
  BY <1>1, <1>2, FunctionIsStack
<1>4. 1 \in 1 .. MaxPages /\ PageSize = PageSize * 1
  BY <1>1
<1>. QED  BY <1>3, <1>4 DEF IsMemory

\* A new execution is sound.
LEMMA NewExecutionIs ==
  ASSUME NEW address, NEW imports, NEW limit, NEW paid
  PROVE  LET s == NewExecution(address, imports, limit, paid)
         IN  Sound(s) /\ s.bigIntStack = <<>>
<1>. DEFINE s == NewExecution(address, imports, limit, paid)
<1>1. /\ Fields \subseteq DOMAIN s
      /\ s.protection = TRUE /\ s.written = NoFunction /\ s.updates = NoFunction
      /\ s.mem = InitialMemory /\ s.bigInts = NoFunction /\ s.bigIntStack = <<>>
  BY DEF NewExecution, Fields
<1>. HIDE DEF s
<1>2. Sound(s)
  BY <1>1, NoFunctionIs, InitialMemoryIs DEF Sound, WrittenInv
<1>3. s = NewExecution(address, imports, limit, paid)
  BY DEF s
<1>. QED  BY <1>1, <1>2, <1>3

\* The first execution has no callers.
LEMMA InitIndInv == Init => IndInv
<1>. SUFFICES ASSUME Init PROVE IndInv
  OBVIOUS
<1>1. PICK c \in Contracts : vm = NewExecution(Self, c.imports, c.limit, c.paid)
  BY DEF Init
<1>2. Sound(vm) /\ vm.bigIntStack = <<>>
  BY <1>1, NewExecutionIs
<1>3. frames = <<>>
  BY DEF Init
<1>. QED  BY <1>2, <1>3, StackEmpty DEF IndInv

\* API functions preserve the invariant.
LEMMA CallsKeep ==
  ASSUME IndInv, Calls
  PROVE  IndInv'
<1>1. Sound(vm') /\ vm'.bigIntStack = vm.bigIntStack /\ frames' = frames
  BY DEF Calls, After
<1>2. Sound(vm)'
  BY <1>1 DEF Sound
<1>3. ASSUME NEW k \in 1 .. Len(frames) PROVE CallerInv(frames[k], vm.bigIntStack[k])'
  BY <1>1 DEF IndInv, CallerInv
<1>. QED  BY <1>1, <1>2, <1>3 DEF IndInv

\* The fields of the execution that starts, and of the caller that waits.
LEMMA CalleeFields ==
  ASSUME NEW s, NEW kind, NEW limit
  PROVE  LET c == Callee(s, kind, limit)
         IN  /\ Fields \subseteq DOMAIN c /\ "address" \in DOMAIN c
             /\ c.mem = InitialMemory /\ c.bigInts = NoFunction
             /\ c.bigIntStack = Append(s.bigIntStack, s.bigInts)
             /\ c.updates = s.updates /\ c.written = s.written
             /\ c.protection = s.protection
BY DEF Callee, NewExecution, Fields

\* A nested call starts with the caller's storage and pushes its integers.
LEMMA EnterKeeps ==
  ASSUME IndInv, NEW function \in DOMAIN Kinds, Enter(function)
  PROVE  IndInv'
<1>. DEFINE kind == Kinds[function]
            limit == Min({GasGiven, GasLeft(Charge(vm))})
            c == Callee(vm, kind, limit)
            caller == UseGas(Charge(vm), limit)
            frame == [kind |-> kind, caller |-> caller, seen |-> vm.bigInts]
<1>1. Sound(vm) /\ vm.status = "running" /\ IsStack(frames) /\ IsStack(vm.bigIntStack)
      /\ Len(vm.bigIntStack) = Len(frames)
  BY DEF IndInv, Enter, CanCall, Running
<1>2. /\ frames' = Append(frames, frame)
      /\ vm' = IF kind = "dest" THEN [c EXCEPT !.address = Other]
               ELSE [c EXCEPT !.bigInts = vm.bigInts, !.returnData = vm.returnData,
                              !.logs = vm.logs]
  BY DEF Enter
<1>3. /\ Fields \subseteq DOMAIN c /\ "address" \in DOMAIN c
      /\ c.mem = InitialMemory /\ c.bigInts = NoFunction
      /\ c.bigIntStack = Append(vm.bigIntStack, vm.bigInts)
      /\ c.updates = vm.updates /\ c.written = vm.written
      /\ c.protection = vm.protection
  BY CalleeFields
<1>4. frame.caller = caller /\ frame.seen = vm.bigInts
  OBVIOUS
<1>5. Sound(caller) /\ caller.status = "running"
  <2>1. Quiet(vm, caller)
    BY <1>1, QuietSelf, QuietCharge, QuietUseGas
  <2>2. "status" \in DOMAIN Charge(vm) /\ Charge(vm).status = "running"
    BY <1>1, StatusKept DEF Sound, Fields
  <2>3. caller.status = "running"
    BY <2>2 DEF UseGas
  <2>. QED  BY <2>1, <2>3 DEF Quiet
<1>. HIDE DEF kind, c, caller, frame
<1>6. /\ Fields \subseteq DOMAIN vm'
      /\ vm'.mem = InitialMemory /\ (vm'.bigInts = NoFunction \/ vm'.bigInts = vm.bigInts)
      /\ vm'.bigIntStack = Append(vm.bigIntStack, vm.bigInts)
      /\ vm'.updates = vm.updates /\ vm'.written = vm.written
      /\ vm'.protection = vm.protection
  <2>1. CASE kind = "dest"
    BY <2>1, <1>2, <1>3 DEF Fields
  <2>2. CASE kind # "dest"
    BY <2>2, <1>2, <1>3 DEF Fields
  <2>. QED  BY <2>1, <2>2
<1>7. Sound(vm')
  BY <1>1, <1>6, NoFunctionIs, InitialMemoryIs DEF Sound
<1>8. CallerInv(frame, vm.bigInts)
  BY <1>1, <1>4, <1>5 DEF CallerInv, Sound
<1>9. /\ IsStack(frames') /\ Len(frames') = Len(frames) + 1 /\ Len(frames) \in Nat
      /\ \A k \in 1 .. Len(frames) : frames'[k] = frames[k]
      /\ frames'[Len(frames) + 1] = frame
  BY <1>1, <1>2, StackPush
<1>10. /\ IsStack(vm'.bigIntStack) /\ Len(vm'.bigIntStack) = Len(frames) + 1
       /\ \A k \in 1 .. Len(frames) : vm'.bigIntStack[k] = vm.bigIntStack[k]
       /\ vm'.bigIntStack[Len(frames) + 1] = vm.bigInts
  BY <1>1, <1>6, StackPush
<1>11. ASSUME NEW k \in 1 .. Len(frames') PROVE CallerInv(frames'[k], vm'.bigIntStack[k])
  <2>1. CASE k = Len(frames) + 1
    BY <2>1, <1>8, <1>9, <1>10
  <2>2. CASE k # Len(frames) + 1
    <3>1. k \in 1 .. Len(frames)
      BY <2>2, <1>9
    <3>2. CallerInv(frames[k], vm.bigIntStack[k])
      BY <3>1 DEF IndInv
    <3>. QED  BY <3>1, <3>2, <1>9, <1>10
  <2>. QED  BY <2>1, <2>2
<1>. QED  BY <1>7, <1>9, <1>10, <1>11 DEF IndInv

\* What a callee that returns or fails leaves on the stacks.
Pops == /\ frames # <<>> /\ frames' = Front(frames)
        /\ vm'.bigIntStack = Front(vm.bigIntStack)

\* The other callers are as they were.
LEMMA PopKeeps ==
  ASSUME IndInv, Pops, Sound(vm')
  PROVE  IndInv'
<1>1. IsStack(frames) /\ IsStack(vm.bigIntStack) /\ Len(vm.bigIntStack) = Len(frames)
  BY DEF IndInv
<1>2. /\ IsStack(frames') /\ Len(frames') = Len(frames) - 1 /\ Len(frames) \in Nat \ {0}
      /\ \A k \in 1 .. Len(frames) - 1 : frames'[k] = frames[k]
  BY <1>1, StackPop DEF Pops
<1>3. vm.bigIntStack # <<>>
  BY <1>1, <1>2, StackEmpty
<1>4. /\ IsStack(vm'.bigIntStack) /\ Len(vm'.bigIntStack) = Len(frames) - 1
      /\ \A k \in 1 .. Len(frames) - 1 : vm'.bigIntStack[k] = vm.bigIntStack[k]
  BY <1>1, <1>3, StackPop DEF Pops
<1>5. ASSUME NEW k \in 1 .. Len(frames') PROVE CallerInv(frames'[k], vm'.bigIntStack[k])
  <2>1. k \in 1 .. Len(frames) - 1 /\ k \in 1 .. Len(frames)
    BY <1>2
  <2>2. CallerInv(frames[k], vm.bigIntStack[k])
    BY <2>1 DEF IndInv
  <2>. QED  BY <2>1, <2>2, <1>2, <1>4
<1>. QED  BY <1>2, <1>4, <1>5 DEF IndInv

\* The caller that waits for the current execution.
LEMMA CallerIs ==
  ASSUME IndInv, frames # <<>>
  PROVE  LET frame == Last(frames)
         IN  /\ Sound(frame.caller) /\ frame.caller.status = "running"
             /\ frame.seen = Last(vm.bigIntStack)
             /\ IsFiniteSet(DOMAIN Last(vm.bigIntStack)) /\ IsFunction(Last(vm.bigIntStack))
<1>1. IsStack(frames) /\ IsStack(vm.bigIntStack) /\ Len(vm.bigIntStack) = Len(frames)
  BY DEF IndInv
<1>2. Len(frames) \in Nat \ {0} /\ Last(frames) = frames[Len(frames)]
  BY <1>1, StackPop
<1>3. vm.bigIntStack # <<>>
  BY <1>1, <1>2, StackEmpty
<1>4. Last(vm.bigIntStack) = vm.bigIntStack[Len(frames)]
  BY <1>1, <1>3, StackPop
<1>5. CallerInv(frames[Len(frames)], vm.bigIntStack[Len(frames)])
  BY <1>2 DEF IndInv
<1>. QED  BY <1>2, <1>4, <1>5 DEF CallerInv

\* The caller goes on, with the storage of its callee.
ResumedWith(caller, s, kind, ints, data, logs) ==
    [Resumed(caller, s, kind) EXCEPT !.bigInts = ints, !.returnData = data, !.logs = logs]

\* A caller that goes on is sound: its memory is its own, the storage is the
\* callee's.
LEMMA ResumedIs ==
  ASSUME NEW caller, NEW s, NEW kind, NEW ints, NEW data, NEW logs,
         Sound(caller), Sound(s), IsFiniteSet(DOMAIN ints), IsFunction(ints)
  PROVE  LET u == ResumedWith(caller, s, kind, ints, data, logs)
         IN  /\ Sound(u) /\ u.bigInts = ints /\ u.bigIntStack = Front(s.bigIntStack)
             /\ u.status = caller.status
<1>. DEFINE r == Resumed(caller, s, kind)
            u == [r EXCEPT !.bigInts = ints, !.returnData = data, !.logs = logs]
<1>1. Fields \subseteq DOMAIN caller
  BY DEF Sound
<1>2. /\ DOMAIN r = DOMAIN caller
      /\ r.mem = caller.mem /\ r.status = caller.status
      /\ r.bigIntStack = Front(s.bigIntStack) /\ r.updates = s.updates
      /\ r.written = s.written /\ r.protection = s.protection
  BY <1>1 DEF Resumed, Fields
<1>. HIDE DEF r
<1>3. /\ Fields \subseteq DOMAIN u
      /\ u.mem = caller.mem /\ u.status = caller.status /\ u.bigInts = ints
      /\ u.bigIntStack = Front(s.bigIntStack) /\ u.updates = s.updates
      /\ u.written = s.written /\ u.protection = s.protection
  BY <1>1, <1>2 DEF Fields
<1>. HIDE DEF u
<1>4. Sound(u)
  BY <1>3 DEF Sound
<1>. QED  BY <1>3, <1>4 DEF u, r, ResumedWith

\* The return from another context.
LEMMA LeaveDestIs ==
  ASSUME IndInv, LeaveDest
  PROVE  /\ Pops /\ Sound(vm') /\ vm'.status = "running"
         /\ vm'.bigInts = Last(frames).seen /\ Last(frames).kind = "dest"
<1>. DEFINE frame == Last(frames)
            caller == frame.caller
            kind == frame.kind
            ints == Last(vm.bigIntStack)
            data == Resumed(caller, vm, kind).returnData \o vm.returnData
            logs == Resumed(caller, vm, kind).logs \o vm.logs
<1>1. /\ Sound(frame.caller) /\ frame.caller.status = "running"
      /\ frame.seen = Last(vm.bigIntStack)
      /\ IsFiniteSet(DOMAIN Last(vm.bigIntStack)) /\ IsFunction(Last(vm.bigIntStack))
  BY CallerIs DEF LeaveDest
<1>2. vm' = ResumedWith(caller, vm, kind, ints, data, logs)
  BY DEF LeaveDest, ResumedWith
<1>3. Sound(vm)
  BY DEF IndInv
<1>4. /\ Sound(vm') /\ vm'.bigInts = ints
      /\ vm'.bigIntStack = Front(vm.bigIntStack) /\ vm'.status = caller.status
  <2>1. Sound(caller) /\ IsFiniteSet(DOMAIN ints) /\ IsFunction(ints)
    BY <1>1
  <2>. HIDE DEF caller, kind, ints, data, logs
  <2>. QED  BY ONLY <1>2, <1>3, <2>1, ResumedIs
<1>. QED  BY <1>1, <1>4 DEF LeaveDest, Pops

\* The return from the same context.
LEMMA LeaveSameIs ==
  ASSUME IndInv, LeaveSame
  PROVE  Pops /\ Sound(vm') /\ vm'.status = "running" /\ Last(frames).kind # "dest"
<1>. DEFINE frame == Last(frames)
            caller == frame.caller
            kind == frame.kind
            ints == vm.bigInts
            data == vm.returnData
            logs == vm.logs
<1>1. Sound(frame.caller) /\ frame.caller.status = "running"
  BY CallerIs DEF LeaveSame
<1>2. vm' = ResumedWith(caller, vm, kind, ints, data, logs)
  BY DEF LeaveSame, ResumedWith
<1>3. Sound(vm) /\ IsFiniteSet(DOMAIN vm.bigInts) /\ IsFunction(vm.bigInts)
  BY DEF IndInv, Sound
<1>4. Sound(vm') /\ vm'.bigIntStack = Front(vm.bigIntStack) /\ vm'.status = caller.status
  <2>1. Sound(caller) /\ IsFiniteSet(DOMAIN ints) /\ IsFunction(ints)
    BY <1>1, <1>3
  <2>. HIDE DEF caller, kind, ints, data, logs
  <2>. QED  BY ONLY <1>2, <1>3, <2>1, ResumedIs
<1>. QED  BY <1>1, <1>4 DEF LeaveSame, Pops

\* The return after a failure.
LEMMA LeaveFailedIs ==
  ASSUME IndInv, LeaveFailed
  PROVE  Pops /\ Sound(vm') /\ vm'.bigInts = Last(frames).seen
<1>. DEFINE frame == Last(frames)
            u == [frame.caller EXCEPT
                    !.bigInts = Last(vm.bigIntStack), !.bigIntStack = Front(vm.bigIntStack),
                    !.protection = vm.protection, !.ret = 1,
                    !.readOnly = @ /\ frame.kind # "readOnly"]
<1>1. /\ Sound(frame.caller) /\ frame.seen = Last(vm.bigIntStack)
      /\ IsFiniteSet(DOMAIN Last(vm.bigIntStack)) /\ IsFunction(Last(vm.bigIntStack))
  BY CallerIs DEF LeaveFailed
<1>2. vm' = Fault(u)
  BY DEF LeaveFailed
<1>3. vm.protection = TRUE /\ Fields \subseteq DOMAIN frame.caller
  BY <1>1 DEF IndInv, Sound
<1>. HIDE DEF frame
<1>4. /\ Fields \subseteq DOMAIN u /\ u.mem = frame.caller.mem
      /\ u.bigInts = Last(vm.bigIntStack) /\ u.bigIntStack = Front(vm.bigIntStack)
      /\ u.updates = frame.caller.updates /\ u.written = frame.caller.written
      /\ u.protection = vm.protection
  BY <1>3 DEF Fields
<1>. HIDE DEF u
<1>5. Sound(u)
  BY <1>1, <1>3, <1>4 DEF Sound
<1>6. Quiet(u, Fault(u))
  BY <1>5, QuietSelf, QuietFault
<1>7. Fault(u).bigInts = u.bigInts
  BY <1>4 DEF Fault, UseGas, Fields
<1>8. /\ Sound(vm') /\ vm'.bigIntStack = Front(vm.bigIntStack)
      /\ vm'.bigInts = Last(vm.bigIntStack)
  BY <1>2, <1>4, <1>6, <1>7 DEF Quiet
<1>. QED  BY <1>1, <1>8 DEF LeaveFailed, Pops, frame

\* Running out of gas, and the end.
LEMMA HaltIs ==
  ASSUME IndInv, OutOfGas \/ End
  PROVE  /\ Sound(vm') /\ vm'.bigIntStack = vm.bigIntStack /\ vm'.bigInts = vm.bigInts
         /\ NoTrace(vm, vm')
         /\ UNCHANGED <<frames, chain>>
<1>1. PICK status : vm' = [vm EXCEPT !.status = status]
  BY DEF OutOfGas, End
<1>2. Sound(vm)
  BY DEF IndInv
<1>3. Quiet(vm, vm')
  BY <1>1, <1>2, QuietSelf, QuietStatus
<1>4. vm'.bigInts = vm.bigInts
  BY <1>1
<1>5. UNCHANGED <<frames, chain>>
  BY DEF OutOfGas, End
<1>. QED  BY <1>3, <1>4, <1>5 DEF Quiet

\* A built-in function that changes what the protocol protects.
LEMMA BuiltinIs ==
  ASSUME IndInv, NEW address, NEW key, NEW value, BuiltinFunction(address, key, value)
  PROVE  /\ Sound(vm') /\ vm'.bigIntStack = vm.bigIntStack /\ vm'.status = "running"
         /\ UNCHANGED frames
<1>1. vm' = Charge(vm) /\ vm.status = "running" /\ Sound(vm)
  BY DEF IndInv, BuiltinFunction, CanCall, Running
<1>2. Quiet(vm, vm')
  BY <1>1, QuietSelf, QuietCharge
<1>3. "status" \in DOMAIN vm
  BY <1>1 DEF Sound, Fields
<1>4. vm'.status = "running"
  BY <1>1, <1>3, StatusKept
<1>. QED  BY <1>2, <1>4 DEF Quiet, BuiltinFunction

\* Steps that leave the callers alone.
LEMMA UnchangedFramesKeep ==
  ASSUME IndInv, Sound(vm'), vm'.bigIntStack = vm.bigIntStack, frames' = frames
  PROVE  IndInv'
<1>1. ASSUME NEW k \in 1 .. Len(frames) PROVE CallerInv(frames[k], vm.bigIntStack[k])'
  BY DEF IndInv, CallerInv
<1>. QED  BY <1>1 DEF IndInv

\* Every step is a call of an API function or one of the host's.
LEMMA NextIs ==
  ASSUME IndInv, Next
  PROVE  \/ Calls
         \/ \E function \in DOMAIN Kinds : Enter(function)
         \/ LeaveDest \/ LeaveSame \/ LeaveFailed \/ OutOfGas \/ End
         \/ \E address, key, value : BuiltinFunction(address, key, value)
<1>1. Sound(vm)
  BY DEF IndInv
<1>. QED  BY <1>1, QueryCalls, TokenCalls, StorageCalls, OutputCalls, IntegerCalls DEF Next

\* Every step preserves the invariant.
LEMMA NextIndInv == IndInv /\ [Next]_vars => IndInv'
<1>. SUFFICES ASSUME IndInv, [Next]_vars PROVE IndInv'
  OBVIOUS
<1>1. CASE Calls
  BY <1>1, CallsKeep
<1>2. CASE \E function \in DOMAIN Kinds : Enter(function)
  BY <1>2, EnterKeeps
<1>3. CASE LeaveDest
  BY <1>3, LeaveDestIs, PopKeeps
<1>4. CASE LeaveSame
  BY <1>4, LeaveSameIs, PopKeeps
<1>5. CASE LeaveFailed
  BY <1>5, LeaveFailedIs, PopKeeps
<1>6. CASE OutOfGas \/ End
  BY <1>6, HaltIs, UnchangedFramesKeep
<1>7. CASE \E address, key, value : BuiltinFunction(address, key, value)
  BY <1>7, BuiltinIs, UnchangedFramesKeep
<1>8. CASE UNCHANGED vars
  BY <1>8 DEF vars, IndInv
<1>. QED  BY <1>1, <1>2, <1>3, <1>4, <1>5, <1>6, <1>7, <1>8, NextIs

-----------------------------------------------------------------------------
(* Memory accesses *)

\* The smaller of two numbers.
LEMMA MinOfTwo ==
  ASSUME NEW a \in Int, NEW b \in Int
  PROVE  Min({a, b}) = IF a <= b THEN a ELSE b
<1>. DEFINE m == IF a <= b THEN a ELSE b
<1>1. m \in {a, b} /\ m \in Int /\ \A y \in {a, b} : m <= y
  OBVIOUS
<1>2. \A x \in {a, b} : (\A y \in {a, b} : x <= y) => x = m
  OBVIOUS
<1>. HIDE DEF m
<1>3. Min({a, b}) = m
  BY <1>1, <1>2 DEF Min
<1>. QED  BY <1>3 DEF m

\* The memory that a contract may come to have by one store.
Room(m) == Min({Len(m) + PageSize, PageSize * MaxPages})

\* It is a page more, until the memory is full, and below the largest word: an
\* end that was cut to the largest word never lies within the memory.
LEMMA RoomIs ==
  ASSUME NEW m, IsMemory(m)
  PROVE  /\ Len(m) \in Nat /\ PageSize \in Nat /\ MaxInt \in Nat /\ PageSize * MaxPages \in Nat
         /\ Room(m) = IF Len(m) = PageSize * MaxPages THEN Len(m) ELSE Len(m) + PageSize
         /\ Room(m) < MaxInt /\ Len(m) < MaxInt
<1>1. /\ PageSize \in Nat /\ MaxPages \in Nat /\ PageSize * MaxPages < MaxInt
      /\ PageSize * MaxPages \in Nat /\ MaxInt \in Nat
  BY HooksAssumption, Bounds
<1>2. PICK n \in 1 .. MaxPages : Len(m) = PageSize * n
  BY DEF IsMemory
<1>. DEFINE l == PageSize * n
            full == PageSize * MaxPages
<1>3. n \in Nat /\ l \in Nat /\ full \in Nat /\ full < MaxInt
  BY <1>1, <1>2
<1>4. l <= full
  BY <1>1, <1>3
<1>5. l # full => l + PageSize <= full
  <2>. SUFFICES ASSUME l # full PROVE l + PageSize <= full
    OBVIOUS
  <2>1. n # MaxPages
    OBVIOUS
  <2>2. n + 1 <= MaxPages
    BY <1>1, <1>2, <2>1
  <2>3. PageSize * (n + 1) <= PageSize * MaxPages
    BY <1>1, <1>3, <2>2
  <2>4. PageSize * (n + 1) = l + PageSize
    BY <1>1, <1>3
  <2>. QED  BY <2>3, <2>4
<1>. HIDE DEF l, full
<1>6. Min({l + PageSize, full}) = IF l + PageSize <= full THEN l + PageSize ELSE full
  BY <1>1, <1>3, MinOfTwo
<1>7. Min({l + PageSize, full}) = IF l = full THEN l ELSE l + PageSize
  BY <1>1, <1>3, <1>4, <1>5, <1>6
<1>8. Min({l + PageSize, full}) < MaxInt /\ l < MaxInt
  BY <1>1, <1>3, <1>4, <1>5, <1>7
<1>9. Len(m) = l
  BY <1>2 DEF l
<1>10. Room(m) = Min({l + PageSize, full})
  BY <1>9 DEF Room, full
<1>. QED  BY <1>1, <1>3, <1>7, <1>8, <1>9, <1>10 DEF full

\* The end of an access, as the code computes it.
LEMMA EndIs ==
  ASSUME NEW offset \in SInt, NEW len \in 1 .. MaxInt
  PROVE  /\ offset \in Int /\ len \in Nat /\ len > 0 /\ MaxInt \in Nat
         /\ AddInt(offset, len) = IF offset + len <= MaxInt THEN offset + len ELSE MaxInt
<1>1. len \in SInt /\ offset \in Int /\ len \in Nat /\ len > 0 /\ MinInt <= offset
  BY Bounds DEF SInt
<1>2. AddInt(offset, len) = IF offset + len \in SInt THEN offset + len ELSE MaxInt
  BY <1>1, AddIntExact
<1>3. offset + len \in SInt <=> offset + len <= MaxInt
  BY <1>1, Bounds DEF SInt
<1>. QED  BY <1>1, <1>2, <1>3, Bounds

\* A store succeeds when the data fits into the room, with no end cut, and
\* otherwise fails with the memory as it was or one page larger.
LEMMA StoreOutcome ==
  ASSUME NEW s, Sound(s), s.status = "running",
         NEW offset \in SInt, NEW data, IsStack(data), Len(data) \in 1 .. MaxInt
  PROVE  LET t == MemStore(s, offset, data)
             end == offset + Len(data)
             g == Grown(s.mem, offset, data)
         IN  IF offset >= 0 /\ end <= Room(s.mem)
             THEN /\ t = [s EXCEPT !.mem = Patched(g, offset, data)]
                  /\ AddInt(offset, Len(data)) = end /\ end <= Len(g)
             ELSE \/ t = Fault(s)
                  \/ /\ t = Fault([s EXCEPT !.mem = g]) /\ IsMemory(g)
                     /\ Len(s.mem) # PageSize * MaxPages
<1>. DEFINE m == s.mem
            e == AddInt(offset, Len(data))
            end == offset + Len(data)
            g == Grown(m, offset, data)
<1>1. IsMemory(m)
  BY DEF Sound
<1>2. /\ Len(m) \in Nat /\ PageSize \in Nat /\ MaxInt \in Nat /\ PageSize * MaxPages \in Nat
      /\ Room(m) = IF Len(m) = PageSize * MaxPages THEN Len(m) ELSE Len(m) + PageSize
      /\ Room(m) < MaxInt /\ Len(m) < MaxInt
  BY <1>1, RoomIs
<1>3. /\ offset \in Int /\ Len(data) \in Nat /\ Len(data) > 0
      /\ e = IF end <= MaxInt THEN end ELSE MaxInt
  BY EndIs
<1>4. data # <<>>
  BY <1>3, StackEmpty
<1>5. ~(e > Len(m)) => Len(g) = Len(m)
  BY DEF Grown
<1>6. e > Len(m) /\ Len(m) # PageSize * MaxPages => IsMemory(g) /\ Len(g) = Len(m) + PageSize
  BY <1>1, MemoryGrows DEF Grown
<1>7. MemStore(s, offset, data) =
        IF offset < 0 \/ (e > Len(m) /\ Len(m) = PageSize * MaxPages) THEN Fault(s)
        ELSE IF e > Len(g) THEN Fault([s EXCEPT !.mem = g])
        ELSE [s EXCEPT !.mem = Patched(g, offset, data)]
  BY <1>4, MemStoreIs
<1>8. end \in Int
  BY <1>3
<1>. DEFINE full == PageSize * MaxPages
            room == Room(m)
            l == Len(m)
            k == Len(g)
            len == Len(data)
<1>9. CASE offset >= 0 /\ end <= room
  <2>. HIDE DEF m, e, end, g, full, room, l, k, len
  <2>1. e = end /\ end <= k /\ ~(e > l /\ l = full)
    <3>1. e = end
      BY <1>9, <1>2, <1>3, <1>8 DEF room
    <3>2. ~(e > l /\ l = full)
      BY <1>9, <1>2, <1>8, <3>1 DEF room, l, full
    <3>3. end <= k
      <4>1. CASE e > l
        BY <4>1, <3>1, <3>2, <1>2, <1>6, <1>9 DEF room, l, k, full
      <4>2. CASE ~(e > l)
        BY <4>2, <3>1, <1>2, <1>5, <1>8 DEF l, k
      <4>. QED  BY <4>1, <4>2
    <3>. QED  BY <3>1, <3>2, <3>3
  <2>2. ~(offset < 0) /\ ~(e > k)
    BY <1>9, <1>2, <1>3, <1>5, <1>6, <1>8, <2>1 DEF l, k, full
  <2>. QED  BY <1>7, <1>9, <2>1, <2>2 DEF m, e, end, g, full, room, l, k
<1>10. CASE ~(offset >= 0 /\ end <= room)
  <2>. HIDE DEF m, e, end, g, full, room, l, k, len
  <2>1. CASE offset < 0
    <3>1. MemStore(s, offset, data) = Fault(s)
      BY <2>1, <1>7
    <3>. QED  BY ONLY <3>1, <1>10 DEF end, room, m
  <2>2. CASE ~(offset < 0)
    <3>1. ~(end <= room)
      BY <2>2, <1>3, <1>10
    <3>2. e > room
      BY <3>1, <1>2, <1>3, <1>8 DEF room
    <3>3. e > l
      BY <3>2, <1>2, <1>3, <1>8 DEF room, l
    <3>4. CASE l = full
      <4>1. MemStore(s, offset, data) = Fault(s)
        BY <3>3, <3>4, <1>7 DEF l, full
      <4>. QED  BY ONLY <4>1, <1>10 DEF end, room, m
    <3>5. CASE l # full
      <4>1. IsMemory(g) /\ k = l + PageSize /\ room = k
        BY <3>3, <3>5, <1>2, <1>6 DEF l, k, room, full
      <4>2. e > k
        BY <3>2, <4>1
      <4>. QED  BY <3>5, <4>1, <4>2, <1>7, <1>10 DEF m, e, end, g, full, room, l, k
    <3>. QED  BY <3>4, <3>5
  <2>. QED  BY <2>1, <2>2
<1>. QED  BY <1>9, <1>10

\* What MemoryAccessesAgree says of a store, for data of any length.
LEMMA StoredMemory ==
  ASSUME NEW s, Sound(s), s.status = "running",
         NEW offset \in SInt, NEW data, IsStack(data), Len(data) \in 1 .. MaxInt
  PROVE  LET t == MemStore(s, offset, data)
             end == offset + Len(data)
         IN  /\ Running(t) <=> offset >= 0 /\ end <= Room(s.mem)
             /\ Running(t) =>
                  /\ Loaded(t, offset, Len(data)) = data
                  /\ Len(t.mem) \in {Len(s.mem), Len(s.mem) + PageSize}
                  /\ end <= Len(s.mem) => Len(t.mem) = Len(s.mem)
             /\ \A i \in DOMAIN s.mem :
                  t.mem[i] # s.mem[i] => Running(t) /\ i \in offset + 1 .. end
<1>. DEFINE t == MemStore(s, offset, data)
            m == s.mem
            end == offset + Len(data)
            g == Grown(m, offset, data)
            fits == offset >= 0 /\ end <= Room(m)
<1>0. IsMemory(m) /\ Fields \subseteq DOMAIN s
  BY DEF Sound
<1>1. IF fits
      THEN /\ t = [s EXCEPT !.mem = Patched(g, offset, data)]
           /\ AddInt(offset, Len(data)) = end /\ end <= Len(g)
      ELSE \/ t = Fault(s)
           \/ t = Fault([s EXCEPT !.mem = g]) /\ IsMemory(g) /\ Len(m) # PageSize * MaxPages
  BY StoreOutcome
<1>2. /\ Len(m) \in Nat /\ PageSize \in Nat /\ DOMAIN m = 1 .. Len(m)
      /\ Room(m) = IF Len(m) = PageSize * MaxPages THEN Len(m) ELSE Len(m) + PageSize
  BY <1>0, RoomIs, StackEmpty DEF IsMemory
<1>3. offset \in Int /\ Len(data) \in Nat /\ Len(data) > 0 /\ end \in Int
  BY EndIs
<1>4. g = m \/ (Len(m) # PageSize * MaxPages => /\ IsMemory(g) /\ Len(g) = Len(m) + PageSize
                                                /\ \A i \in 1 .. Len(m) : g[i] = m[i])
  BY <1>0, MemoryGrows DEF Grown
<1>. HIDE DEF t, m, g
<1>5. CASE fits
  <2>. DEFINE p == Patched(g, offset, data)
  <2>1. t.mem = p /\ t.status = "running"
    BY <1>0, <1>1, <1>5 DEF Fields
  <2>2. Running(t)
    BY <2>1 DEF Running
  <2>3. AddInt(offset, Len(data)) = end /\ end <= Len(g)
    BY <1>1, <1>5
  <2>4. /\ IsMemory(g) /\ Len(g) \in {Len(m), Len(m) + PageSize}
        /\ \A i \in 1 .. Len(m) : g[i] = m[i]
        /\ end <= Len(m) => Len(g) = Len(m)
    <3>1. CASE end > Len(m)
      <4>1. Len(m) # PageSize * MaxPages
        BY <3>1, <1>2, <1>3, <1>5
      <4>2. g = m \o Zeroes
        BY <2>3, <3>1 DEF g, Grown
      <4>3. ~(end <= Len(m))
        BY <3>1, <1>2, <1>3
      <4>4. /\ IsMemory(g) /\ Len(g) = Len(m) + PageSize
            /\ \A i \in 1 .. Len(m) : g[i] = m[i]
        BY <4>1, <4>2, <1>0, MemoryGrows
      <4>. QED  BY <4>3, <4>4
    <3>2. CASE ~(end > Len(m))
      <4>1. g = m
        BY <2>3, <3>2 DEF g, Grown
      <4>. QED  BY <4>1, <1>0
    <3>. QED  BY <3>1, <3>2
  <2>5. Len(g) \in Nat /\ DOMAIN g = 1 .. Len(g)
    BY <2>4, StackEmpty DEF IsMemory
  <2>6. p = [i \in 1 .. Len(g) |-> IF i \in offset + 1 .. end THEN data[i - offset] ELSE g[i]]
    BY <2>3, <2>5 DEF Patched
  <2>7. Len(p) = Len(g)
    <3>1. IsFunction(p) /\ DOMAIN p = DOMAIN g
      BY DEF Patched, IsFunction
    <3>. HIDE DEF p
    <3>. QED  BY <3>1, <2>4, MemoryPatched
  <2>8. Loaded(t, offset, Len(data)) = data
    <3>1. Min({AddInt(offset, Len(data)), Len(t.mem)}) = end
      BY <2>1, <2>3, <2>5, <2>7, <1>3, MinOfTwo
    <3>2. Loaded(t, offset, Len(data)) =
            [i \in 1 .. Len(data) |-> IF offset + i <= end THEN t.mem[offset + i] ELSE 0]
      BY <3>1 DEF Loaded
    <3>3. ASSUME NEW i \in 1 .. Len(data)
          PROVE  offset + i <= end /\ t.mem[offset + i] = data[i]
      <4>1. /\ offset + i <= end /\ offset + i \in 1 .. Len(g)
            /\ offset + i \in offset + 1 .. end /\ (offset + i) - offset = i
        BY <1>3, <1>5, <2>3, <2>5
      <4>. QED  BY <4>1, <2>1, <2>6
    <3>4. data = [i \in 1 .. Len(data) |-> data[i]]
      BY DEF IsStack
    <3>. QED  BY <3>2, <3>3, <3>4
  <2>9. ASSUME NEW i \in DOMAIN m, t.mem[i] # m[i]
        PROVE  i \in offset + 1 .. end
    <3>. DEFINE l == Len(m)
                k == Len(g)
    <3>0. l \in Nat /\ k \in Nat /\ PageSize \in Nat /\ k \in {l, l + PageSize} /\ i \in 1 .. l
      BY <1>2, <2>4, <2>5
    <3>1. i \in 1 .. l /\ i \in 1 .. k
      <4>. HIDE DEF l, k
      <4>. QED  BY <3>0
    <3>2. t.mem[i] = IF i \in offset + 1 .. end THEN data[i - offset] ELSE g[i]
      BY <3>1, <2>1, <2>6
    <3>. QED  BY <3>1, <3>2, <2>4, <2>9
  <2>. HIDE DEF p
  <2>10. Len(t.mem) = Len(g)
    BY <2>1, <2>7
  <2>. QED  BY <1>5, <2>2, <2>4, <2>8, <2>9, <2>10 DEF t, m
<1>6. CASE ~fits
  <2>1. t.status = "failed" /\ (t.mem = m \/ (t.mem = g /\ Len(m) # PageSize * MaxPages))
    BY <1>0, <1>1, <1>6 DEF Fault, UseGas, Fields, m
  <2>2. \A i \in DOMAIN m : t.mem[i] = m[i]
    BY <2>1, <1>2, <1>4
  <2>3. ~Running(t)
    BY <2>1 DEF Running
  <2>. QED  BY <1>6, <2>2, <2>3 DEF t, m
<1>. QED  BY <1>5, <1>6

\* What MemoryAccessesAgree says of a load: zeroes beyond the memory.
LEMMA LoadedMemory ==
  ASSUME NEW s, Sound(s), NEW offset \in SInt, NEW len \in 1 .. MaxInt,
         ~LoadFails(s, offset, len), NEW i \in 1 .. len
  PROVE  Loaded(s, offset, len)[i] = IF offset + i \in DOMAIN s.mem THEN s.mem[offset + i] ELSE 0
<1>. DEFINE m == s.mem
            l == Len(m)
            e == AddInt(offset, len)
<1>1. IsMemory(m)
  BY DEF Sound
<1>2. l \in Nat /\ MaxInt \in Nat /\ l < MaxInt /\ DOMAIN m = 1 .. l
  BY <1>1, RoomIs, StackEmpty DEF IsMemory
<1>3. /\ offset \in Int /\ len \in Nat /\ len > 0
      /\ e = IF offset + len <= MaxInt THEN offset + len ELSE MaxInt
  BY EndIs
<1>4. offset >= 0
  BY <1>3 DEF LoadFails
<1>5. Loaded(s, offset, len)[i] = IF offset + i <= Min({e, l}) THEN m[offset + i] ELSE 0
  BY DEF Loaded
<1>. HIDE DEF m, l, e
<1>6. Min({e, l}) = IF e <= l THEN e ELSE l
  BY <1>2, <1>3, MinOfTwo
<1>7. offset + i <= Min({e, l}) <=> offset + i <= l
  BY <1>2, <1>3, <1>6
<1>8. offset + i <= l <=> offset + i \in DOMAIN m
  BY <1>2, <1>3, <1>4
<1>. QED  BY <1>5, <1>7, <1>8 DEF m

-----------------------------------------------------------------------------
(* The theorems *)

\* IndInv is an invariant of the API functions and nested calls (vmhooks/,
\* contexts/runtime.go, bigint.go, storage.go).
THEOREM IndInvTheorem == Spec => []IndInv
BY InitIndInv, NextIndInv, PTL DEF Spec

\* Under keys that the VM protects only setStorageLock ever writes, and nothing
\* under keys of the protocol, whatever sequence of API functions and nested calls
\* runs: SetProtectedStorage never leaves the protection off
\* (contexts/storage.go).
THEOREM ProtectedKeysHoldLocksTheorem == Spec => []ProtectedKeysHoldLocks
<1>1. IndInv => ProtectedKeysHoldLocks
  BY DEF IndInv, Sound, WrittenInv, ProtectedKeysHoldLocks
<1>. QED  BY <1>1, IndInvTheorem, PTL

\* The data of MemoryAccessesAgree.
LEMMA Samples ==
  ASSUME NEW data \in StoredData
  PROVE  IsStack(data) /\ Len(data) \in 1 .. MaxInt /\ DOMAIN data = 1 .. Len(data)
<1>1. MaxInt \in Nat /\ 3 < MaxInt
  BY HooksAssumption, Bounds
<1>2. data \in Seq(Nat) /\ Len(data) \in 1 .. 3
  <2>1. CASE data = <<1>>
    BY <2>1
  <2>2. CASE data = <<2, 3>>
    BY <2>2
  <2>3. CASE data = <<3, 2, 1>>
    BY <2>3
  <2>. QED  BY <2>1, <2>2, <2>3 DEF StoredData
<1>3. DOMAIN data = 1 .. Len(data)
  BY <1>2
<1>4. IsStack(data)
  BY <1>2 DEF IsStack
<1>5. Len(data) \in 1 .. MaxInt
  <2>. DEFINE len == Len(data)
  <2>1. len \in 1 .. 3
    BY <1>2
  <2>. HIDE DEF len
  <2>2. len \in 1 .. MaxInt
    BY ONLY <1>1, <2>1
  <2>. QED  BY <2>2 DEF len
<1>. QED  BY <1>3, <1>4, <1>5

\* MemoryAccessesAgree follows from the type of the memory.
LEMMA MemoryAgrees == IndInv => MemoryAccessesAgree
<1>. SUFFICES ASSUME IndInv,
                     NEW offset \in SInt, NEW data \in StoredData
              PROVE  LET s == [vm EXCEPT !.status = "running"]
                         t == MemStore(s, offset, data)
                         end == offset + Len(data)
                         room == Min({Len(vm.mem) + PageSize, PageSize * MaxPages})
                     IN  /\ Running(t) <=> offset >= 0 /\ end <= room
                         /\ Running(t) => /\ Loaded(t, offset, Len(data)) = data
                                          /\ Len(t.mem) \in {Len(vm.mem), Len(vm.mem) + PageSize}
                                          /\ end <= Len(vm.mem) => Len(t.mem) = Len(vm.mem)
                         /\ \A i \in DOMAIN vm.mem :
                              t.mem[i] # vm.mem[i] => Running(t) /\ i \in offset + 1 .. end
                         /\ ~LoadFails(s, offset, Len(data)) =>
                              \A i \in DOMAIN data : Loaded(s, offset, Len(data))[i] =
                                  IF offset + i \in DOMAIN vm.mem THEN vm.mem[offset + i] ELSE 0
  BY DEF MemoryAccessesAgree
<1>. DEFINE s == [vm EXCEPT !.status = "running"]
            len == Len(data)
<1>1. Sound(vm)
  BY DEF IndInv
<1>2. Quiet(vm, s)
  BY <1>1, QuietSelf, QuietStatus
<1>3. Sound(s) /\ s.status = "running" /\ s.mem = vm.mem
  BY <1>1, <1>2 DEF Quiet, Sound, Fields
<1>4. IsStack(data) /\ len \in 1 .. MaxInt /\ DOMAIN data = 1 .. len
  BY Samples
<1>. HIDE DEF s
<1>5. LET t == MemStore(s, offset, data)
          end == offset + Len(data)
      IN  /\ Running(t) <=> offset >= 0 /\ end <= Room(s.mem)
          /\ Running(t) =>
               /\ Loaded(t, offset, Len(data)) = data
               /\ Len(t.mem) \in {Len(s.mem), Len(s.mem) + PageSize}
               /\ end <= Len(s.mem) => Len(t.mem) = Len(s.mem)
          /\ \A i \in DOMAIN s.mem :
               t.mem[i] # s.mem[i] => Running(t) /\ i \in offset + 1 .. end
  BY <1>3, <1>4, StoredMemory
<1>6. ~LoadFails(s, offset, len) =>
        \A i \in 1 .. len : Loaded(s, offset, len)[i] =
            IF offset + i \in DOMAIN s.mem THEN s.mem[offset + i] ELSE 0
  BY <1>3, <1>4, LoadedMemory
<1>7. Room(s.mem) = Min({Len(vm.mem) + PageSize, PageSize * MaxPages})
  BY <1>3 DEF Room
<1>8. s = [vm EXCEPT !.status = "running"]
  BY DEF s
<1>. QED  BY ONLY <1>3, <1>4, <1>5, <1>6, <1>7, <1>8

\* MemStore and MemLoad agree for every memory that can arise and every page size
\* (contexts/runtime.go).
THEOREM MemoryAccessesAgreeTheorem == Spec => []MemoryAccessesAgree
BY MemoryAgrees, IndInvTheorem, PTL

\* Put finds a free handle: of the n + 1 handles from n to 2 n, at most n are in
\* use.
LEMMA FreeHandle ==
  ASSUME NEW s, IsFiniteSet(DOMAIN s.bigInts)
  PROVE  NewHandle(s) \notin DOMAIN s.bigInts
<1>. DEFINE D == DOMAIN s.bigInts
            n == Cardinality(D)
            free == {h \in n .. 2 * n : h \notin D}
<1>1. n \in Nat
  BY FS_CardinalityType
<1>. HIDE DEF n
<1>2. Cardinality(n .. 2 * n) = n + 1
  <2>. DEFINE k == 2 * n
  <2>1. k \in Int /\ n \in Int /\ ~(n > k) /\ k - n + 1 = n + 1
    BY <1>1
  <2>. HIDE DEF k
  <2>2. Cardinality(n .. k) = k - n + 1
    BY <2>1, FS_Interval
  <2>. QED  BY <2>1, <2>2 DEF k
<1>3. ~(n .. 2 * n \subseteq D)
  <2>. SUFFICES ASSUME n .. 2 * n \subseteq D PROVE FALSE
    OBVIOUS
  <2>1. Cardinality(n .. 2 * n) <= Cardinality(D)
    BY FS_Subset
  <2>. QED  BY <2>1, <1>1, <1>2 DEF n
<1>4. free \subseteq Nat /\ free # {}
  BY <1>1, <1>3
<1>5. PICK l \in free : \A k \in free : l <= k
  BY <1>4, LeastNatural
<1>6. Min(free) \in free
  BY <1>5 DEF Min
<1>. QED  BY <1>6 DEF NewHandle, n

\* The steps that BigIntsAreKept is about.
LEMMA NextBigInts ==
  ASSUME IndInv, [Next]_vars
  PROVE  [NewHandleIsFresh /\ CallerKeepsItsBigInts]_vars
<1>. SUFFICES ASSUME Next PROVE NewHandleIsFresh /\ CallerKeepsItsBigInts
  OBVIOUS
<1>0. Sound(vm) /\ Fields \subseteq DOMAIN vm
      /\ IsFiniteSet(DOMAIN vm.bigInts) /\ IsFunction(vm.bigInts)
  BY DEF IndInv, Sound
<1>1. ASSUME NEW n \in Words, vm' = bigIntNew(vm, n)
      PROVE  /\ vm'.ret \notin DOMAIN vm.bigInts
             /\ Restrict(vm'.bigInts, DOMAIN vm.bigInts) = vm.bigInts
  <2>. DEFINE c == Charge(vm)
              h == NewHandle(c)
              ints == Put2(vm.bigInts, h, n)
  <2>1. Fields \subseteq DOMAIN c /\ c.bigInts = vm.bigInts
    BY <1>0 DEF Charge, UseGas, Fields
  <2>2. h \notin DOMAIN vm.bigInts
    BY <1>0, <2>1, FreeHandle
  <2>3. vm' = Return([c EXCEPT !.bigInts = Put2(c.bigInts, h, n)], h)
    BY <1>1 DEF bigIntNew, PutBigInt
  <2>. HIDE DEF c, h
  <2>4. vm'.ret = h /\ vm'.bigInts = ints
    BY <2>1, <2>3 DEF Return, Fields
  <2>5. \A z \in DOMAIN vm.bigInts : ints[z] = vm.bigInts[z]
    BY <2>2 DEF Put2
  <2>. HIDE DEF ints
  <2>. QED  BY <1>0, <2>2, <2>4, <2>5 DEF Restrict, IsFunction
<1>2. NewHandleIsFresh
  BY <1>1 DEF NewHandleIsFresh, Call
<1>3. IsStack(frames)
  BY DEF IndInv
<1>4. Len(frames) \in Nat
  BY <1>3, StackEmpty
<1>5. CallerKeepsItsBigInts
  <2>1. CASE frames' = frames
    BY <2>1, <1>4 DEF CallerKeepsItsBigInts
  <2>2. CASE \E function \in DOMAIN Kinds : Enter(function)
    <3>1. PICK x : frames' = Append(frames, x)
      BY <2>2 DEF Enter
    <3>2. Len(frames') = Len(frames) + 1
      BY <3>1, <1>3, StackPush
    <3>. QED  BY <3>2, <1>4 DEF CallerKeepsItsBigInts
  <2>3. CASE LeaveDest
    BY <2>3, LeaveDestIs DEF CallerKeepsItsBigInts
  <2>4. CASE LeaveSame
    BY <2>4, LeaveSameIs DEF CallerKeepsItsBigInts
  <2>5. CASE LeaveFailed
    BY <2>5, LeaveFailedIs DEF CallerKeepsItsBigInts
  <2>6. CASE Calls
    BY <2>6, <2>1 DEF Calls
  <2>7. CASE OutOfGas \/ End
    BY <2>7, <2>1, HaltIs
  <2>8. CASE \E address, key, value : BuiltinFunction(address, key, value)
    BY <2>8, <2>1 DEF BuiltinFunction
  <2>. QED  BY <2>2, <2>3, <2>4, <2>5, <2>6, <2>7, <2>8, NextIs
<1>. QED  BY <1>2, <1>5

\* bigIntNew gives out fresh handles, and a caller has its integers back after a
\* call to another context and after a failure, at any depth
\* (contexts/bigint.go, Put; execution.go, finishExecuteOnDestContext).
THEOREM BigIntsAreKeptTheorem == Spec => BigIntsAreKept
BY NextBigInts, IndInvTheorem, PTL DEF Spec, BigIntsAreKept

\* A cell of the cache has what the storage has.
LEMMA NoTraceIs ==
  ASSUME Sound(vm'), NoTrace(vm, vm')
  PROVE  FaultLeavesNoTrace
<1>1. ASSUME NEW cell \in DOMAIN vm'.updates
      PROVE  vm'.updates[cell] = CachedOrStored(vm, cell[1], cell[2])
  <2>1. cell = <<cell[1], cell[2]>>
    BY DEF Sound
  <2>2. CachedOrStored(vm', cell[1], cell[2]) = vm'.updates[cell]
    BY <2>1 DEF CachedOrStored, IsCached
  <2>. QED  BY <2>2 DEF NoTrace, Reads
<1>. QED  BY <1>1 DEF NoTrace, FaultLeavesNoTrace

\* The steps that FaultsLeaveNoTrace is about.
LEMMA NextFaults ==
  ASSUME IndInv, [Next]_vars
  PROVE  [FaultLeavesNoTrace]_vars
<1>. SUFFICES ASSUME Next PROVE FaultLeavesNoTrace
  OBVIOUS
<1>1. CASE Calls
  BY <1>1, NoTraceIs DEF Calls, After, FaultLeavesNoTrace
<1>2. CASE OutOfGas \/ End
  BY <1>2, HaltIs, NoTraceIs
<1>3. CASE \E address, key, value : BuiltinFunction(address, key, value)
  BY <1>3, BuiltinIs DEF FaultLeavesNoTrace
<1>. DEFINE n == Len(frames)
<1>4. IsStack(frames) /\ n \in Nat
  BY StackEmpty DEF IndInv
<1>5. CASE \E function \in DOMAIN Kinds : Enter(function)
  <2>1. PICK x : frames' = Append(frames, x)
    BY <1>5 DEF Enter
  <2>2. Len(frames') = n + 1
    BY <2>1, <1>4, StackPush
  <2>. QED  BY <2>2, <1>4 DEF FaultLeavesNoTrace
<1>6. CASE LeaveDest \/ LeaveSame \/ LeaveFailed
  <2>1. frames # <<>> /\ frames' = Front(frames)
    BY <1>6 DEF LeaveDest, LeaveSame, LeaveFailed
  <2>2. Len(frames') = n - 1
    BY <2>1, <1>4, StackPop
  <2>. QED  BY <2>2, <1>4 DEF FaultLeavesNoTrace
<1>. QED  BY <1>1, <1>2, <1>3, <1>5, <1>6, NextIs

\* An API function that fails has stored, returned and logged nothing, whichever
\* of its steps failed (WithFault, helpers.go).
THEOREM FaultsLeaveNoTraceTheorem == Spec => FaultsLeaveNoTrace
BY NextFaults, IndInvTheorem, PTL DEF Spec, FaultsLeaveNoTrace

\* The guards of math/overflow.go that charge the gas are exact in all states, for
\* words of every width.
THEOREM GuardsExactTheorem == Spec => []GuardsExact
<1>1. GuardsExact
  BY SaturationExactTheorem DEF GuardsExact
<1>. QED  BY <1>1, PTL

\* A charge does not change what a load gives.
LEMMA LoadsAgree ==
  ASSUME NEW s, Fields \subseteq DOMAIN s, NEW offset, NEW len
  PROVE  /\ LoadFails(Charge(s), offset, len) = LoadFails(s, offset, len)
         /\ Loaded(Charge(s), offset, len) = Loaded(s, offset, len)
<1>1. Charge(s).mem = s.mem
  BY DEF Charge, UseGas, Fields
<1>. QED  BY <1>1 DEF LoadFails, Loaded

\* A store that succeeds returns the length of the data.
LEMMA StoreResultIs ==
  ASSUME NEW s, NEW t, Quiet(s, t), NEW offset, NEW data, Running(StoreResult(t, offset, data))
  PROVE  StoreResult(t, offset, data).ret = Len(data)
<1>1. Quiet(s, MemStore(t, offset, data))
  BY QuietMemStore
<1>2. "ret" \in DOMAIN MemStore(t, offset, data)
  BY <1>1 DEF Quiet, Sound, Fields
<1>3. StoreResult(t, offset, data) =
        IF Running(MemStore(t, offset, data)) THEN Return(MemStore(t, offset, data), Len(data))
        ELSE MemStore(t, offset, data)
  BY DEF StoreResult, Store, IfRunning
<1>4. Running(MemStore(t, offset, data))
  BY <1>3
<1>. QED  BY <1>2, <1>3, <1>4 DEF Return

\* The steps that ProtectedReadsAreCurrent is about.
LEMMA NextProtectedReads ==
  ASSUME IndInv, [Next]_vars
  PROVE  [ProtectedReadIsCurrent]_vars
<1>. SUFFICES ASSUME NEW slot \in Slots, NEW a \in Offsets, NEW o \in Offsets,
                     ~LoadFails(vm, slot[1], slot[2]), ~LoadFails(vm, a, AddressLen),
                     IsProtocolProtectedKey(Loaded(vm, slot[1], slot[2])),
                     Loaded(vm, a, AddressLen) = vm.address
                       \/ (Loaded(vm, a, AddressLen) \in Address /\ Env["readable"]),
                     Call("storageLoadFromAddress", storageLoadFromAddress(vm, a, slot, o)),
                     Running(vm')
              PROVE  vm'.ret = Len(GetStorageData(Loaded(vm, a, AddressLen),
                                                  Loaded(vm, slot[1], slot[2])))
  BY DEF ProtectedReadIsCurrent
<1>. DEFINE key == Loaded(vm, slot[1], slot[2])
            address == Loaded(vm, a, AddressLen)
            c == Charge(vm)
            value == GetStorageData(address, key)
            t == ChargeBytes(ChargeKey(c, key), DataCopyPerByte, Len(value))
<1>1. Sound(vm) /\ Fields \subseteq DOMAIN vm
  BY DEF IndInv, Sound
<1>2. c.address = vm.address
  BY DEF Charge, UseGas
<1>3. vm' = GetStorageFromAddress(c, address, key, LAMBDA u, data : StoreResult(u, o, data))
  <2>1. vm' = storageLoadFromAddress(vm, a, slot, o)
    BY DEF Call
  <2>. QED  BY <2>1, <1>1, LoadsAgree DEF storageLoadFromAddress, Load, LoadAddress
<1>4. ~(address # c.address /\ (address \notin Address \/ ~Env["readable"]))
  BY <1>2
<1>5. vm' = StoreResult(t, o, value)
  BY <1>3, <1>4 DEF GetStorageFromAddress, ReadFromAddress
<1>6. Quiet(vm, t)
  BY <1>1, QuietSelf, QuietCharge
<1>. HIDE DEF t, value
<1>7. vm'.ret = Len(value)
  BY <1>5, <1>6, StoreResultIs
<1>. QED  BY <1>7 DEF value

\* A read of a key that the protocol protects gives what the node has now and not
\* what was cached before (contexts/storage.go, GetStorageFromAddress).
THEOREM ProtectedReadsAreCurrentTheorem == Spec => ProtectedReadsAreCurrent
BY NextProtectedReads, IndInvTheorem, PTL DEF Spec, ProtectedReadsAreCurrent
=============================================================================
