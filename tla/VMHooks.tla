------------------------------ MODULE VMHooks -------------------------------
(***************************************************************************)
(* The API that a contract calls while it runs, as far as one execution is *)
(* concerned: linear memory (contexts/runtime.go), big integers            *)
(* (contexts/bigint.go, vmhooks/bigIntOps.go), small integers              *)
(* (vmhooks/smallIntOps.go), the storage cache (contexts/storage.go),      *)
(* queries (vmhooks/baseOps.go) and cryptography (cryptoapi/cryptoei.go).  *)
(* The API functions that call, create and pay other contracts are in      *)
(* VMHost.tla; here a nested call is what it does to memory, big integers  *)
(* and storage.                                                            *)
(*                                                                         *)
(* The execution is one record.  An API function is an operator from the   *)
(* record before the call to the record after it, and the contract is free *)
(* to call any function with any arguments of small sets.  Bytes have Base *)
(* values and the words of 32 and of 64 bits are the words of OverflowMath,*)
(* so that all widths are met at their edges.                              *)
(***************************************************************************)
EXTENDS OverflowMath, VMImports, Sequences, SequencesExt, FiniteSets, FiniteSetsExt, Functions

CONSTANTS
    Base,                    \* values of a byte
    PageSize, MaxPages,      \* bytes in a page of memory; pages that may be used
    Self, Other,             \* addresses: a byte sequence of length AddressLen
    BalanceLen,
    Arguments,               \* of the call, a sequence of byte sequences
    Env,                     \* what the chain answers: a function of the query
    ApiCost, DataCopyPerByte, PersistPerByte, StorePerByte,
    Contracts,               \* what may run: its imports and exports, gas and payment
    WellFormedNames, BuiltInFunctions, ESDTEnabled,
    GasGiven,                \* to a contract that is called
    Offsets, Slots, TokenSlots, Handles, Words, Ids, Bits,    \* arguments of the API functions
    ProtectedValues,         \* what a built-in function may leave under a key
    MaxDepth                 \* bound: nested calls

Byte == 0 .. Base - 1
Bytes == Seq(Byte)
Address == {Self, Other}
AddressLen == Len(Self)

ASSUME HooksAssumption ==
    /\ Base \in Nat /\ Base > 3 /\ Base % 2 = 0 /\ Base <= MaxInt
    /\ {PageSize, MaxPages, BalanceLen, ApiCost, GasGiven, MaxDepth} \subseteq Nat
    /\ MaxPages > 0 /\ PageSize * MaxPages < MaxInt /\ ApiCost > 0
    /\ \A c \in Contracts : c.limit \in Uint
    /\ Self \in Bytes /\ Other \in Bytes /\ Len(Other) = AddressLen

VARIABLES
    vm,        \* the execution that is under way
    frames,    \* its callers, with the copies of their state that the host keeps
    chain      \* what the node stores under keys that the protocol protects

vars == <<vm, frames, chain>>

-----------------------------------------------------------------------------
(* Conversions between integers and bytes, of math/big and twos-complement *)

Abs(n) == IF n < 0 THEN -n ELSE n

MaxIntLen == 5     \* bound: no integer of the model needs more bytes
UnsignedLen(n) == Min({l \in 0 .. MaxIntLen : n < Base^l})
SignedLen(n) ==
    IF n = 0 THEN 0
    ELSE Min({l \in 1 .. MaxIntLen : -(Base^l) <= 2 * n /\ 2 * n < Base^l})

Digits(n, l) == [i \in 1 .. l |-> (n \div Base^(l - i)) % Base]
UnsignedBytes(n) == Digits(Abs(n), UnsignedLen(Abs(n)))
SignedBytes(n) == LET l == SignedLen(n) IN Digits(n % Base^l, l)

SetUnsignedBytes(b) == FoldLeft(LAMBDA n, d : n * Base + d, 0, b)
SetSignedBytes(b) ==
    IF b # <<>> /\ 2 * b[1] >= Base
    THEN SetUnsignedBytes(b) - Base^Len(b) ELSE SetUnsignedBytes(b)

\* The two encodings of a big integer, for functions that exist in both.
Encoded(n, signed) == IF signed THEN SignedBytes(n) ELSE UnsignedBytes(n)
Decoded(b, signed) == IF signed THEN SetSignedBytes(b) ELSE SetUnsignedBytes(b)

\* PadBytesLeft: no data stays no data.
PadBytesLeft(b, n) ==
    IF b = <<>> THEN <<>> ELSE [i \in 1 .. Max({0, n - Len(b)}) |-> 0] \o b

-----------------------------------------------------------------------------
(* Gas, faults and memory *)

\* SetPointsUsed: the points of an instance stop at the largest signed word.
PointsSet(points) == IF points > MaxInt THEN MaxInt ELSE points

\* UseGas and RestoreGas, of metering.go.
UseGas(s, gas) == [s EXCEPT !.gasUsed = PointsSet(AddUint64(@, gas))]
PointsRestored(points, gas) == IF gas <= points THEN PointsSet(points - gas) ELSE points
Charge(s) == UseGas(s, ApiCost)
ChargeBytes(s, perByte, n) == UseGas(s, MulUint64(perByte, WrapU(n)))
GasLeft(s) == SubUint64(s.limit, s.gasUsed)

Return(s, value) == [s EXCEPT !.ret = value]

\* WithFault: every API group fails the execution on an error.
Fault(s) == [UseGas(s, GasLeft(s)) EXCEPT !.status = "failed"]

\* A run-time panic of Go, which the host turns into a failed execution.
Panic(s) == [s EXCEPT !.status = "panicked"]

\* MemLoad: what lies beyond the memory reads as zeroes.
LoadFails(s, offset, length) ==
    length # 0 /\ (offset < 0 \/ offset > Len(s.mem) \/ length < 0)
Loaded(s, offset, length) ==
    LET end == Min({AddInt(offset, length), Len(s.mem)}) IN
    [i \in 1 .. length |-> IF offset + i <= end THEN s.mem[offset + i] ELSE 0]

\* MemLoad followed by WithFault.
Load(s, slot, Then(_)) ==
    IF LoadFails(s, slot[1], slot[2]) THEN Fault(s) ELSE Then(Loaded(s, slot[1], slot[2]))

LoadAddress(s, offset, Then(_)) == Load(s, <<offset, AddressLen>>, Then)

\* Mutant: the offset is not compared with zero.
MemStoreAnywhere(s, offset, data) ==
    LET end == AddInt(offset, Len(data))
    IN  IF end > Len(s.mem) THEN Fault(s)
        ELSE [s EXCEPT !.mem = [i \in DOMAIN @ |->
                 IF i \in offset + 1 .. end THEN data[i - offset] ELSE @[i]]]

\* MemStore followed by WithFault: the memory grows by one page at most.
MemStore(s, offset, data) ==
    LET end == AddInt(offset, Len(data))
        newPage == end > Len(s.mem)
        grown == IF newPage THEN s.mem \o [i \in 1 .. PageSize |-> 0] ELSE s.mem
    IN  IF data = <<>> THEN s
        ELSE IF offset < 0 \/ (newPage /\ Len(s.mem) = PageSize * MaxPages) THEN Fault(s)
        ELSE IF end > Len(grown) THEN Fault([s EXCEPT !.mem = grown])
        ELSE [s EXCEPT !.mem = [i \in DOMAIN grown |->
                 IF i \in offset + 1 .. end THEN data[i - offset] ELSE grown[i]]]

Running(s) == s.status = "running"
IfRunning(t, Then(_)) == IF Running(t) THEN Then(t) ELSE t
Store(s, offset, data, Then(_)) == IfRunning(MemStore(s, offset, data), Then)

\* Store, then return the length of the data.
StoreResult(s, offset, data) == Store(s, offset, data, LAMBDA t : Return(t, Len(data)))

Finish(s, data) == [s EXCEPT !.returnData = Append(@, data)]

-----------------------------------------------------------------------------
(* The storage context *)

ProtectedKeyPrefix == <<Base - 1>>               \* of the node
ProtectedStoragePrefix == <<Base - 2>>           \* of the VM
TimeLockKeyPrefix == ProtectedStoragePrefix \o <<1>>

IsProtocolProtectedKey(key) == IsPrefix(ProtectedKeyPrefix, key)
IsVMProtectedKey(key) == IsPrefix(ProtectedStoragePrefix, key)

\* CustomStorageKey appends the key type.
TimeLockKey(key) == key \o TimeLockKeyPrefix

GetStorageData(address, key) ==
    IF <<address, key>> \in DOMAIN chain THEN chain[<<address, key>>] ELSE <<>>

IsCached(s, address, key) == <<address, key>> \in DOMAIN s.updates
CachedOrStored(s, address, key) ==
    IF IsCached(s, address, key) THEN s.updates[<<address, key>>]
    ELSE GetStorageData(address, key)

Put2(f, x, y) == [z \in DOMAIN f \cup {x} |-> IF z = x THEN y ELSE f[z]]

\* getStorageFromAddressUnmetered: a value read from the node is cached.
GetStorageUnmetered(s, address, key) ==
    IF IsCached(s, address, key) THEN s
    ELSE [s EXCEPT !.updates = Put2(@, <<address, key>>, GetStorageData(address, key))]

ChargeKey(s, key) ==
    IF Len(key) > AddressLen THEN ChargeBytes(s, DataCopyPerByte, Len(key) - AddressLen) ELSE s

\* GetStorage of the current account, for a function that uses the value.
GetStorage(s, key, Then(_, _)) ==
    LET value == CachedOrStored(s, s.address, key)
        t == GetStorageUnmetered(ChargeKey(s, key), s.address, key)
    IN  Then(ChargeBytes(t, DataCopyPerByte, Len(value)), value)

\* Mutant: the cache is asked first, as for any other key.
ReadFromCache(s, address, key) == CachedOrStored(s, address, key)

\* What the protocol protects is read from the node.
ReadFromAddress(s, address, key) ==
    IF IsProtocolProtectedKey(key) THEN GetStorageData(address, key)
    ELSE CachedOrStored(s, address, key)

\* GetStorageFromAddress: another account must exist and be readable.
GetStorageFromAddress(s, address, key, Then(_, _)) ==
    LET charged == ChargeKey(s, key)
        hidden == address # s.address /\ (address \notin Address \/ ~Env["readable"])
        value == ReadFromAddress(s, address, key)
        t == IF IsProtocolProtectedKey(key) THEN charged
             ELSE GetStorageUnmetered(charged, address, key)
    IN  IF hidden THEN Then(charged, <<>>)
        ELSE Then(ChargeBytes(t, DataCopyPerByte, Len(value)), value)

StorageStatus == [StorageUnchanged |-> 0, StorageModified |-> 1, StorageAdded |-> 2,
                  StorageDeleted |-> 3]

\* The status and the gas for replacing old by value; what is freed goes to the
\* refund, which StorageContext.tla models.
StorageChange(old, value) ==
    IF old = value
    THEN <<StorageStatus.StorageUnchanged, MulUint64(DataCopyPerByte, Len(value))>>
    ELSE IF old = <<>>
    THEN <<StorageStatus.StorageAdded, MulUint64(StorePerByte, Len(value))>>
    ELSE IF value = <<>> THEN <<StorageStatus.StorageDeleted, 0>>
    ELSE <<StorageStatus.StorageModified,
           IF Len(value) > Len(old)
           THEN AddUint64(MulUint64(PersistPerByte, Len(old)),
                          MulUint64(StorePerByte, Len(value) - Len(old)))
           ELSE IF Len(value) < Len(old) THEN MulUint64(PersistPerByte, Len(value))
           ELSE 0>>

\* SetStorage, followed by WithFault.  what is history: the operation that wrote.
SetStorage(s, key, value, what) ==
    LET cell == <<s.address, key>>
        change == StorageChange(CachedOrStored(s, s.address, key), value)
    IN  IF s.readOnly THEN Return(s, StorageStatus.StorageUnchanged)
        ELSE IF IsProtocolProtectedKey(key) \/ (IsVMProtectedKey(key) /\ s.protection)
        THEN Fault(s)
        ELSE [UseGas(ChargeKey(s, key), change[2]) EXCEPT
                !.updates = Put2(@, cell, value), !.written = Put2(@, cell, what),
                !.ret = change[1]]

\* Mutant: the protection is not enabled again.
SetUnprotectedStorage(s, key, value, what) ==
    SetStorage([s EXCEPT !.protection = FALSE], key, value, what)

SetProtectedStorage(s, key, value, what) ==
    [SetStorage([s EXCEPT !.protection = FALSE], key, value, what) EXCEPT !.protection = TRUE]

-----------------------------------------------------------------------------
(* The big integers of an execution, by handle *)

NewHandle(s) ==
    LET n == Cardinality(DOMAIN s.bigInts)
    IN  Min({h \in n .. 2 * n : h \notin DOMAIN s.bigInts})

\* Put: the first free handle from the number of integers on.
PutBigInt(s, value) ==
    LET handle == NewHandle(s)
    IN  Return([s EXCEPT !.bigInts = Put2(@, handle, value)], handle)

\* GetOne, GetTwo and GetThree: a handle that is not in use becomes a zero.
GetBigInts(s, handles) ==
    [s EXCEPT !.bigInts =
        [h \in DOMAIN @ \cup handles |-> IF h \in DOMAIN @ THEN @[h] ELSE 0]]

SetBigInt(s, handle, value) == [s EXCEPT !.bigInts = Put2(@, handle, value)]
ValueOf(s, handle) == IF handle \in DOMAIN s.bigInts THEN s.bigInts[handle] ELSE 0

-----------------------------------------------------------------------------
(* vmhooks/bigIntOps.go *)

\* useExtraGasForOperations: an integer with more bytes than usual costs extra,
\* where the bytes of an integer are counted downwards.
MaxBigIntByteLenForNormalCost == 1
FullBytes(n) == Max({0} \cup {l \in 1 .. MaxIntLen : Base^l <= 2 * Abs(n)})
UseExtraGas(s, handles) ==
    [s EXCEPT !.gasUsed =
        FoldLeft(LAMBDA used, h :
            LET byteLen == FullBytes(ValueOf(s, h))
                extra == MulUint64(DataCopyPerByte, WrapU(byteLen))
            IN  IF byteLen > MaxBigIntByteLenForNormalCost
                THEN PointsSet(AddUint64(used, extra)) ELSE used,
            @, handles)]

bigIntNew(s, value) == PutBigInt(Charge(s), value)

\* bigIntGetUnsignedArgument and bigIntGetSignedArgument: an index past the
\* arguments is ignored, one before them is a panic.
bigIntGetArgument(s, id, destination, signed) ==
    IF id >= Len(Arguments) THEN Charge(s)
    ELSE IF id < 0 THEN Panic(GetBigInts(Charge(s), {destination}))
    ELSE SetBigInt(Charge(s), destination, Decoded(Arguments[id + 1], signed))

bigIntStorageStoreUnsigned(s, slot, source) ==
    Load(Charge(s), slot, LAMBDA key :
        SetStorage(GetBigInts(Charge(s), {source}), key,
                   UnsignedBytes(ValueOf(s, source)), <<"big", ValueOf(s, source)>>))

bigIntStorageLoadUnsigned(s, slot, destination) ==
    Load(Charge(s), slot, LAMBDA key :
        GetStorage(Charge(s), key, LAMBDA t, value :
            Return(SetBigInt(t, destination, SetUnsignedBytes(value)), Len(value))))

FirstESDTTransfer(s) ==
    IF s.paid.transfers # <<>> THEN Head(s.paid.transfers)
    ELSE [value |-> 0, name |-> <<>>, nonce |-> 0, type |-> 0]

bigIntGetCallValue(s, destination, value) == SetBigInt(Charge(s), destination, value)

bigIntGetExternalBalance(s, offset, result) ==
    LoadAddress(Charge(s), offset, LAMBDA address :
        SetBigInt(Charge(s), result, SetUnsignedBytes(Env["balance"])))

\* bigIntUnsignedByteLength, bigIntSignedByteLength.
bigIntByteLength(s, reference, signed) ==
    Return(GetBigInts(Charge(s), {reference}), Len(Encoded(ValueOf(s, reference), signed)))

\* bigIntGetUnsignedBytes, bigIntGetSignedBytes: the copy is charged afterwards.
bigIntGetBytes(s, reference, offset, signed) ==
    LET bytes == Encoded(ValueOf(s, reference), signed)
    IN  Store(GetBigInts(Charge(s), {reference}), offset, bytes, LAMBDA t :
            Return(ChargeBytes(t, DataCopyPerByte, Len(bytes)), Len(bytes)))

\* bigIntSetUnsignedBytes, bigIntSetSignedBytes.
bigIntSetBytes(s, destination, slot, signed) ==
    Load(Charge(s), slot, LAMBDA bytes :
        ChargeBytes(SetBigInt(Charge(s), destination, Decoded(bytes, signed)),
                    DataCopyPerByte, Len(bytes)))

bigIntIsInt64(s, handle) ==
    Return(GetBigInts(Charge(s), {handle}), IF ValueOf(s, handle) \in SInt THEN 1 ELSE 0)

\* Int64 of math/big: the low word, also of an integer that is no word.
bigIntGetInt64(s, handle) ==
    Return(GetBigInts(Charge(s), {handle}), WrapS(ValueOf(s, handle)))

bigIntSetInt64(s, destination, value) == SetBigInt(Charge(s), destination, value)

\* Truncated and Euclidean division.
Sign(n) == IF n > 0 THEN 1 ELSE IF n < 0 THEN -1 ELSE 0
Quo(a, b) == Sign(a) * Sign(b) * (Abs(a) \div Abs(b))
Rem(a, b) == a - b * Quo(a, b)
EMod(a, b) == a % Abs(b)
EDiv(a, b) == Sign(b) * ((a - EMod(a, b)) \div Abs(b))

\* And, Or and Xor, bit by bit.
Bit(n, i) == (n \div 2^i) % 2
Bitwise2(a, b, Op(_, _)) ==
    MapThenSumSet(LAMBDA i : 2^i * Op(Bit(a, i), Bit(b, i)), 0 .. 2 * MaxIntLen)

ArithmeticOps == {"bigIntAdd", "bigIntSub", "bigIntMul"}
DivisionOps == {"bigIntTDiv", "bigIntTMod", "bigIntEDiv", "bigIntEMod"}
UnaryOps == {"bigIntAbs", "bigIntNeg", "bigIntNot"}
ShiftOps == {"bigIntShr", "bigIntShl"}
BitwiseOps == {"bigIntAnd", "bigIntOr", "bigIntXor"}

BinaryOp(op, a, b) ==
    CASE op = "bigIntAdd" -> a + b   [] op = "bigIntSub" -> a - b
      [] op = "bigIntMul" -> a * b
      [] op = "bigIntTDiv" -> Quo(a, b)    [] op = "bigIntTMod" -> Rem(a, b)
      [] op = "bigIntEDiv" -> EDiv(a, b)   [] op = "bigIntEMod" -> EMod(a, b)
      [] op = "bigIntAnd" -> Bitwise2(a, b, LAMBDA x, y : x * y)
      [] op = "bigIntOr"  -> Bitwise2(a, b, LAMBDA x, y : Max({x, y}))
      [] op = "bigIntXor" -> Bitwise2(a, b, LAMBDA x, y : (x + y) % 2)

\* bigIntAdd, bigIntSub and bigIntMul.  Charging for destination counts too.
bigIntArithmetic(s, op, dest, a, b) ==
    LET t == UseExtraGas(GetBigInts(Charge(s), {dest, a, b}), <<dest, a, b>>)
    IN  SetBigInt(t, dest, BinaryOp(op, ValueOf(s, a), ValueOf(s, b)))

\* bigIntTDiv, bigIntTMod, bigIntEDiv and bigIntEMod.
bigIntDivision(s, op, dest, a, b) ==
    LET t == UseExtraGas(GetBigInts(Charge(s), {dest, a, b}), <<dest, a, b>>)
    IN  IF ValueOf(s, b) = 0 THEN Fault(t)
        ELSE SetBigInt(t, dest, BinaryOp(op, ValueOf(s, a), ValueOf(s, b)))

\* bigIntAnd, bigIntOr and bigIntXor.
bigIntBitwise(s, op, dest, a, b) ==
    LET t == UseExtraGas(GetBigInts(Charge(s), {dest, a, b}), <<a, b>>)
    IN  IF ValueOf(s, a) < 0 \/ ValueOf(s, b) < 0 THEN Fault(t)
        ELSE SetBigInt(t, dest, BinaryOp(op, ValueOf(s, a), ValueOf(s, b)))

\* bigIntAbs, bigIntNeg and bigIntNot.
bigIntUnary(s, op, dest, a) ==
    LET t == UseExtraGas(GetBigInts(Charge(s), {dest, a}), <<dest, a>>)
        value == ValueOf(s, a)
    IN  CASE op = "bigIntAbs" -> SetBigInt(t, dest, Abs(value))
          [] op = "bigIntNeg" -> SetBigInt(t, dest, -value)
          [] op = "bigIntNot" -> IF value < 0 THEN Fault(t) ELSE SetBigInt(t, dest, -value - 1)

\* bigIntSign and bigIntCmp.
bigIntSign(s, a) ==
    Return(UseExtraGas(GetBigInts(Charge(s), {a}), <<a>>), Sign(ValueOf(s, a)))
bigIntCmp(s, a, b) ==
    Return(UseExtraGas(GetBigInts(Charge(s), {a, b}), <<a, b>>),
           Sign(ValueOf(s, a) - ValueOf(s, b)))

\* bigIntShr and bigIntShl: the result is paid for after it was computed.
bigIntShift(s, op, dest, a, bits) ==
    LET t == UseExtraGas(GetBigInts(Charge(s), {dest, a}), <<a>>)
        value == ValueOf(s, a)
    IN  IF value < 0 \/ bits < 0 THEN Fault(t)
        ELSE UseExtraGas(SetBigInt(t, dest, IF op = "bigIntShr" THEN value \div 2^bits
                                            ELSE value * 2^bits), <<dest>>)

\* bigIntFinishUnsigned, bigIntFinishSigned.
bigIntFinish(s, reference, signed) ==
    LET bytes == Encoded(ValueOf(s, reference), signed)
    IN  ChargeBytes(Finish(GetBigInts(Charge(s), {reference}), bytes),
                    PersistPerByte, Len(bytes))

-----------------------------------------------------------------------------
(* vmhooks/smallIntOps.go; the int64 functions are other names for some *)

smallIntGetUnsignedArgument(s, id) ==
    IF id < 0 \/ id >= Len(Arguments) THEN Fault(Charge(s))
    ELSE LET value == SetUnsignedBytes(Arguments[id + 1])
         IN  IF value \notin Uint THEN Fault(Charge(s)) ELSE Return(Charge(s), WrapS(value))

smallIntGetSignedArgument(s, id) ==
    IF id < 0 \/ id >= Len(Arguments) THEN Fault(Charge(s))
    ELSE LET value == SetSignedBytes(Arguments[id + 1])
         IN  IF value \notin SInt THEN Fault(Charge(s)) ELSE Return(Charge(s), value)

smallIntFinishUnsigned(s, value) == Finish(Charge(s), UnsignedBytes(WrapU(value)))
smallIntFinishSigned(s, value) == Finish(Charge(s), SignedBytes(value))

smallIntStorageStoreUnsigned(s, slot, value) ==
    Load(Charge(s), slot, LAMBDA key :
        SetStorage(Charge(s), key, UnsignedBytes(WrapU(value)), <<"unsigned", value>>))

smallIntStorageStoreSigned(s, slot, value) ==
    Load(Charge(s), slot, LAMBDA key :
        SetStorage(Charge(s), key, SignedBytes(value), <<"signed", value>>))

\* Mutant: a stored value that is no word is returned as it is.
LoadWithoutRangeCheck(s, slot) ==
    Load(Charge(s), slot, LAMBDA key :
        GetStorage(Charge(s), key, LAMBDA t, data : Return(t, SetUnsignedBytes(data))))

smallIntStorageLoadUnsigned(s, slot) ==
    Load(Charge(s), slot, LAMBDA key :
        GetStorage(Charge(s), key, LAMBDA t, data :
            IF SetUnsignedBytes(data) \notin Uint THEN Fault(t)
            ELSE Return(t, WrapS(SetUnsignedBytes(data)))))

smallIntStorageLoadSigned(s, slot) ==
    Load(Charge(s), slot, LAMBDA key :
        GetStorage(Charge(s), key, LAMBDA t, data :
            IF SetSignedBytes(data) \notin SInt THEN Fault(t)
            ELSE Return(t, SetSignedBytes(data))))

-----------------------------------------------------------------------------
(* vmhooks/baseOps.go: queries.  Env is what the node answers. *)

getGasLeft(s) == Return(Charge(s), WrapS(GasLeft(Charge(s))))

\* getSCAddress, getOwnerAddress (which the node may fail to tell) and getCaller.
getOwnAddress(s, offset) == MemStore(Charge(s), offset, s.scAddress)
getOwnerAddress(s, offset, known) ==
    IF known THEN MemStore(Charge(s), offset, Env["owner"]) ELSE Fault(Charge(s))
getCaller(s, offset) == MemStore(Charge(s), offset, Env["caller"])

\* getShardOfAddress and isSmartContract.
queryAddress(s, offset) ==
    LoadAddress(Charge(s), offset, LAMBDA address :
        Return(Charge(s), IF address \in Address THEN 1 ELSE 0))

getExternalBalance(s, offset, resultOffset) ==
    LoadAddress(Charge(s), offset, LAMBDA address :
        MemStore(Charge(s), resultOffset, Env["balance"]))

blockHash(s, resultOffset) ==
    Store(Charge(s), resultOffset, Env["hash"], LAMBDA t : Return(t, 0))

\* The timestamp, nonce, round and epoch of this and of the previous block.
BlockInts ==
    {"getBlockTimestamp", "getBlockNonce", "getBlockRound", "getBlockEpoch",
     "getPrevBlockTimestamp", "getPrevBlockNonce", "getPrevBlockRound", "getPrevBlockEpoch"}
\* Mutant: the query is free.
getBlockIntUncharged(s, what) == Return(s, Env[what])

getBlockInt(s, what) == Return(Charge(s), Env[what])

\* The random seeds, the state root hash and the hash of the transaction.
BlockHashes ==
    {"getBlockRandomSeed", "getPrevBlockRandomSeed", "getStateRootHash", "getOriginalTxHash"}
getBlockBytes(s, offset) == MemStore(Charge(s), offset, Env["hash"])

getArgumentLength(s, id) ==
    Return(Charge(s),
           IF id < 0 \/ id >= Len(Arguments) THEN -1 ELSE Len(Arguments[id + 1]))
getArgument(s, id, offset) ==
    IF id < 0 \/ id >= Len(Arguments) THEN Return(Charge(s), -1)
    ELSE StoreResult(Charge(s), offset, Arguments[id + 1])
getFunction(s, offset) == StoreResult(Charge(s), offset, Env["function"])
getNumArguments(s) == Return(Charge(s), Len(Arguments))

-----------------------------------------------------------------------------
(* The payment of the call *)

checkNoPayment(s) ==
    IF s.paid.value > 0 \/ s.paid.transfers # <<>> THEN Fault(Charge(s)) ELSE Charge(s)
callValue(s, offset) ==
    StoreResult(Charge(s), offset, PadBytesLeft(UnsignedBytes(s.paid.value), BalanceLen))
getESDTValue(s, offset) ==
    LET value == FirstESDTTransfer(s).value
    IN  StoreResult(Charge(s), offset,
            IF value > 0 THEN PadBytesLeft(UnsignedBytes(value), BalanceLen) ELSE <<>>)
getESDTTokenName(s, offset) == StoreResult(Charge(s), offset, FirstESDTTransfer(s).name)
getESDTTokenNonce(s) == Return(Charge(s), FirstESDTTransfer(s).nonce)
getESDTTokenType(s) == Return(Charge(s), FirstESDTTransfer(s).type)

\* getCallValueTokenName copies the name into a slice of length zero: no name is
\* stored, and its length is zero.
getCallValueTokenName(s, valueOffset, nameOffset) ==
    LET value == IF FirstESDTTransfer(s).name # <<>> THEN FirstESDTTransfer(s).value ELSE s.paid.value
        noName == MemStore(Charge(s), nameOffset, <<>>)
    IN  Store(noName, valueOffset, PadBytesLeft(UnsignedBytes(value), BalanceLen),
              LAMBDA t : Return(t, 0))

-----------------------------------------------------------------------------
(* Tokens: the node answers with an error, nothing, or the token's data *)

TokenAnswers == {"error", "nothing", "fungible", "nft", "nftWithURI"}
TokenValue == Env["token"].value

\* getESDTDataFromBlockchainHook.
EsdtData(s, offset, slot, answer) ==
    LoadAddress(Charge(s), offset, LAMBDA address :
        Load(Charge(s), slot, LAMBDA tokenID :
            IF answer = "error" THEN Fault(Charge(s)) ELSE Charge(s)))

getESDTBalance(s, offset, slot, answer, resultOffset) ==
    IfRunning(EsdtData(s, offset, slot, answer), LAMBDA t :
        IF answer = "nothing" THEN Panic(t)
        ELSE StoreResult(t, resultOffset, UnsignedBytes(TokenValue)))

\* bigIntGetESDTExternalBalance.
bigIntGetESDTExternalBalance(s, offset, slot, answer, result) ==
    IfRunning(EsdtData(Charge(s), offset, slot, answer), LAMBDA t :
        IF answer = "nothing" THEN t ELSE SetBigInt(t, result, TokenValue))

\* getESDTNFTNameLength, getESDTNFTAttributeLength and getESDTNFTURILength.
getESDTNFTLength(s, offset, slot, answer, field) ==
    IfRunning(EsdtData(s, offset, slot, answer), LAMBDA t :
        Return(t, IF answer = "nftWithURI" \/ (answer = "nft" /\ field # "uri")
                  THEN Len(Env["token"][field]) ELSE 0))

\* getESDTTokenData stores field after field, and stops at the first that fails.
getESDTTokenData(s, offset, slot, answer, valueHandle, royaltiesHandle, resultOffset) ==
    LET token == Env["token"]
        isNFT == answer \in {"nft", "nftWithURI"}
        Done(t) == Return(t, Len(UnsignedBytes(TokenValue)))
        StoreURI(t) ==
            LET u == SetBigInt(t, royaltiesHandle, token.royalties)
            IN  IF answer = "nftWithURI" THEN Store(u, resultOffset, token.uri, Done) ELSE Done(u)
        StoreMetaData(t) ==
            Store(t, resultOffset, token.hash, LAMBDA u :
                Store(u, resultOffset, token.name, LAMBDA v :
                    Store(v, resultOffset, token.attributes, LAMBDA w :
                        Store(w, resultOffset, token.creator, StoreURI))))
    IN  IfRunning(EsdtData(s, offset, slot, answer), LAMBDA t :
            IF answer = "nothing" THEN Panic(GetBigInts(t, {valueHandle}))
            ELSE Store(SetBigInt(t, valueHandle, TokenValue), resultOffset, token.properties,
                       LAMBDA u : IF isNFT THEN StoreMetaData(u) ELSE Done(u)))

\* getCurrentESDTNFTNonce ignores offsets out of bounds.
getCurrentESDTNFTNonce(s, offset, slot) ==
    IF LoadFails(s, offset, AddressLen) \/ LoadFails(s, slot[1], slot[2])
    THEN Return(Charge(s), 0)
    ELSE LET key == ProtectedKeyPrefix \o Loaded(s, slot[1], slot[2])
         IN  GetStorageFromAddress(Charge(s), Loaded(s, offset, AddressLen), key,
                LAMBDA t, data : Return(t, WrapS(SetUnsignedBytes(data))))

\* transferESDT is deprecated: it charges, and reports an error.
transferESDT(s, length) == Return(ChargeBytes(Charge(s), PersistPerByte, length), 1)

-----------------------------------------------------------------------------
(* Storage, return data and logs *)

\* Mutant: data out of bounds is stored as an empty value.
storageStoreAnyway(s, keySlot, dataSlot) ==
    Load(Charge(s), keySlot, LAMBDA key :
        LET data == IF LoadFails(s, dataSlot[1], dataSlot[2]) THEN <<>>
                    ELSE Loaded(s, dataSlot[1], dataSlot[2])
            t == SetStorage(Charge(s), key, data, <<"raw", data>>)
        IN  IF LoadFails(s, dataSlot[1], dataSlot[2]) THEN Fault(t) ELSE t)

storageStore(s, keySlot, dataSlot) ==
    Load(Charge(s), keySlot, LAMBDA key :
        Load(Charge(s), dataSlot, LAMBDA data :
            SetStorage(Charge(s), key, data, <<"raw", data>>)))

storageLoadLength(s, slot) ==
    Load(Charge(s), slot, LAMBDA key :
        Return(GetStorageUnmetered(Charge(s), s.address, key),
               Len(CachedOrStored(s, s.address, key))))

storageLoad(s, slot, offset) ==
    Load(Charge(s), slot, LAMBDA key :
        GetStorage(Charge(s), key, LAMBDA t, data : StoreResult(t, offset, data)))

storageLoadFromAddress(s, addressOffset, slot, offset) ==
    Load(Charge(s), slot, LAMBDA key :
        LoadAddress(Charge(s), addressOffset, LAMBDA address :
            GetStorageFromAddress(Charge(s), address, key,
                LAMBDA t, data : StoreResult(t, offset, data))))

\* setStorageLock, and clearStorageLock with the timestamp 0.  The bytes of the
\* timestamp are those of its absolute value.
setStorageLock(s, slot, timestamp) ==
    Load(Charge(s), slot, LAMBDA key :
        SetProtectedStorage(Charge(s), TimeLockKey(key), UnsignedBytes(timestamp),
                            <<"lock", timestamp>>))

getStorageLock(s, slot) ==
    Load(Charge(s), slot, LAMBDA key :
        GetStorage(Charge(s), TimeLockKey(key), LAMBDA t, data :
            Return(t, WrapS(SetUnsignedBytes(data)))))

isStorageLocked(s, slot) ==
    LET t == getStorageLock(s, slot)
    IN  IF ~Running(t) THEN t
        ELSE IF t.ret < 0 THEN Return(t, -1)
        ELSE Return(Charge(t), IF t.ret <= Env["getBlockTimestamp"] THEN 0 ELSE 1)

\* returnData, imported as finish: the length is charged before it is checked.
finish(s, slot) ==
    LET t == ChargeBytes(Charge(s), PersistPerByte, slot[2])
    IN  Load(t, slot, LAMBDA data : Finish(t, data))

getNumReturnData(s) == Return(Charge(s), Len(s.returnData))

\* An index before the first is a panic.
getReturnDataSize(s, id) ==
    IF id >= Len(s.returnData) THEN Return(Charge(s), 0)
    ELSE IF id < 0 THEN Panic(Charge(s))
    ELSE Return(Charge(s), Len(s.returnData[id + 1]))
getReturnData(s, id, offset) ==
    IF id >= Len(s.returnData) THEN Return(Charge(s), 0)
    ELSE IF id < 0 THEN Panic(Charge(s))
    ELSE StoreResult(Charge(s), offset, s.returnData[id + 1])

\* getArgumentsFromMemory: n lengths, here of one byte, then the arguments one
\* after the other.  createInt32Array reads the lengths as signed numbers.
ArgumentSlots(s, n, lengthsOffset, dataOffset) ==
    LET raw == Loaded(s, lengthsOffset, n)
        lengths == [i \in DOMAIN raw |-> SetSignedBytes(<<raw[i]>>)]
    IN  [i \in DOMAIN raw |->
            <<dataOffset + FoldLeft(+, 0, SubSeq(lengths, 1, i - 1)), lengths[i]>>]

ArgumentsFail(s, n, lengthsOffset, dataOffset) ==
    LET slots == ArgumentSlots(s, n, lengthsOffset, dataOffset)
    IN  \/ n < 0 \/ LoadFails(s, lengthsOffset, n)
        \/ \E i \in DOMAIN slots : LoadFails(s, slots[i][1], slots[i][2])

ArgumentsFromMemory(s, n, lengthsOffset, dataOffset) ==
    LET slots == ArgumentSlots(s, n, lengthsOffset, dataOffset)
    IN  [i \in DOMAIN slots |-> Loaded(s, slots[i][1], slots[i][2])]

writeEventLog(s, n, lengthsOffset, dataSlot) ==
    IF ArgumentsFail(s, n, lengthsOffset, dataSlot[1]) THEN Fault(s)
    ELSE Load(s, dataSlot, LAMBDA data :
            LET topics == ArgumentsFromMemory(s, n, lengthsOffset, dataSlot[1])
                t == ChargeBytes(Charge(s), DataCopyPerByte,
                                 Len(FlattenSeq(topics)) + Len(data))
            IN  IF s.readOnly THEN t
                ELSE [t EXCEPT !.logs = Append(@, <<topics, data>>)])

-----------------------------------------------------------------------------
(* cryptoapi/cryptoei.go: hashes and signatures, whose outcome is a choice *)

\* sha256, keccak256 and ripemd160.
hash(s, slot, resultOffset, ok) ==
    LET t == ChargeBytes(Charge(s), DataCopyPerByte, slot[2])
    IN  Load(t, slot, LAMBDA data :
            IF ~ok THEN Return(t, 1)
            ELSE Store(t, resultOffset, Env["hash"], LAMBDA u : Return(u, 0)))

\* verifyBLS and verifyEd25519; keys and signatures have the length of a hash.
verify(s, keyOffset, slot, sigOffset, valid) ==
    LET t == ChargeBytes(Charge(s), DataCopyPerByte, slot[2])
        length == Len(Env["hash"])
    IN  Load(Charge(s), <<keyOffset, length>>, LAMBDA key :
            Load(t, slot, LAMBDA message :
                Load(t, <<sigOffset, length>>, LAMBDA sig :
                    Return(t, IF valid THEN 0 ELSE -1))))

\* verifySecp256k1: the key has one of two lengths, and the signature says how
\* long it is in its second byte.
SecpKeyLengths == {1, 2}
verifySecp256k1(s, keySlot, slot, sigOffset, valid) ==
    LET t == ChargeBytes(Charge(s), DataCopyPerByte, slot[2])
    IN  IF keySlot[2] \notin SecpKeyLengths THEN Fault(Charge(s))
        ELSE Load(Charge(s), keySlot, LAMBDA key :
                Load(t, slot, LAMBDA message :
                    Load(t, <<sigOffset, 2>>, LAMBDA header :
                        Load(t, <<sigOffset, header[2] + 2>>, LAMBDA sig :
                            Return(t, IF valid THEN 0 ELSE -1)))))

-----------------------------------------------------------------------------
(* Nested calls: what they do to memory, big integers and storage *)

InitialMemory == [i \in 1 .. PageSize |-> i % Base]
NoFunction == [x \in {} |-> 0]

NewExecution(address, imports, limit, paid) ==
    [imports |-> imports, address |-> address, scAddress |-> address, mem |-> InitialMemory, paid |-> paid, readOnly |-> FALSE,
     bigInts |-> NoFunction, bigIntStack |-> <<>>,
     updates |-> NoFunction, written |-> NoFunction, protection |-> TRUE,
     returnData |-> <<>>, logs |-> <<>>,
     gasUsed |-> 0, limit |-> limit, ret |-> 0, status |-> "running"]

Init ==
    /\ \E c \in Contracts :
         /\ VerifiedContract(c, WellFormedNames, BuiltInFunctions, ESDTEnabled)
         /\ vm = NewExecution(Self, c.imports, c.limit, c.paid)
    /\ frames = <<>>
    /\ chain = NoFunction

CanCall == Running(vm) /\ vm.gasUsed <= vm.limit

\* The contract calls one of the API functions that it imports.
Call(function, after) ==
    /\ CanCall /\ function \in vm.imports
    /\ vm' = after
    /\ UNCHANGED <<frames, chain>>

\* The states of the callee: big integers, storage cache and output are those of
\* the host, the memory is that of a new instance.
Callee(s, kind, limit) ==
    [NewExecution(s.address, s.imports, limit, s.paid) EXCEPT !.scAddress = Other,
        !.bigIntStack = Append(s.bigIntStack, s.bigInts),
        !.updates = s.updates, !.written = s.written, !.protection = s.protection,
        !.readOnly = s.readOnly \/ kind = "readOnly"]

\* executeOnDestContextNoBuiltinFunction: no big integers, a censored output.
\* ExecuteOnSameContext: the caller's big integers and output, and the storage
\* of its account.
Kinds == [executeOnDestContext |-> "dest", executeOnSameContext |-> "same",
          executeReadOnly |-> "readOnly"]
Enter(function) ==
    LET kind == Kinds[function]
        limit == Min({GasGiven, GasLeft(Charge(vm))})
        callee == Callee(vm, kind, limit)
    IN  /\ CanCall /\ function \in vm.imports /\ Len(frames) < MaxDepth
        /\ frames' = Append(frames,
              [kind |-> kind, caller |-> UseGas(Charge(vm), limit), seen |-> vm.bigInts])
        /\ vm' = IF kind = "dest" THEN [callee EXCEPT !.address = Other]
                 ELSE [callee EXCEPT !.bigInts = vm.bigInts, !.returnData = vm.returnData,
                                     !.logs = vm.logs]
        /\ UNCHANGED chain

\* The caller goes on with its own instance and the gas that is left.
Resumed(caller, s, kind) ==
    [caller EXCEPT !.gasUsed = PointsRestored(@, GasLeft(s)), !.ret = 0,
        !.bigIntStack = Front(s.bigIntStack),
        !.updates = s.updates, !.written = s.written, !.protection = s.protection,
        !.readOnly = @ /\ kind # "readOnly"]

\* Mutant: the state of the caller is discarded, as after the same context.
LeaveDiscarding ==
    LET frame == Last(frames) IN
    /\ CanCall /\ frames # <<>> /\ frame.kind = "dest"
    /\ vm' = [Resumed(frame.caller, vm, frame.kind) EXCEPT
                !.bigInts = vm.bigInts,
                !.returnData = @ \o vm.returnData, !.logs = @ \o vm.logs]
    /\ frames' = Front(frames)
    /\ UNCHANGED chain

\* finishExecuteOnDestContext after success: PopSetActiveState of the big
\* integers, PopMergeActiveState of the output.
LeaveDest ==
    LET frame == Last(frames) IN
    /\ CanCall /\ frames # <<>> /\ frame.kind = "dest"
    /\ vm' = [Resumed(frame.caller, vm, frame.kind) EXCEPT
                !.bigInts = Last(vm.bigIntStack),
                !.returnData = @ \o vm.returnData, !.logs = @ \o vm.logs]
    /\ frames' = Front(frames)
    /\ UNCHANGED chain

\* finishExecuteOnSameContext after success: PopDiscard of both.
LeaveSame ==
    LET frame == Last(frames) IN
    /\ CanCall /\ frames # <<>> /\ frame.kind # "dest"
    /\ vm' = [Resumed(frame.caller, vm, frame.kind) EXCEPT
                !.bigInts = vm.bigInts, !.returnData = vm.returnData, !.logs = vm.logs]
    /\ frames' = Front(frames)
    /\ UNCHANGED chain

\* After a failure the caller has its big integers and its output back, and the
\* API function that made the call fails it in turn.
LeaveFailed ==
    LET frame == Last(frames) IN
    /\ vm.status = "failed" /\ frames # <<>>
    /\ vm' = Fault([frame.caller EXCEPT
                !.bigInts = Last(vm.bigIntStack), !.bigIntStack = Front(vm.bigIntStack),
                !.protection = vm.protection, !.ret = 1,
                !.readOnly = @ /\ frame.kind # "readOnly"])
    /\ frames' = Front(frames)
    /\ UNCHANGED chain

\* Wasmer stops a contract that has used more gas than it was given.
OutOfGas ==
    /\ Running(vm) /\ vm.gasUsed > vm.limit
    /\ vm' = [vm EXCEPT !.status = "failed"]
    /\ UNCHANGED <<frames, chain>>

\* The contract returns.
End ==
    /\ CanCall /\ frames = <<>>
    /\ vm' = [vm EXCEPT !.status = "ended"]
    /\ UNCHANGED <<frames, chain>>

\* A call to a built-in function that changes what the protocol protects.
BuiltinFunction(address, key, value) ==
    /\ CanCall /\ "executeOnDestContext" \in vm.imports
    /\ vm' = Charge(vm)
    /\ chain' = Put2(chain, <<address, key>>, value)
    /\ UNCHANGED frames

-----------------------------------------------------------------------------
(* What a contract may call *)

CallQuery ==
    \/ Call("getGasLeft", getGasLeft(vm))
    \/ Call("getNumArguments", getNumArguments(vm))
    \/ \E f \in BlockInts : Call(f, getBlockInt(vm, f))
    \/ \E id \in Ids : Call("getArgumentLength", getArgumentLength(vm, id))
    \/ \E o \in Offsets :
         \/ Call("getSCAddress", getOwnAddress(vm, o))
         \/ \E known \in BOOLEAN : Call("getOwnerAddress", getOwnerAddress(vm, o, known))
         \/ Call("getCaller", getCaller(vm, o))
         \/ \E f \in {"getShardOfAddress", "isSmartContract"} : Call(f, queryAddress(vm, o))
         \/ Call("getBlockHash", blockHash(vm, o))
         \/ \E f \in BlockHashes : Call(f, getBlockBytes(vm, o))
         \/ Call("getFunction", getFunction(vm, o))
         \/ \E id \in Ids : Call("getArgument", getArgument(vm, id, o))
         \/ \E r \in Offsets : Call("getExternalBalance", getExternalBalance(vm, o, r))

CallPayment ==
    \/ Call("checkNoPayment", checkNoPayment(vm))
    \/ Call("getESDTTokenNonce", getESDTTokenNonce(vm))
    \/ Call("getESDTTokenType", getESDTTokenType(vm))
    \/ \E o \in Offsets :
         \/ Call("getCallValue", callValue(vm, o))
         \/ Call("getESDTValue", getESDTValue(vm, o))
         \/ Call("getESDTTokenName", getESDTTokenName(vm, o))
         \/ \E r \in Offsets : Call("getCallValueTokenName", getCallValueTokenName(vm, o, r))

CallToken ==
    \/ \E n \in Words : Call("transferESDT", transferESDT(vm, n))
    \/ \E slot \in TokenSlots, o \in Offsets :
         \/ Call("getCurrentESDTNFTNonce", getCurrentESDTNFTNonce(vm, o, slot))
         \/ \E answer \in TokenAnswers :
              \/ Call("getESDTBalance", getESDTBalance(vm, slot[1], slot, answer, o))
              \/ Call("bigIntGetESDTExternalBalance",
                      bigIntGetESDTExternalBalance(vm, o, slot, answer, 0))
              \/ Call("getESDTNFTNameLength", getESDTNFTLength(vm, o, slot, answer, "name"))
              \/ Call("getESDTNFTAttributeLength",
                      getESDTNFTLength(vm, o, slot, answer, "attributes"))
              \/ Call("getESDTNFTURILength", getESDTNFTLength(vm, o, slot, answer, "uri"))
              \/ Call("getESDTTokenData", getESDTTokenData(vm, slot[1], slot, answer, 0, 1, o))

CallStorage ==
    \E slot \in Slots :
      \/ \E data \in Slots : Call("storageStore", storageStore(vm, slot, data))
      \/ Call("storageLoadLength", storageLoadLength(vm, slot))
      \/ \E o \in Offsets : Call("storageLoad", storageLoad(vm, slot, o))
      \/ \E a, o \in Offsets :
           Call("storageLoadFromAddress", storageLoadFromAddress(vm, a, slot, o))
      \/ \E timestamp \in Words : Call("setStorageLock", setStorageLock(vm, slot, timestamp))
      \/ Call("clearStorageLock", setStorageLock(vm, slot, 0))
      \/ Call("getStorageLock", getStorageLock(vm, slot))
      \/ Call("isStorageLocked", isStorageLocked(vm, slot))
      \/ \E h \in Handles :
           \/ Call("bigIntStorageStoreUnsigned", bigIntStorageStoreUnsigned(vm, slot, h))
           \/ Call("bigIntStorageLoadUnsigned", bigIntStorageLoadUnsigned(vm, slot, h))
      \/ \E n \in Words :
           \/ \E f \in {"smallIntStorageStoreUnsigned", "int64storageStore"} :
                Call(f, smallIntStorageStoreUnsigned(vm, slot, n))
           \/ Call("smallIntStorageStoreSigned", smallIntStorageStoreSigned(vm, slot, n))
      \/ \E f \in {"smallIntStorageLoadUnsigned", "int64storageLoad"} :
           Call(f, smallIntStorageLoadUnsigned(vm, slot))
      \/ Call("smallIntStorageLoadSigned", smallIntStorageLoadSigned(vm, slot))

CallOutput ==
    \/ \E slot \in Slots : Call("finish", finish(vm, slot))
    \/ \E n \in Words :
         \/ Call("smallIntFinishUnsigned", smallIntFinishUnsigned(vm, n))
         \/ \E f \in {"smallIntFinishSigned", "int64finish"} : Call(f, smallIntFinishSigned(vm, n))
    \/ \E h \in Handles :
         \/ Call("bigIntFinishUnsigned", bigIntFinish(vm, h, FALSE))
         \/ Call("bigIntFinishSigned", bigIntFinish(vm, h, TRUE))
    \/ Call("getNumReturnData", getNumReturnData(vm))
    \/ \E id \in Ids :
         \/ Call("getReturnDataSize", getReturnDataSize(vm, id))
         \/ \E o \in Offsets : Call("getReturnData", getReturnData(vm, id, o))
    \/ \E n \in Ids, o \in Offsets, slot \in TokenSlots :
         Call("writeEventLog", writeEventLog(vm, n, o, slot))

CallInteger ==
    \/ \E id \in Ids :
         \/ Call("smallIntGetUnsignedArgument", smallIntGetUnsignedArgument(vm, id))
         \/ \E f \in {"smallIntGetSignedArgument", "int64getArgument"} :
              Call(f, smallIntGetSignedArgument(vm, id))
         \/ \E h \in Handles :
              \/ Call("bigIntGetUnsignedArgument", bigIntGetArgument(vm, id, h, FALSE))
              \/ Call("bigIntGetSignedArgument", bigIntGetArgument(vm, id, h, TRUE))
    \/ \E n \in Words : Call("bigIntNew", bigIntNew(vm, n))
    \/ \E h \in Handles :
         \/ \E n \in Words : Call("bigIntSetInt64", bigIntSetInt64(vm, h, n))
         \/ Call("bigIntGetCallValue", bigIntGetCallValue(vm, h, vm.paid.value))
         \/ Call("bigIntGetESDTCallValue", bigIntGetCallValue(vm, h, FirstESDTTransfer(vm).value))
         \/ \E o \in Offsets : Call("bigIntGetExternalBalance", bigIntGetExternalBalance(vm, o, h))
         \/ Call("bigIntIsInt64", bigIntIsInt64(vm, h))
         \/ Call("bigIntGetInt64", bigIntGetInt64(vm, h))
         \/ Call("bigIntSign", bigIntSign(vm, h))
         \/ Call("bigIntUnsignedByteLength", bigIntByteLength(vm, h, FALSE))
         \/ Call("bigIntSignedByteLength", bigIntByteLength(vm, h, TRUE))
         \/ \E o \in Offsets :
              \/ Call("bigIntGetUnsignedBytes", bigIntGetBytes(vm, h, o, FALSE))
              \/ Call("bigIntGetSignedBytes", bigIntGetBytes(vm, h, o, TRUE))
         \/ \E slot \in Slots :
              \/ Call("bigIntSetUnsignedBytes", bigIntSetBytes(vm, h, slot, FALSE))
              \/ Call("bigIntSetSignedBytes", bigIntSetBytes(vm, h, slot, TRUE))

CallArithmetic ==
    \E dest, a \in Handles :
      \/ Call("bigIntCmp", bigIntCmp(vm, dest, a))
      \/ \E op \in UnaryOps : Call(op, bigIntUnary(vm, op, dest, a))
      \/ \E op \in ShiftOps, bits \in Bits : Call(op, bigIntShift(vm, op, dest, a, bits))
      \/ \E b \in Handles :
           \/ \E op \in ArithmeticOps : Call(op, bigIntArithmetic(vm, op, dest, a, b))
           \/ \E op \in DivisionOps : Call(op, bigIntDivision(vm, op, dest, a, b))
           \/ \E op \in BitwiseOps : Call(op, bigIntBitwise(vm, op, dest, a, b))

CallCrypto ==
    \E slot \in TokenSlots, o \in Offsets, ok \in BOOLEAN :
      \/ \E f \in {"sha256", "keccak256", "ripemd160"} : Call(f, hash(vm, slot, o, ok))
      \/ \E f \in {"verifyBLS", "verifyEd25519"} : Call(f, verify(vm, 0, slot, o, ok))
      \/ Call("verifySecp256k1", verifySecp256k1(vm, slot, slot, o, ok))

Next ==
    \/ CallQuery \/ CallPayment \/ CallToken \/ CallStorage \/ CallOutput
    \/ CallInteger \/ CallArithmetic \/ CallCrypto
    \/ \E function \in DOMAIN Kinds : Enter(function)
    \/ LeaveDest \/ LeaveSame \/ LeaveFailed
    \/ OutOfGas \/ End
    \/ \E value \in ProtectedValues : BuiltinFunction(Self, ProtectedKeyPrefix, value)

Spec == Init /\ [][Next]_vars

-----------------------------------------------------------------------------
(* Properties *)

\* The types of the execution.  A result is a word: what is too large for one
\* is a fault, never cut (smallIntOps.go).  So is a handle, which a contract may
\* make up, negative ones too (bigint.go, GetOne).
TypeOK ==
    /\ vm.mem \in Bytes /\ Len(vm.mem) \in {PageSize * n : n \in 1 .. MaxPages}
    /\ vm.ret \in SInt /\ vm.gasUsed \in 0 .. MaxInt
    /\ \A h \in DOMAIN vm.bigInts : h \in SInt /\ vm.bigInts[h] \in Int
    /\ Len(vm.bigIntStack) = Len(frames)
    /\ \A cell \in DOMAIN vm.updates : vm.updates[cell] \in Bytes
    /\ vm.returnData \in Seq(Bytes)
    /\ vm.status \in {"running", "failed", "panicked", "ended"}

\* The data that MemoryAccessesAgree stores.
StoredData == {<<1>>, <<2, 3>>, <<3, 2, 1>>}

\* MemStore and MemLoad agree (contexts/runtime.go): for every offset, what was
\* stored is loaded back and nothing else changed, the memory grew by one page
\* only where the data needed it, and a store that could have succeeded did.
MemoryAccessesAgree ==
    vm.mem # InitialMemory \/ vm.gasUsed = 0 =>
    \A offset \in SInt, data \in StoredData :
        LET s == [vm EXCEPT !.status = "running"]
            t == MemStore(s, offset, data)
            end == offset + Len(data)
            room == Min({Len(vm.mem) + PageSize, PageSize * MaxPages})
        IN  /\ Running(t) <=> offset >= 0 /\ end <= room
            /\ Running(t) => /\ Loaded(t, offset, Len(data)) = data
                             /\ Len(t.mem) \in {Len(vm.mem), Len(vm.mem) + PageSize}
                             /\ end <= Len(vm.mem) => Len(t.mem) = Len(vm.mem)
            /\ \A i \in DOMAIN vm.mem :
                 t.mem[i] # vm.mem[i] => Running(t) /\ i \in offset + 1 .. end
            /\ ~LoadFails(s, offset, Len(data)) =>
                 \A i \in DOMAIN data : Loaded(s, offset, Len(data))[i] =
                     IF offset + i \in DOMAIN vm.mem THEN vm.mem[offset + i] ELSE 0

\* Nothing was ever written under a key that the protocol protects, and under a
\* key that the VM protects only setStorageLock wrote, also after the protection
\* was off for a while (contexts/storage.go, SetProtectedStorage).
ProtectedKeysHoldLocks ==
    \A cell \in DOMAIN vm.written :
        /\ ~IsProtocolProtectedKey(cell[2])
        /\ IsVMProtectedKey(cell[2]) => vm.written[cell][1] = "lock"

\* bigIntNew never gives out a handle that is in use, and changes no integer
\* that the contract has, whatever handles it made up (contexts/bigint.go, Put).
NewHandleIsFresh ==
    \A n \in Words : vm'.bigInts # vm.bigInts /\ Call("bigIntNew", bigIntNew(vm, n)) =>
        /\ vm'.ret \notin DOMAIN vm.bigInts
        /\ Restrict(vm'.bigInts, DOMAIN vm.bigInts) = vm.bigInts

\* A caller finds its big integers as it left them when a contract that ran in
\* its own context returns, and after any failure (execution.go, finish...).
CallerKeepsItsBigInts ==
    Len(frames') < Len(frames) =>
        LET frame == Last(frames) IN
        frame.kind = "dest" \/ vm'.status = "failed" => vm'.bigInts = frame.seen

\* The integers of a contract are its own: new handles are fresh, and callees do
\* not touch them.
BigIntsAreKept == [][NewHandleIsFresh /\ CallerKeepsItsBigInts]_vars

\* An API function that fails has stored, returned and logged nothing, though it
\* may have grown the memory or created integers (WithFault, helpers.go).
FaultLeavesNoTrace ==
    vm'.status = "failed" /\ frames' = frames =>
        /\ \A cell \in DOMAIN vm'.updates :
             vm'.updates[cell] = CachedOrStored(vm, cell[1], cell[2])
        /\ vm'.returnData = vm.returnData /\ vm'.logs = vm.logs

\* No step of an execution that fails an API function leaves a trace.
FaultsLeaveNoTrace == [][FaultLeavesNoTrace]_vars

\* What an integer function loads from storage is what the last store under that
\* key wrote, through the cache, nested calls and the two encodings: for every
\* word for the small integers, without the sign for the big ones, and for every
\* timestamp that is not negative for the locks.
LoadsReturnTheLastStore ==
    [][vm.written # NoFunction => \A slot \in Slots :
         LET Wrote(key) == IF <<vm.address, key>> \in DOMAIN vm.written
                           THEN vm.written[<<vm.address, key>>] ELSE <<"none">>
             key == Loaded(vm, slot[1], slot[2])
             lock == Wrote(TimeLockKey(key))
         IN  ~LoadFails(vm, slot[1], slot[2]) =>
               /\ \A f \in {"smallIntStorageLoadUnsigned", "int64storageLoad"} :
                    Wrote(key)[1] = "unsigned" /\ Call(f, smallIntStorageLoadUnsigned(vm, slot))
                      => Running(vm') /\ vm'.ret = Wrote(key)[2]
               /\ Wrote(key)[1] = "signed"
                  /\ Call("smallIntStorageLoadSigned", smallIntStorageLoadSigned(vm, slot))
                    => Running(vm') /\ vm'.ret = Wrote(key)[2]
               /\ lock[1] = "lock" /\ lock[2] >= 0
                  /\ Call("getStorageLock", getStorageLock(vm, slot))
                    => Running(vm') /\ vm'.ret = lock[2]
               /\ \A h \in Handles :
                    Wrote(key)[1] = "big"
                    /\ Call("bigIntStorageLoadUnsigned", bigIntStorageLoadUnsigned(vm, slot, h))
                      => vm'.bigInts[h] = Abs(Wrote(key)[2])]_vars

\* The gas that an execution and its callers may still use.
AllGas == vm.limit - vm.gasUsed
    + FoldLeft(LAMBDA n, f : n + f.caller.limit - f.caller.gasUsed, 0, frames)

\* The gas that the outermost execution was given.
ProvidedGas == IF frames = <<>> THEN vm.limit ELSE Head(frames).caller.limit

\* Every execution that is given less than the largest signed word ends: each API
\* call takes from the gas of the execution and its callers together, a nested call
\* and its return add nothing to it, so the gas provided bounds the calls (UseGas of
\* every function, RestoreGas).  With more gas it does not: SetPointsUsed counts no
\* further, and no limit is ever passed.
GasBoundsTheCalls ==
    [][Running(vm') /\ ProvidedGas < MaxInt =>
          \/ AllGas' < AllGas
          \/ AllGas' = AllGas /\ Len(frames') < Len(frames)]_vars

\* A read through GetStorageFromAddress of a key that the protocol protects gives
\* what the node has now, also when the value before a built-in function changed it
\* is in the cache (storage.go: "must always be retrieved from the node").
ProtectedReadIsCurrent ==
    chain # NoFunction /\ "storageLoadFromAddress" \in vm.imports =>
       \A slot \in Slots, a \in Offsets, o \in Offsets :
         LET key == Loaded(vm, slot[1], slot[2])
             address == Loaded(vm, a, AddressLen)
             readable == address = vm.address \/ (address \in Address /\ Env["readable"])
         IN  /\ ~LoadFails(vm, slot[1], slot[2]) /\ ~LoadFails(vm, a, AddressLen)
             /\ IsProtocolProtectedKey(key) /\ readable
             /\ Call("storageLoadFromAddress", storageLoadFromAddress(vm, a, slot, o))
             /\ Running(vm')
             => vm'.ret = Len(GetStorageData(address, key))

\* Every such read is current, however many built-in functions ran before.
ProtectedReadsAreCurrent == [][ProtectedReadIsCurrent]_vars

\* A contract reads what it stored last under its own keys, and through
\* storageLoadFromAddress what the node has under a protected key.  The other reads
\* of protected keys are the subject of ProtectedKeysComeFromTheNode.
ReadsAreCurrent == LoadsReturnTheLastStore /\ ProtectedReadsAreCurrent

\* "Values stored under protected keys must always be retrieved from the node, not
\* from the cached StorageUpdates" (storage.go:139), also by GetStorage, of which
\* storageLoad and the integer functions get their data: whatever protected key a
\* contract asks for, it is given what the node has now.
ProtectedKeysComeFromTheNode ==
    \A slot \in Slots :
        LET key == Loaded(vm, slot[1], slot[2]) IN
        CanCall /\ ~LoadFails(vm, slot[1], slot[2]) /\ IsProtocolProtectedKey(key) =>
            GetStorage(vm, key, LAMBDA t, value : value) = GetStorageData(vm.address, key)

\* AddUint64, SubUint64, MulUint64, AddInt and SubInt saturate exactly when the
\* result does not fit, for every pair of words (math/overflow.go).  What the
\* guards return depends on no state: it is evaluated before the first charge.
GuardsExact == vm.gasUsed = 0 => SaturationExact
=============================================================================
