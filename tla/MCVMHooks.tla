----------------------------- MODULE MCVMHooks ------------------------------
(***************************************************************************)
(* Bytes of two bits and words of two bytes.  The memory starts with the   *)
(* bytes 1, 2 and 3: a plain key and the contract's address, the prefix of *)
(* the VM and another address, the prefix of the protocol.                 *)
(***************************************************************************)
EXTENDS VMHooks

MCSelf == <<1>>
MCOther == <<2>>
MCArguments == <<<<3, 1>>, <<1, 0, 2>>>>
NoPayment == [value |-> 0, transfers |-> <<>>]
Payment ==
    [value |-> 5, transfers |-> <<[value |-> 6, name |-> <<2>>, nonce |-> 1, type |-> 1]>>]

Contract(imports, limit, paid) ==
    [imports |-> imports, exports |-> [main |-> <<0, 0>>], hasMemory |-> TRUE,
     limit |-> limit, paid |-> paid]

\* Two calls of any functions, and longer executions of contracts that import
\* few: integers across nested calls, integers in storage, locks and protected
\* keys, return data, gas up to and past the largest signed word.  The last ones
\* are refused.
MCContracts ==
    {Contract(APIFunctions, 1, NoPayment), Contract(APIFunctions, 1, Payment),
     Contract({"bigIntNew", "bigIntAdd", "executeOnDestContext", "executeOnSameContext"},
              3, NoPayment),
     Contract({"int64storageStore", "int64storageLoad", "smallIntStorageStoreSigned",
               "smallIntStorageLoadSigned", "executeOnSameContext", "executeReadOnly"},
              4, NoPayment),
     Contract({"setStorageLock", "getStorageLock", "storageStore", "executeOnDestContext"},
              3, NoPayment),
     Contract({"bigIntNew", "bigIntStorageStoreUnsigned", "bigIntStorageLoadUnsigned"},
              3, NoPayment),
     Contract({"storageLoadLength", "storageLoadFromAddress", "executeOnDestContext"},
              3, NoPayment),
     Contract({"getArgument", "storageStore", "storageLoad", "finish", "getReturnData"},
              2, NoPayment),
     Contract({"getGasLeft"}, MaxInt - 1, NoPayment), Contract({"getGasLeft"}, MaxInt + 2, NoPayment),
     Contract({"createAsyncCall"}, 4, NoPayment),
     [Contract({"finish"}, 4, NoPayment) EXCEPT !.exports = [finish |-> <<0, 0>>]],
     [Contract({"finish"}, 4, NoPayment) EXCEPT !.exports = [main |-> <<1, 0>>]],
     [Contract({"finish"}, 4, NoPayment) EXCEPT !.hasMemory = FALSE]}
MCEnv ==
    [readable |-> TRUE, owner |-> <<2>>, caller |-> <<2>>, balance |-> <<1, 2>>,
     hash |-> <<3, 3>>, function |-> <<3>>,
     getBlockTimestamp |-> 3, getBlockNonce |-> 4, getBlockRound |-> 4, getBlockEpoch |-> 4,
     getPrevBlockTimestamp |-> 3, getPrevBlockNonce |-> 3, getPrevBlockRound |-> 3,
     getPrevBlockEpoch |-> 4,
     token |-> [value |-> 6, properties |-> <<1>>, hash |-> <<3, 3>>, name |-> <<2>>,
                attributes |-> <<>>, creator |-> <<2>>, royalties |-> 2, uri |-> <<1, 1>>]]
MCOffsets == {-1, 0, 5}
MCSlots == {<<0, 1>>, <<1, 1>>, <<2, 1>>, <<1, 2>>, <<0, -1>>}
MCTokenSlots == {<<2, 1>>, <<-1, 1>>}
MCHandles == {-1, 0, 1}
MCWords == {-8, -1, 0, 7}
MCIds == {-1, 0, 1}
MCBits == {-1, 2}
MCProtectedValues == {<<1>>}
=============================================================================
