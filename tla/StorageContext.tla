--------------------------- MODULE StorageContext ---------------------------
(***************************************************************************)
(* SetStorage of vmhost/contexts/storage.go on the cell of an account.     *)
(* A value is its length in bytes; 0 is the empty value, and the free      *)
(* replacement of a value by another of the same length is left out.       *)
(***************************************************************************)
EXTENDS OutputContext

CONSTANTS
    StorePerByte, PersistPerByte, ReleasePerByte, DataCopyPerByte

ASSUME StorageAssumption ==
    /\ Value \subseteq Uint
    /\ {StorePerByte, PersistPerByte, ReleasePerByte, DataCopyPerByte} \subseteq Uint

\* The value under the key: the cached update, else the chain's, here empty.
GetStorage(out, address) ==
    LET cell == AccountOf(out, address).cell
    IN  IF cell = NoUpdate THEN 0 ELSE cell

SetCell(out, address, value) ==
    WithAccount(out, address, [AccountOf(out, address) EXCEPT !.cell = value])

StorageStatus(old, new) ==
    IF old = new THEN "StorageUnchanged"
    ELSE IF old = 0 THEN "StorageAdded"
    ELSE IF new = 0 THEN "StorageDeleted"
    ELSE "StorageModified"

\* The gas that replacing old by new uses, and the gas it frees.
StorageGas(old, new) ==
    CASE StorageStatus(old, new) = "StorageUnchanged" -> MulUint64(DataCopyPerByte, new)
      [] StorageStatus(old, new) = "StorageAdded"     -> MulUint64(StorePerByte, new)
      [] StorageStatus(old, new) = "StorageDeleted"   -> 0
      [] StorageStatus(old, new) = "StorageModified"  ->
            IF new > old
            THEN AddUint64(MulUint64(PersistPerByte, old),
                           MulUint64(StorePerByte, new - old))
            ELSE MulUint64(PersistPerByte, new)

StorageRefund(old, new) ==
    IF old > new THEN MulUint64(ReleasePerByte, old - new) ELSE 0
=============================================================================
