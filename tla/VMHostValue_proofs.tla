------------------------- MODULE VMHostValue_proofs -------------------------
(***************************************************************************)
(* Value and gas in nested execution, for every number of accounts, every  *)
(* depth of calls and every width of the gas words: no account spends more *)
(* than it has, no value is created or destroyed, the contexts implement   *)
(* nested transactions, and no gas is created.                             *)
(*                                                                         *)
(* The heart of the matter is MergeOutputAccounts, which takes the balance *)
(* delta of the callee, keeps the larger nonce and appends the transfers   *)
(* past those already known.  That is right only because the output of a   *)
(* callee began as a copy of its caller's and has evolved since (Evolves): *)
(* the invariant says so of every pushed output.                           *)
(*                                                                         *)
(* Of gas, a caller that has started a callee has used what it gave it,    *)
(* and gave no more than it was given itself: what the calls in progress   *)
(* have left is bounded from the innermost one outwards.                   *)
(***************************************************************************)
EXTENDS VMHost_proofs

-----------------------------------------------------------------------------
(* The balance deltas of an output add up *)

\* Contracts may create contracts.
Creating == Imports \cap {"createContract", "deployFromSourceContract"} # {}

\* The accounts that never leave the output: a failed creation deletes the
\* account of the new contract, which is none of the chain's.
Kept == IF Creating THEN DOMAIN ChainBalance ELSE Address

\* The elements of s come first in t.
Begins(s, t) == Len(s) <= Len(t) /\ \A i \in 1 .. Len(s) : t[i] = s[i]

\* What MergeOutputAccounts relies on, when the account old became new.
Later(old, new) ==
    /\ old.nonce <= new.nonce
    /\ old.cell # NoUpdate => new.cell # NoUpdate
    /\ Begins(old.transfers, new.transfers)

Deltas(out) == [a \in Address |-> AccountOf(out, a).delta]

\* The deltas are integers.
LEMMA DeltasType ==
    ASSUME NEW out \in VMOutput
    PROVE  Deltas(out) \in [Address -> Int]
<1>1. \A a \in Address : AccountOf(out, a) \in Account
    BY AccountOfType
<1> QED BY <1>1 DEF Deltas, Account

\* The sum over the accounts of the output, as a sum over all addresses.
LEMMA SumDeltasIs ==
    ASSUME NEW out \in VMOutput
    PROVE  SumDeltas(out) = SumOf(Deltas(out))
<1> DEFINE S == Known(out)
           f == [a \in S |-> Deltas(out)[a]]
           Rec(it) == it = [s \in SUBSET S |->
                 IF s = {} THEN 0
                 ELSE LET x == CHOOSE y \in s : TRUE
                      IN out.accounts[x].delta + it[s \ {x}]]
           iter == CHOOSE it : Rec(it)
<1>1. S \in SUBSET Address /\ IsFiniteSet(S) /\ IsFiniteSet(Address)
    BY VMHostAssumption, FS_Subset DEF Known
<1>2. SumDeltas(out) = iter[S]
    BY Zenon DEF SumDeltas, MapThenSumSet, MapThenFoldSet
<1>3. \A a \in S : f[a] = out.accounts[a].delta
    BY <1>1 DEF Deltas, AccountOf, Known
<1>4. f \in [S -> Int] /\ DOMAIN f = S
    BY <1>1, DeltasType
<1> HIDE DEF S, f
<1>5. PICK it \in [SUBSET S -> Int] : Sums(it, f, S) /\ SumOf(f) = it[S]
    BY <1>1, <1>4, SumOfIs
<1>6. \A s \in SUBSET S : s # {} => (CHOOSE y \in s : TRUE) \in s
    OBVIOUS
<1>7. ASSUME NEW g PROVE Sums(g, f, S) <=> Rec(g)
    <2>1. \A s \in SUBSET S : s # {} =>
            f[CHOOSE y \in s : TRUE] = out.accounts[CHOOSE y \in s : TRUE].delta
        BY <1>3, <1>6
    <2> QED BY <2>1 DEF Sums
<1>8. Rec(it)
    BY <1>5, <1>7
<1> HIDE DEF Rec
<1>9. Rec(iter)
    BY <1>8
<1> HIDE DEF iter
<1>10. Sums(iter, f, S)
    BY <1>7, <1>9
<1>11. iter[S] = it[S]
    BY <1>1, <1>5, <1>10, SumsUnique
<1>12. SumOf(f) = SumOf(Deltas(out))
    <2>1. \A a \in Address \ S : Deltas(out)[a] = 0
        BY DEF S, Known, Deltas, AccountOf, NewVMOutputAccount
    <2> QED BY <1>1, <2>1, DeltasType, SumOfPart DEF f
<1> QED BY <1>2, <1>5, <1>11, <1>12

\* The sum of the deltas is a number.
LEMMA SumDeltasType ==
    ASSUME NEW out \in VMOutput
    PROVE  SumDeltas(out) \in Int
    BY VMHostAssumption, DeltasType, SumDeltasIs, SumOfType

-----------------------------------------------------------------------------
(* How the output of a run evolves *)

\* The output new comes after old in the same run.
Evolves(old, new) ==
    /\ \A a \in Kept : a \in Known(old) =>
            a \in Known(new) /\ Later(old.accounts[a], new.accounts[a])
    /\ Solvent(old) => Solvent(new)
    /\ ~Creating => SumDeltas(new) = SumDeltas(old)

\* No account is lost, and each one comes after what it was.
Grows(old, new) ==
    \A a \in Address : /\ a \in Known(old) => a \in Known(new)
                       /\ Later(AccountOf(old, a), AccountOf(new, a))

SameDeltas(old, new) ==
    \A a \in Address : AccountOf(new, a).delta = AccountOf(old, a).delta

\* The accounts of the chain are kept.
LEMMA KeptAddresses == Kept \subseteq Address /\ DOMAIN ChainBalance \subseteq Kept
                       /\ DOMAIN ChainBalance = DOMAIN ChainCode
    BY VMHostAssumption, OutputAssumption DEF Kept

\* Begins is an order in which the empty sequence is the least.
LEMMA BeginsItself ==
    /\ \A s \in Seq(Uint) : Begins(s, s)
    /\ \A s \in Seq(Uint) : Begins(<<>>, s)
    /\ \A s, t, u \in Seq(Uint) : Begins(s, t) /\ Begins(t, u) => Begins(s, u)
    /\ \A s \in Seq(Uint) : \A x \in Uint : Begins(s, Append(s, x))
<1>1. \A s \in Seq(Uint) : Begins(s, s)
    BY DEF Begins
<1>2. \A s \in Seq(Uint) : Begins(<<>>, s)
    BY DEF Begins
<1>3. ASSUME NEW s \in Seq(Uint), NEW t \in Seq(Uint), NEW u \in Seq(Uint),
             Begins(s, t), Begins(t, u)
      PROVE  Begins(s, u)
    <2>1. Len(s) \in Nat /\ Len(t) \in Nat /\ Len(u) \in Nat
        OBVIOUS
    <2>2. \A i \in 1 .. Len(s) : i \in 1 .. Len(t)
        BY <1>3, <2>1 DEF Begins
    <2> QED BY <1>3, <2>1, <2>2 DEF Begins
<1>4. \A s \in Seq(Uint) : \A x \in Uint : Begins(s, Append(s, x))
    BY AppendProperties DEF Begins
<1> QED BY <1>1, <1>2, <1>3, <1>4

\* Later is reflexive and transitive, and an empty account comes before any other.
LEMMA LaterFacts ==
    /\ \A x \in Account : Later(x, x) /\ Later(NewVMOutputAccount, x)
    /\ \A x, y, z \in Account : Later(x, y) /\ Later(y, z) => Later(x, z)
<1>1. ASSUME NEW x \in Account PROVE Later(x, x) /\ Later(NewVMOutputAccount, x)
    <2>1. x.nonce \in Nat /\ x.transfers \in Seq(Uint)
        BY DEF Account
    <2> QED BY <2>1, BeginsItself DEF Later, NewVMOutputAccount
<1>2. ASSUME NEW x \in Account, NEW y \in Account, NEW z \in Account, Later(x, y), Later(y, z)
      PROVE  Later(x, z)
    <2>1. /\ x.nonce \in Nat /\ y.nonce \in Nat /\ z.nonce \in Nat
          /\ x.transfers \in Seq(Uint) /\ y.transfers \in Seq(Uint) /\ z.transfers \in Seq(Uint)
        BY DEF Account
    <2>2. Begins(x.transfers, z.transfers)
        BY <1>2, <2>1, BeginsItself DEF Later
    <2> QED BY <1>2, <2>1, <2>2 DEF Later
<1> QED BY <1>1, <1>2

\* The account of an address that the output knows.
LEMMA KnownAccount ==
    ASSUME NEW out \in VMOutput, NEW a \in Address, a \in Known(out)
    PROVE  AccountOf(out, a) = out.accounts[a] /\ out.accounts[a] \in Account
    BY DEF AccountOf, Known, VMOutput, Accounts

\* An output that grew, with the same deltas, has evolved.
LEMMA GrowsEvolves ==
    ASSUME NEW old \in VMOutput, NEW new \in VMOutput,
           Grows(old, new), SameDeltas(old, new)
    PROVE  Evolves(old, new)
<1>1. ASSUME NEW a \in Kept, a \in Known(old)
      PROVE  a \in Known(new) /\ Later(old.accounts[a], new.accounts[a])
    <2>1. a \in Address /\ a \in Known(new) /\ Later(AccountOf(old, a), AccountOf(new, a))
        BY <1>1, KeptAddresses DEF Grows
    <2> QED BY <1>1, <2>1, KnownAccount
<1>2. Solvent(old) => Solvent(new)
    BY KeptAddresses DEF Solvent, BalanceOf, SameDeltas
<1>3. SumDeltas(new) = SumDeltas(old)
    <2>1. Deltas(new) = Deltas(old)
        BY DEF Deltas, SameDeltas
    <2> QED BY <2>1, SumDeltasIs
<1> QED BY <1>1, <1>2, <1>3 DEF Evolves

\* What evolves step by step evolves.
LEMMA EvolvesTrans ==
    ASSUME NEW x \in VMOutput, NEW y \in VMOutput, NEW z \in VMOutput,
           Evolves(x, y), Evolves(y, z)
    PROVE  Evolves(x, z)
<1>1. ASSUME NEW a \in Kept, a \in Known(x)
      PROVE  a \in Known(z) /\ Later(x.accounts[a], z.accounts[a])
    <2>1. a \in Address /\ a \in Known(y) /\ Later(x.accounts[a], y.accounts[a])
        BY <1>1, KeptAddresses DEF Evolves
    <2>2. a \in Known(z) /\ Later(y.accounts[a], z.accounts[a])
        BY <2>1 DEF Evolves
    <2>3. x.accounts[a] \in Account /\ y.accounts[a] \in Account /\ z.accounts[a] \in Account
        BY <1>1, <2>1, <2>2, KnownAccount
    <2> QED BY <2>1, <2>2, <2>3, LaterFacts
<1>2. Solvent(x) => Solvent(z)
    BY DEF Evolves
<1>3. ~Creating => SumDeltas(z) = SumDeltas(x)
    BY DEF Evolves
<1> QED BY <1>1, <1>2, <1>3 DEF Evolves

\* Only the accounts of an output matter.
LEMMA SameAccountsEvolve ==
    ASSUME NEW old \in VMOutput, NEW new \in VMOutput, new.accounts = old.accounts
    PROVE  Evolves(old, new)
<1>1. \A a \in Address : AccountOf(new, a) = AccountOf(old, a)
    BY DEF AccountOf
<1>2. Known(new) = Known(old)
    BY DEF Known
<1>3. \A a \in Address : Later(AccountOf(old, a), AccountOf(old, a))
    BY AccountOfType, LaterFacts
<1>4. Grows(old, new) /\ SameDeltas(old, new)
    BY <1>1, <1>2, <1>3 DEF Grows, SameDeltas
<1> QED BY <1>4, GrowsEvolves

\* One account was rewritten.
LEMMA AccountsAfter ==
    ASSUME NEW out \in VMOutput, NEW a \in Address, NEW account \in Account
    PROVE  /\ WithAccount(out, a, account) \in VMOutput
           /\ Known(WithAccount(out, a, account)) = Known(out) \cup {a}
           /\ \A b \in Address : AccountOf(WithAccount(out, a, account), b) =
                IF b = a THEN account ELSE AccountOf(out, b)
<1> DEFINE new == WithAccount(out, a, account)
<1>1. new \in VMOutput
    BY WithAccountType
<1>2. account # NoAccount
    BY OutputAssumption DEF Account
<1>3. \A b \in Address : new.accounts[b] = IF b = a THEN account ELSE out.accounts[b]
    BY DEF WithAccount, VMOutput, Accounts
<1> HIDE DEF new
<1>4. \A b \in Address : AccountOf(new, b) = IF b = a THEN account ELSE AccountOf(out, b)
    BY <1>2, <1>3 DEF AccountOf
<1>5. Known(new) = Known(out) \cup {a}
    BY <1>2, <1>3 DEF Known
<1> QED BY <1>1, <1>4, <1>5 DEF new

\* ... and comes after what it was, with the same delta.
LEMMA WithAccountEvolves ==
    ASSUME NEW out \in VMOutput, NEW a \in Address, NEW account \in Account,
           Later(AccountOf(out, a), account), account.delta = AccountOf(out, a).delta
    PROVE  Evolves(out, WithAccount(out, a, account))
<1> DEFINE new == WithAccount(out, a, account)
<1>1. /\ new \in VMOutput /\ Known(new) = Known(out) \cup {a}
      /\ \A b \in Address : AccountOf(new, b) = IF b = a THEN account ELSE AccountOf(out, b)
    BY AccountsAfter
<1> HIDE DEF new
<1>2. \A b \in Address : Later(AccountOf(out, b), AccountOf(out, b))
    BY AccountOfType, LaterFacts
<1>3. Grows(out, new) /\ SameDeltas(out, new)
    BY <1>1, <1>2 DEF Grows, SameDeltas
<1>4. Evolves(out, new)
    BY <1>1, <1>3, GrowsEvolves
<1> QED BY <1>4 DEF new

-----------------------------------------------------------------------------
(* Rewriting code and gas leaves the effects of contracts alone *)

\* The effects of contracts on an account are the same.
SameEffect(x, y) ==
    x.delta = y.delta /\ x.cell = y.cell /\ x.nonce = y.nonce /\ x.transfers = y.transfers

\* No account is lost and all effects are the same.
SameEffects(old, new) ==
    \A a \in Address : /\ a \in Known(old) => a \in Known(new)
                       /\ SameEffect(AccountOf(old, a), AccountOf(new, a))

\* An output with the same effects has evolved.
LEMMA SameEffectsEvolve ==
    ASSUME NEW old \in VMOutput, NEW new \in VMOutput, SameEffects(old, new)
    PROVE  Evolves(old, new)
<1>1. ASSUME NEW a \in Address PROVE Later(AccountOf(old, a), AccountOf(new, a))
    <2> DEFINE x == AccountOf(old, a)
               y == AccountOf(new, a)
    <2>1. x \in Account /\ y \in Account /\ SameEffect(x, y)
        BY AccountOfType DEF SameEffects
    <2> HIDE DEF x, y
    <2>2. Later(x, x) BY <2>1, LaterFacts
    <2>3. Later(x, y) BY <2>1, <2>2 DEF Later, SameEffect
    <2> QED BY <2>3 DEF x, y
<1>2. Grows(old, new) /\ SameDeltas(old, new)
    BY <1>1 DEF Grows, SameDeltas, SameEffects, SameEffect
<1> QED BY <1>2, GrowsEvolves

\* The effects are those of the accounts.
LEMMA SameAccountsEffects ==
    ASSUME NEW old \in VMOutput, NEW new \in VMOutput, new.accounts = old.accounts
    PROVE  SameEffects(old, new)
    BY DEF SameEffects, SameEffect, AccountOf, Known

\* Same effects, step by step.
LEMMA SameEffectsTrans ==
    ASSUME NEW x, NEW y, NEW z, SameEffects(x, y), SameEffects(y, z)
    PROVE  SameEffects(x, z)
    BY DEF SameEffects, SameEffect

\* One account was rewritten, with the same effects.
LEMMA WithAccountEffects ==
    ASSUME NEW out \in VMOutput, NEW a \in Address, NEW account \in Account,
           SameEffect(AccountOf(out, a), account)
    PROVE  SameEffects(out, WithAccount(out, a, account))
<1> DEFINE new == WithAccount(out, a, account)
<1>1. /\ Known(new) = Known(out) \cup {a}
      /\ \A b \in Address : AccountOf(new, b) = IF b = a THEN account ELSE AccountOf(out, b)
    BY AccountsAfter
<1> HIDE DEF new
<1>2. SameEffects(out, new)
    BY <1>1 DEF SameEffects, SameEffect
<1> QED BY <1>2 DEF new

\* Caching or deploying code.
LEMMA SetCodeEffects ==
    ASSUME NEW out \in VMOutput, NEW a \in Address, NEW code \in Code \cup {NoCode}
    PROVE  SameEffects(out, SetCode(out, a, code))
<1> DEFINE old == AccountOf(out, a)
           new == [old EXCEPT !.code = code]
<1>1. old \in Account
    BY AccountOfType
<1> HIDE DEF old
<1>2. new \in Account /\ SameEffect(old, new)
    BY <1>1 DEF Account, SameEffect
<1> HIDE DEF new
<1>3. SameEffects(out, WithAccount(out, a, new))
    BY <1>2, WithAccountEffects DEF old
<1> QED BY <1>3 DEF SetCode, old, new

\* Adding to the gas that an account used.
LEMMA AddGasEffects ==
    ASSUME NEW out \in VMOutput, NEW a \in Address, NEW gas \in Uint
    PROVE  SameEffects(out, WithAccount(out, a,
                [AccountOf(out, a) EXCEPT !.gasUsed = AddUint64(@, gas)]))
<1> DEFINE old == AccountOf(out, a)
           new == [old EXCEPT !.gasUsed = AddUint64(@, gas)]
<1>1. old \in Account
    BY AccountOfType
<1> HIDE DEF old
<1>2. new \in Account /\ SameEffect(old, new)
    <2>1. new \in Account BY <1>1, GasUsedType
    <2> QED BY <1>1, <2>1 DEF Account, SameEffect
<1> HIDE DEF new
<1>3. SameEffects(out, WithAccount(out, a, new))
    BY <1>2, WithAccountEffects DEF old
<1> QED BY <1>3 DEF old, new

\* The accounts are rewritten one by one.
LEMMA PointwiseEffects ==
    ASSUME NEW out \in VMOutput, NEW new \in VMOutput,
           \A a \in Address : a \notin Known(out) => a \notin Known(new),
           \A a \in Known(out) : a \in Known(new) /\ SameEffect(out.accounts[a], new.accounts[a])
    PROVE  SameEffects(out, new)
<1>1. ASSUME NEW a \in Address
      PROVE  SameEffect(AccountOf(out, a), AccountOf(new, a))
    <2>1. CASE a \in Known(out)
        BY <2>1, KnownAccount
    <2>2. CASE a \notin Known(out)
        BY <2>2 DEF Known, AccountOf, SameEffect
    <2> QED BY <2>1, <2>2
<1> QED BY <1>1 DEF SameEffects, Known

\* RemoveNonUpdatedCode.
LEMMA RemoveCodeEffects ==
    ASSUME NEW out \in VMOutput, NEW codes
    PROVE  SameEffects(out, RemoveNonUpdatedCode(out, codes))
<1> DEFINE new == RemoveNonUpdatedCode(out, codes)
<1>1. new \in VMOutput
    BY RemoveCodeType
<1>2. \A a \in Address : new.accounts[a] =
            IF a \in codes \/ a \notin Known(out) THEN out.accounts[a]
            ELSE [out.accounts[a] EXCEPT !.code = NoCode]
    BY DEF RemoveNonUpdatedCode, VMOutput
<1> HIDE DEF new
<1>3. ASSUME NEW a \in Known(out)
      PROVE  a \in Known(new) /\ SameEffect(out.accounts[a], new.accounts[a])
    <2> DEFINE account == out.accounts[a]
    <2>1. a \in Address /\ account \in Account
        BY KnownAccount DEF Known
    <2>2. new.accounts[a] = account \/ new.accounts[a] = [account EXCEPT !.code = NoCode]
        BY <1>2, <2>1
    <2> HIDE DEF account
    <2>3. /\ [account EXCEPT !.code = NoCode] \in Account
          /\ SameEffect(account, [account EXCEPT !.code = NoCode])
        BY <2>1 DEF Account, SameEffect
    <2>4. NoAccount \notin Account
        BY OutputAssumption DEF Account
    <2>5. new.accounts[a] \in Account /\ SameEffect(account, new.accounts[a])
        BY <2>1, <2>2, <2>3 DEF SameEffect
    <2> QED BY <2>1, <2>4, <2>5 DEF account, Known
<1>4. \A a \in Address : a \notin Known(out) => a \notin Known(new)
    BY <1>2 DEF Known
<1>5. SameEffects(out, new)
    BY <1>1, <1>3, <1>4, PointwiseEffects
<1> QED BY <1>5 DEF new

\* SetGasUsedToOutputAccounts.
LEMMA SetGasEffects ==
    ASSUME NEW m \in Metering, NEW out \in VMOutput
    PROVE  SameEffects(out, SetGasUsedToOutputAccounts(m, out))
<1> DEFINE new == SetGasUsedToOutputAccounts(m, out)
<1>1. new \in VMOutput
    BY SetGasUsedType
<1>2. \A a \in Address : new.accounts[a] =
            IF a \notin Known(out) THEN NoAccount
            ELSE [out.accounts[a] EXCEPT !.gasUsed = GasUsedBy(m.gasUsedByAccounts, a)]
    BY DEF SetGasUsedToOutputAccounts, VMOutput
<1> HIDE DEF new
<1>3. ASSUME NEW a \in Known(out)
      PROVE  a \in Known(new) /\ SameEffect(out.accounts[a], new.accounts[a])
    <2> DEFINE account == out.accounts[a]
               gas == GasUsedBy(m.gasUsedByAccounts, a)
    <2>1. a \in Address /\ account \in Account
        BY KnownAccount DEF Known
    <2>2. new.accounts[a] = [account EXCEPT !.gasUsed = gas]
        BY <1>2, <2>1
    <2>3. gas \in Uint
        BY <2>1, ZeroIsWord DEF GasUsedBy, Metering, GasMap
    <2> HIDE DEF account, gas
    <2>4. /\ [account EXCEPT !.gasUsed = gas] \in Account
          /\ SameEffect(account, [account EXCEPT !.gasUsed = gas])
        BY <2>1, <2>3 DEF Account, SameEffect
    <2>5. NoAccount \notin Account
        BY OutputAssumption DEF Account
    <2> QED BY <2>1, <2>2, <2>4, <2>5 DEF account, Known
<1>4. \A a \in Address : a \notin Known(out) => a \notin Known(new)
    BY <1>2 DEF Known
<1>5. SameEffects(out, new)
    BY <1>1, <1>3, <1>4, PointwiseEffects
<1> QED BY <1>5 DEF new

-----------------------------------------------------------------------------
(* What stays of the accounts when a call ends *)

\* The accounts that are kept have the same effects.
KeptSame(old, new) ==
    \A a \in Kept : /\ a \in Known(old) => a \in Known(new)
                    /\ SameEffect(AccountOf(old, a), AccountOf(new, a))

\* Same effects, on the accounts that are kept.
LEMMA SameEffectsKept ==
    ASSUME NEW old, NEW new, SameEffects(old, new)
    PROVE  KeptSame(old, new)
    BY KeptAddresses DEF SameEffects, KeptSame

\* ... step by step.
LEMMA KeptSameTrans ==
    ASSUME NEW x, NEW y, NEW z, KeptSame(x, y), KeptSame(y, z)
    PROVE  KeptSame(x, z)
    BY DEF KeptSame, SameEffect

\* When the accounts that are kept have the same effects, the output has evolved.
LEMMA KeptSameEvolves ==
    ASSUME NEW old \in VMOutput, NEW new \in VMOutput, KeptSame(old, new)
    PROVE  Evolves(old, new)
<1>1. ASSUME NEW a \in Kept, a \in Known(old)
      PROVE  a \in Known(new) /\ Later(old.accounts[a], new.accounts[a])
    <2> DEFINE x == old.accounts[a]
               y == new.accounts[a]
    <2>1. a \in Address /\ a \in Known(new)
        BY <1>1, KeptAddresses DEF KeptSame
    <2>2. x \in Account /\ y \in Account /\ AccountOf(old, a) = x /\ AccountOf(new, a) = y
        BY <1>1, <2>1, KnownAccount
    <2>3. SameEffect(x, y)
        BY <2>2 DEF KeptSame
    <2> HIDE DEF x, y
    <2>4. Later(x, x) BY <2>2, LaterFacts
    <2>5. Later(x, y) BY <2>3, <2>4 DEF Later, SameEffect
    <2> QED BY <2>1, <2>5 DEF x, y
<1>2. Solvent(old) => Solvent(new)
    BY KeptAddresses DEF Solvent, BalanceOf, KeptSame, SameEffect
<1>3. ~Creating => SumDeltas(new) = SumDeltas(old)
    <2>1. SUFFICES ASSUME ~Creating PROVE Deltas(new) = Deltas(old)
        BY SumDeltasIs
    <2>2. Kept = Address
        BY <2>1 DEF Kept
    <2> QED BY <2>2 DEF Deltas, KeptSame, SameEffect
<1> QED BY <1>1, <1>2, <1>3 DEF Evolves

\* A failed creation: the account that goes is none of those that are kept.
LEMMA DeleteKept ==
    ASSUME NEW out \in VMOutput, Creating, NEW a \in Address \ DOMAIN ChainCode
    PROVE  KeptSame(out, DeleteOutputAccount(out, a))
<1>1. a \notin Kept
    BY KeptAddresses DEF Kept
<1>2. \A b \in Kept : DeleteOutputAccount(out, a).accounts[b] = out.accounts[b]
    BY <1>1 DEF DeleteOutputAccount, VMOutput, Accounts
<1>3. \A b \in Kept : /\ b \in Known(out) => b \in Known(DeleteOutputAccount(out, a))
                      /\ AccountOf(DeleteOutputAccount(out, a), b) = AccountOf(out, b)
    BY <1>2, KeptAddresses DEF Known, AccountOf
<1> QED BY <1>3 DEF KeptSame, SameEffect

\* Merging an account into what it was before.
LEMMA MergeLater ==
    ASSUME NEW old \in Account, NEW new \in Account, Later(old, new)
    PROVE  SameEffect(new, MergeOutputAccounts(old, new))
<1> DEFINE s == old.transfers
           t == new.transfers
           u == s \o SubSeq(t, Len(s) + 1, Len(t))
<1>1. s \in Seq(Uint) /\ t \in Seq(Uint) /\ old.nonce \in Nat /\ new.nonce \in Nat
    BY DEF Account
<1>2. Len(s) \in Nat /\ Len(t) \in Nat /\ Len(s) <= Len(t) /\ \A i \in 1 .. Len(s) : t[i] = s[i]
    BY <1>1 DEF Later, Begins
<1>3. u = t
    <2> HIDE DEF s, t
    <2> DEFINE rest == SubSeq(t, Len(s) + 1, Len(t))
    <2>1. /\ rest \in Seq(Uint) /\ Len(rest) = Len(t) - Len(s)
          /\ \A i \in 1 .. Len(rest) : rest[i] = t[Len(s) + i]
        BY <1>1, <1>2
    <2> HIDE DEF rest
    <2>2. u \in Seq(Uint) /\ Len(u) = Len(t)
        BY <1>1, <1>2, <2>1 DEF rest
    <2>3. \A i \in 1 .. Len(t) : u[i] = t[i]
        <3> SUFFICES ASSUME NEW i \in 1 .. Len(t) PROVE u[i] = t[i]
            OBVIOUS
        <3>1. CASE i <= Len(s)
            BY <3>1, <1>1, <1>2, <2>1 DEF rest
        <3>2. CASE i > Len(s)
            <4>1. i - Len(s) \in 1 .. Len(rest) /\ Len(s) + (i - Len(s)) = i
                BY <3>2, <1>2, <2>1
            <4>2. u[i] = rest[i - Len(s)]
                BY <3>2, <1>1, <1>2, <2>1 DEF rest
            <4> QED BY <4>1, <4>2, <2>1
        <3> QED BY <3>1, <3>2, <1>2
    <2> HIDE DEF u
    <2> QED BY <1>1, <2>2, <2>3
<1>4. MergeOutputAccounts(old, new).transfers = u
    BY DEF MergeOutputAccounts
<1>5. MergeOutputAccounts(old, new).nonce = new.nonce
    BY <1>1 DEF MergeOutputAccounts, Later
<1>6. MergeOutputAccounts(old, new).cell = new.cell
    BY DEF MergeOutputAccounts, Later
<1>7. MergeOutputAccounts(old, new).delta = new.delta
    BY DEF MergeOutputAccounts
<1> QED BY <1>3, <1>4, <1>5, <1>6, <1>7 DEF SameEffect

\* PopMergeActiveState: the callee's output, which began as its caller's.
LEMMA MergeKept ==
    ASSUME NEW old \in VMOutput, NEW new \in VMOutput, Evolves(old, new)
    PROVE  KeptSame(new, MergeVMOutputs(old, new))
<1> DEFINE merged == MergeVMOutputs(old, new)
<1>1. merged \in VMOutput
    BY MergeType
<1>2. \A a \in Address : merged.accounts[a] =
        IF a \notin Known(new) THEN old.accounts[a]
        ELSE MergeOutputAccounts(AccountOf(old, a), new.accounts[a])
    BY DEF MergeVMOutputs
<1> HIDE DEF merged
<1>3. NoAccount \notin Account
    BY OutputAssumption DEF Account
<1>4. ASSUME NEW a \in Kept
      PROVE  /\ a \in Known(new) => a \in Known(merged)
             /\ SameEffect(AccountOf(new, a), AccountOf(merged, a))
    <2>1. a \in Address
        BY KeptAddresses
    <2>2. CASE a \in Known(new)
        <3> DEFINE x == AccountOf(old, a)
                   y == new.accounts[a]
        <3>1. x \in Account /\ y \in Account /\ AccountOf(new, a) = y
            BY <2>1, <2>2, AccountOfType, KnownAccount
        <3>2. Later(x, y)
            <4>1. CASE a \in Known(old)
                BY <4>1, <2>1, KnownAccount DEF Evolves
            <4>2. CASE a \notin Known(old)
                <5>1. x = NewVMOutputAccount
                    BY <4>2, <2>1 DEF AccountOf, Known
                <5> QED BY <5>1, <3>1, LaterFacts
            <4> QED BY <4>1, <4>2
        <3>3. merged.accounts[a] = MergeOutputAccounts(x, y)
            BY <1>2, <2>1, <2>2
        <3> HIDE DEF x, y
        <3>4. MergeOutputAccounts(x, y) \in Account /\ SameEffect(y, MergeOutputAccounts(x, y))
            BY <3>1, <3>2, MergeAccountsType, MergeLater
        <3>5. merged.accounts[a] # NoAccount
            BY <3>3, <3>4, <1>3
        <3> QED BY <3>1, <3>3, <3>4, <3>5, <2>1 DEF Known, AccountOf
    <2>3. CASE a \notin Known(new)
        <3>1. a \notin Known(old)
            BY <2>3 DEF Evolves
        <3>2. merged.accounts[a] = NoAccount /\ new.accounts[a] = NoAccount
            BY <1>2, <2>1, <2>3, <3>1 DEF Known
        <3> QED BY <2>3, <3>2 DEF AccountOf, SameEffect
    <2> QED BY <2>2, <2>3
<1>5. KeptSame(new, merged)
    BY <1>4 DEF KeptSame
<1> QED BY <1>5 DEF merged

\* The deltas after one account was rewritten.
LEMMA DeltasAfter ==
    ASSUME NEW out \in VMOutput, NEW a \in Address, NEW account \in Account
    PROVE  Deltas(WithAccount(out, a, account)) = [Deltas(out) EXCEPT ![a] = account.delta]
<1> DEFINE new == WithAccount(out, a, account)
<1>1. \A b \in Address : AccountOf(new, b) = IF b = a THEN account ELSE AccountOf(out, b)
    BY AccountsAfter
<1> HIDE DEF new
<1>2. Deltas(new) = [Deltas(out) EXCEPT ![a] = account.delta]
    BY <1>1 DEF Deltas
<1> QED BY <1>2 DEF new

\* The balance of one account changes.
LEMMA DeltaChanges ==
    ASSUME NEW out \in VMOutput, NEW a \in Address, NEW d \in Int
    PROVE  LET new == WithAccount(out, a, [AccountOf(out, a) EXCEPT !.delta = d])
           IN  /\ new \in VMOutput
               /\ Known(new) = Known(out) \cup {a}
               /\ \A b \in Address : AccountOf(new, b).delta =
                    IF b = a THEN d ELSE AccountOf(out, b).delta
               /\ Grows(out, new)
               /\ SumDeltas(new) = (SumDeltas(out) - AccountOf(out, a).delta) + d
<1> DEFINE old == AccountOf(out, a)
           account == [old EXCEPT !.delta = d]
           new == WithAccount(out, a, account)
<1>1. old \in Account
    BY AccountOfType
<1>2. account \in Account /\ account.delta = d /\ Later(old, account)
    <2> HIDE DEF old
    <2>1. Later(old, old) BY <1>1, LaterFacts
    <2> QED BY <1>1, <2>1 DEF Account, Later
<1> HIDE DEF account
<1>3. /\ new \in VMOutput /\ Known(new) = Known(out) \cup {a}
      /\ \A b \in Address : AccountOf(new, b) = IF b = a THEN account ELSE AccountOf(out, b)
    BY <1>2, AccountsAfter
<1>4. \A b \in Address : Later(AccountOf(out, b), AccountOf(out, b))
    BY AccountOfType, LaterFacts
<1>5. Grows(out, new)
    <2> HIDE DEF new
    <2> QED BY <1>2, <1>3, <1>4 DEF Grows
<1>6. Deltas(new) = [Deltas(out) EXCEPT ![a] = d]
    BY <1>2, DeltasAfter
<1>7. SumDeltas(new) = (SumDeltas(out) - old.delta) + d
    <2> HIDE DEF new
    <2>1. Deltas(out) \in [Address -> Int] /\ Deltas(out)[a] = old.delta
        BY DeltasType DEF Deltas
    <2> HIDE DEF old
    <2>2. SumOf([Deltas(out) EXCEPT ![a] = d]) = (SumOf(Deltas(out)) - Deltas(out)[a]) + d
        <3> DEFINE f == Deltas(out)
        <3>1. IsFiniteSet(Address)
            BY VMHostAssumption
        <3>2. f \in [Address -> Int]
            BY <2>1
        <3> HIDE DEF f
        <3>3. SumOf([f EXCEPT ![a] = d]) = (SumOf(f) - f[a]) + d
            BY ONLY <3>1, <3>2, a \in Address, d \in Int, SumOfUpdate
        <3> QED BY <3>3 DEF f
    <2> QED BY <1>3, <1>6, <2>1, <2>2, SumDeltasIs
<1>8. \A b \in Address : AccountOf(new, b).delta = IF b = a THEN d ELSE AccountOf(out, b).delta
    BY ONLY <1>2, <1>3
<1> QED BY <1>3, <1>5, <1>7, <1>8 DEF account

-----------------------------------------------------------------------------
(* Moving value, storing, logging a transfer *)

\* At most transfers were logged.
Logs(old, new) ==
    \A a \in Address :
        /\ a \in Known(old) => a \in Known(new)
        /\ LET x == AccountOf(old, a)
               y == AccountOf(new, a)
           IN  x.delta = y.delta /\ x.cell = y.cell /\ x.nonce = y.nonce
               /\ Begins(x.transfers, y.transfers)

\* Logging transfers is an evolution.
LEMMA LogsEvolve ==
    ASSUME NEW old \in VMOutput, NEW new \in VMOutput, Logs(old, new)
    PROVE  Evolves(old, new)
<1>1. ASSUME NEW a \in Address PROVE Later(AccountOf(old, a), AccountOf(new, a))
    <2> DEFINE x == AccountOf(old, a)
               y == AccountOf(new, a)
    <2>1. x \in Account
        BY AccountOfType
    <2>2. x.cell = y.cell /\ x.nonce = y.nonce /\ Begins(x.transfers, y.transfers)
        BY DEF Logs
    <2> HIDE DEF x, y
    <2>3. Later(x, y) BY <2>1, <2>2 DEF Later, Account
    <2> QED BY <2>3 DEF x, y
<1>2. Grows(old, new) /\ SameDeltas(old, new)
    BY <1>1 DEF Grows, SameDeltas, Logs
<1> QED BY <1>2, GrowsEvolves

\* With the same effects, no transfer was logged.
LEMMA SameEffectsLog ==
    ASSUME NEW old \in VMOutput, NEW new \in VMOutput, SameEffects(old, new)
    PROVE  Logs(old, new)
<1>1. ASSUME NEW a \in Address
      PROVE  Begins(AccountOf(old, a).transfers, AccountOf(new, a).transfers)
    <2>1. AccountOf(old, a) \in Account
        BY AccountOfType
    <2>2. AccountOf(old, a).transfers \in Seq(Uint)
        BY <2>1 DEF Account
    <2>3. AccountOf(new, a).transfers = AccountOf(old, a).transfers
        BY DEF SameEffects, SameEffect
    <2> QED BY <2>2, <2>3, BeginsItself
<1> QED BY <1>1 DEF Logs, SameEffects, SameEffect

\* TransferValueOnly, when the sender has the value.
LEMMA MoveValueEvolves ==
    ASSUME NEW out \in VMOutput, NEW dest \in Address, NEW sender \in Address, NEW v \in Nat,
           HasSufficientBalance(out, sender, v)
    PROVE  Evolves(out, MoveValue(out, dest, sender, v))
<1> DEFINE debited == WithAccount(out, sender, [AccountOf(out, sender) EXCEPT !.delta = @ - v])
           new == WithAccount(debited, dest, [AccountOf(debited, dest) EXCEPT !.delta = @ + v])
<1>1. \A a \in Address : AccountOf(out, a).delta \in Int
    BY AccountOfType DEF Account
<1>2. /\ debited \in VMOutput
      /\ \A b \in Address : AccountOf(debited, b).delta =
            IF b = sender THEN AccountOf(out, sender).delta - v ELSE AccountOf(out, b).delta
      /\ Grows(out, debited)
      /\ SumDeltas(debited) = (SumDeltas(out) - AccountOf(out, sender).delta)
                              + (AccountOf(out, sender).delta - v)
    <2> DEFINE d == AccountOf(out, sender).delta - v
               changed == WithAccount(out, sender, [AccountOf(out, sender) EXCEPT !.delta = d])
    <2>1. d \in Int
        BY <1>1
    <2>2. [AccountOf(out, sender) EXCEPT !.delta = @ - v] =
            [AccountOf(out, sender) EXCEPT !.delta = d]
        BY AccountOfType DEF Account
    <2>3. debited = changed
        BY <2>2
    <2> HIDE DEF d, debited
    <2>4. /\ changed \in VMOutput
          /\ \A b \in Address : AccountOf(changed, b).delta =
                IF b = sender THEN d ELSE AccountOf(out, b).delta
          /\ Grows(out, changed)
          /\ SumDeltas(changed) = (SumDeltas(out) - AccountOf(out, sender).delta) + d
        BY <2>1, DeltaChanges
    <2> QED BY ONLY <2>3, <2>4 DEF d
<1> HIDE DEF debited
<1>3. \A a \in Address : AccountOf(debited, a).delta \in Int
    BY <1>2, AccountOfType DEF Account
<1>4. /\ new \in VMOutput
      /\ \A b \in Address : AccountOf(new, b).delta =
            IF b = dest THEN AccountOf(debited, dest).delta + v ELSE AccountOf(debited, b).delta
      /\ Grows(debited, new)
      /\ SumDeltas(new) = (SumDeltas(debited) - AccountOf(debited, dest).delta)
                          + (AccountOf(debited, dest).delta + v)
    <2> DEFINE d == AccountOf(debited, dest).delta + v
               changed == WithAccount(debited, dest, [AccountOf(debited, dest) EXCEPT !.delta = d])
    <2>1. d \in Int
        BY <1>3
    <2>2. [AccountOf(debited, dest) EXCEPT !.delta = @ + v] =
            [AccountOf(debited, dest) EXCEPT !.delta = d]
        BY <1>2, AccountOfType DEF Account
    <2>3. new = changed
        BY <2>2
    <2> HIDE DEF d, new
    <2>4. /\ changed \in VMOutput
          /\ \A b \in Address : AccountOf(changed, b).delta =
                IF b = dest THEN d ELSE AccountOf(debited, b).delta
          /\ Grows(debited, changed)
          /\ SumDeltas(changed) = (SumDeltas(debited) - AccountOf(debited, dest).delta) + d
        BY <1>2, <2>1, DeltaChanges
    <2> QED BY ONLY <2>3, <2>4 DEF d
<1> HIDE DEF new
<1>5. ASSUME NEW a \in Kept, a \in Known(out)
      PROVE  a \in Known(new) /\ Later(out.accounts[a], new.accounts[a])
    <2>1. a \in Address
        BY KeptAddresses
    <2>2. a \in Known(debited) /\ a \in Known(new)
        BY <1>2, <1>4, <1>5, <2>1 DEF Grows
    <2>3. /\ AccountOf(out, a) = out.accounts[a] /\ out.accounts[a] \in Account
          /\ AccountOf(debited, a) \in Account
          /\ AccountOf(new, a) = new.accounts[a] /\ new.accounts[a] \in Account
        BY <1>2, <1>4, <1>5, <2>1, <2>2, KnownAccount, AccountOfType
    <2>4. /\ Later(AccountOf(out, a), AccountOf(debited, a))
          /\ Later(AccountOf(debited, a), AccountOf(new, a))
        BY <1>2, <1>4, <2>1 DEF Grows
    <2> QED BY <2>2, <2>3, <2>4, LaterFacts
<1>6. ASSUME Solvent(out) PROVE Solvent(new)
    <2> SUFFICES ASSUME NEW a \in DOMAIN ChainBalance PROVE BalanceOf(new, a) >= 0
        BY DEF Solvent
    <2>1. a \in Address /\ ChainBalance[a] \in Nat
        BY VMHostAssumption, KeptAddresses
    <2>2. ChainBalance[a] + AccountOf(out, a).delta >= 0
        BY <1>6 DEF Solvent, BalanceOf
    <2>3. a = sender => ChainBalance[a] + AccountOf(out, a).delta >= v
        BY DEF HasSufficientBalance, BalanceOf
    <2>4. ChainBalance[a] + AccountOf(debited, a).delta >= 0
        BY <1>1, <1>2, <2>1, <2>2, <2>3
    <2>5. ChainBalance[a] + AccountOf(new, a).delta >= 0
        BY <1>3, <1>4, <2>1, <2>4
    <2> QED BY <2>5 DEF BalanceOf
<1>7. SumDeltas(new) = SumDeltas(out)
    <2>1. SumDeltas(out) \in Int /\ SumDeltas(debited) \in Int
        BY <1>2, SumDeltasType
    <2> QED BY <1>1, <1>2, <1>3, <1>4, <2>1
<1>8. Evolves(out, new)
    BY <1>5, <1>6, <1>7 DEF Evolves
<1> QED BY <1>8 DEF new, debited, MoveValue

\* SetStorage.
LEMMA SetCellEvolves ==
    ASSUME NEW out \in VMOutput, NEW a \in Address, NEW v \in Value
    PROVE  Evolves(out, SetCell(out, a, v))
<1> DEFINE old == AccountOf(out, a)
           account == [old EXCEPT !.cell = v]
<1>1. old \in Account
    BY AccountOfType
<1> HIDE DEF old
<1>2. Later(old, old)
    BY <1>1, LaterFacts
<1>3. v # NoUpdate
    BY OutputAssumption
<1>4. account \in Account /\ Later(old, account) /\ account.delta = old.delta
    BY <1>1, <1>2, <1>3 DEF Account, Later
<1> HIDE DEF account
<1>5. Evolves(out, WithAccount(out, a, account))
    BY <1>4, WithAccountEvolves DEF old
<1> QED BY <1>5 DEF account, old, SetCell

\* A transfer is added to the output of its recipient.
LEMMA AppendTransferLogs ==
    ASSUME NEW out \in VMOutput, NEW a \in Address, NEW gas \in Uint
    PROVE  Logs(out, AppendTransfer(out, a, gas))
<1> DEFINE old == AccountOf(out, a)
           account == [old EXCEPT !.transfers = Append(@, gas)]
           new == WithAccount(out, a, account)
<1>1. old \in Account
    BY AccountOfType
<1>2. account \in Account /\ account.delta = old.delta /\ account.cell = old.cell
      /\ account.nonce = old.nonce /\ Begins(old.transfers, account.transfers)
    <2> HIDE DEF old
    <2>1. old.transfers \in Seq(Uint) /\ Append(old.transfers, gas) \in Seq(Uint)
        BY <1>1 DEF Account
    <2>2. Begins(old.transfers, Append(old.transfers, gas))
        BY <2>1, BeginsItself
    <2>3. account.transfers = Append(old.transfers, gas)
        BY <1>1 DEF Account
    <2> QED BY <1>1, <2>1, <2>2, <2>3 DEF Account
<1> HIDE DEF account
<1>3. /\ Known(new) = Known(out) \cup {a}
      /\ \A b \in Address : AccountOf(new, b) = IF b = a THEN account ELSE AccountOf(out, b)
    BY <1>2, AccountsAfter
<1> HIDE DEF new
<1>4. ASSUME NEW b \in Address
      PROVE  Begins(AccountOf(out, b).transfers, AccountOf(out, b).transfers)
    <2>1. AccountOf(out, b) \in Account
        BY AccountOfType
    <2>2. AccountOf(out, b).transfers \in Seq(Uint)
        BY <2>1 DEF Account
    <2> QED BY <2>2, BeginsItself
<1>5. Logs(out, new)
    BY <1>2, <1>3, <1>4 DEF Logs
<1> QED BY <1>5 DEF new, account, AppendTransfer

-----------------------------------------------------------------------------
(* Built-in functions, and the value of the transaction *)

\* What a built-in function reports at its recipient, which the output may know.
LEMMA BuiltinAccount ==
    ASSUME NEW x \in Account
    PROVE  LET left == [x EXCEPT !.transfers = @ \o <<0>>]
               right == [delta |-> x.delta, cell |-> NoUpdate, nonce |-> 0, code |-> NoCode,
                         transfers |-> <<0>>, gasUsed |-> 0]
               merged == MergeOutputAccounts(left, right)
           IN  /\ merged.delta = x.delta /\ merged.cell = x.cell /\ merged.nonce = x.nonce
               /\ Begins(x.transfers, merged.transfers)
<1> DEFINE t == x.transfers
           s == t \o <<0>>
           left == [x EXCEPT !.transfers = @ \o <<0>>]
           right == [delta |-> x.delta, cell |-> NoUpdate, nonce |-> 0, code |-> NoCode,
                     transfers |-> <<0>>, gasUsed |-> 0]
           merged == MergeOutputAccounts(left, right)
<1>1. t \in Seq(Uint) /\ x.nonce \in Nat
    BY DEF Account
<1>2. left.transfers = s /\ left.cell = x.cell /\ left.nonce = x.nonce
    BY DEF Account
<1>3. s \in Seq(Uint) /\ Begins(t, s) /\ Len(s) = Len(t) + 1 /\ Len(t) \in Nat
    <2> HIDE DEF t
    <2> QED BY <1>1, ZeroIsWord DEF Begins
<1>4. merged.delta = x.delta /\ merged.cell = x.cell /\ merged.nonce = x.nonce
    <2> HIDE DEF left
    <2> QED BY <1>1, <1>2 DEF MergeOutputAccounts
<1>5. merged.transfers = s \o SubSeq(<<0>>, Len(s) + 1, Len(<<0>>))
    <2> HIDE DEF left, s
    <2> QED BY <1>2 DEF MergeOutputAccounts
<1>6. SubSeq(<<0>>, Len(s) + 1, Len(<<0>>)) = <<>>
    <2> HIDE DEF s, t
    <2>1. Len(<<0>>) = 1 /\ Len(s) + 1 > 1 /\ Len(s) + 1 \in Nat
        BY <1>3
    <2> QED BY <2>1
<1>7. merged.transfers = s
    <2> HIDE DEF s, t, merged
    <2>1. s \o <<>> = s
        BY <1>3
    <2> QED BY <1>5, <1>6, <2>1
<1> QED BY <1>3, <1>4, <1>7

\* AddToActiveState, with a built-in function that reports no accounts.
LEMMA RefusedEffects ==
    ASSUME NEW out \in VMOutput
    PROVE  AddToActiveState(out, RefusedOutput).accounts = out.accounts
<1> DEFINE right == RefusedOutput
           both == Known(out) \cap Known(right)
           added == [a \in Address |->
                IF a \in both THEN [right.accounts[a] EXCEPT !.delta = @ + out.accounts[a].delta]
                ELSE right.accounts[a]]
           appended == [a \in Address |->
                IF a \in both
                THEN [out.accounts[a] EXCEPT !.transfers = @ \o right.accounts[a].transfers]
                ELSE out.accounts[a]]
           rebased == [right EXCEPT !.refund = 0, !.accounts = added]
           extended == [out EXCEPT !.accounts = appended]
<1>1. right \in VMOutput /\ \A a \in Address : right.accounts[a] = NoAccount
    <2>1. right \in VMOutput
        BY RefusedOutputType
    <2> QED BY <2>1 DEF RefusedOutput, NewVMOutput
<1>2. Known(right) = {}
    BY <1>1 DEF Known
<1>3. /\ \A a \in Address : added[a] = NoAccount /\ appended[a] = out.accounts[a]
      /\ extended.accounts = appended /\ rebased.accounts = added
    <2>1. \A a \in Address : added[a] = NoAccount /\ appended[a] = out.accounts[a]
        BY <1>1, <1>2
    <2> HIDE DEF added, appended, right
    <2> QED BY <1>1, <2>1 DEF VMOutput
<1> HIDE DEF extended, rebased, added, appended, both, right
<1>4. Known(rebased) = {}
    BY <1>3 DEF Known
<1>5. MergeVMOutputs(extended, rebased).accounts = [a \in Address |-> out.accounts[a]]
    BY <1>3, <1>4 DEF MergeVMOutputs
<1>6. AddToActiveState(out, RefusedOutput) = MergeVMOutputs(extended, rebased)
    BY DEF AddToActiveState, extended, rebased, added, appended, both, right
<1> QED BY <1>5, <1>6 DEF VMOutput, Accounts

\* AddToActiveState, with what a built-in function reports.
LEMMA AddToActiveLogs ==
    ASSUME NEW out \in VMOutput, NEW dest \in Address
    PROVE  Logs(out, AddToActiveState(out, BuiltinOutput(dest)))
<1> DEFINE right == BuiltinOutput(dest)
           report == [delta |-> 0, cell |-> NoUpdate, nonce |-> 0, code |-> NoCode,
                      transfers |-> <<0>>, gasUsed |-> 0]
           both == Known(out) \cap Known(right)
           added == [a \in Address |->
                IF a \in both THEN [right.accounts[a] EXCEPT !.delta = @ + out.accounts[a].delta]
                ELSE right.accounts[a]]
           appended == [a \in Address |->
                IF a \in both
                THEN [out.accounts[a] EXCEPT !.transfers = @ \o right.accounts[a].transfers]
                ELSE out.accounts[a]]
           rebased == [right EXCEPT !.refund = 0, !.accounts = added]
           extended == [out EXCEPT !.accounts = appended]
           new == MergeVMOutputs(extended, rebased)
<1>1. NoAccount \notin Account
    BY OutputAssumption DEF Account
<1>2. report \in Account
    <2>1. <<0>> \in Seq(Uint)
        BY ZeroIsWord
    <2> QED BY <2>1, ZeroIsWord, OutputAssumption DEF Account
<1>3. /\ right \in VMOutput
      /\ \A a \in Address : right.accounts[a] = IF a = dest THEN report ELSE NoAccount
    <2>1. right \in VMOutput
        BY BuiltinOutputType
    <2> QED BY <2>1 DEF BuiltinOutput, NewVMOutput, NewVMOutputAccount
<1>4. Known(right) = {dest}
    BY <1>1, <1>2, <1>3 DEF Known
<1>5. /\ extended.accounts = appended /\ rebased.accounts = added
    <2> HIDE DEF added, appended, right
    <2> QED BY <1>3 DEF VMOutput
<1>6. ASSUME NEW a \in Address, a # dest
      PROVE  new.accounts[a] = out.accounts[a]
    <2>1. a \notin both /\ added[a] = NoAccount /\ appended[a] = out.accounts[a]
        BY <1>3, <1>4, <1>6
    <2> HIDE DEF extended, rebased, added, appended, both
    <2>2. a \notin Known(rebased)
        BY <1>5, <2>1 DEF Known
    <2> QED BY <1>5, <2>1, <2>2 DEF MergeVMOutputs
<1>7. ASSUME dest \in Known(out)
      PROVE  new.accounts[dest] = MergeOutputAccounts(
                [out.accounts[dest] EXCEPT !.transfers = @ \o <<0>>],
                [report EXCEPT !.delta = @ + out.accounts[dest].delta])
    <2> DEFINE x == out.accounts[dest]
               more == [x EXCEPT !.transfers = @ \o <<0>>]
               moved == [report EXCEPT !.delta = @ + x.delta]
    <2>1. x \in Account
        BY <1>7, KnownAccount
    <2>2. added[dest] = moved /\ appended[dest] = more
        <3>1. right.accounts[dest] = report /\ report.transfers = <<0>> /\ dest \in both
            BY <1>3, <1>4, <1>7
        <3> HIDE DEF right, report, both
        <3> QED BY <3>1
    <2>3. more \in Account /\ moved \in Account
        <3> HIDE DEF x
        <3>1. x.transfers \o <<0>> \in Seq(Uint) /\ report.delta + x.delta \in Int
            BY <2>1, ZeroIsWord DEF Account
        <3>2. more \in Account
            BY <2>1, <3>1 DEF Account
        <3> HIDE DEF report
        <3>3. moved \in Account
            BY <1>2, <3>1 DEF Account
        <3> QED BY <3>2, <3>3
    <2> HIDE DEF extended, rebased, added, appended, both, more, moved, x, right, report
    <2>4. dest \in Known(rebased) /\ AccountOf(extended, dest) = more
        BY <1>1, <1>5, <2>2, <2>3 DEF Known, AccountOf
    <2>5. new.accounts[dest] = MergeOutputAccounts(more, moved)
        BY <1>5, <2>2, <2>4 DEF MergeVMOutputs
    <2> QED BY <2>5 DEF more, moved, x
<1>8. ASSUME dest \notin Known(out)
      PROVE  new.accounts[dest] = MergeOutputAccounts(NewVMOutputAccount, report)
    <2>1. added[dest] = report /\ appended[dest] = NoAccount
        BY <1>3, <1>4, <1>8 DEF Known
    <2> HIDE DEF extended, rebased, added, appended, both, right, report
    <2>2. dest \in Known(rebased) /\ AccountOf(extended, dest) = NewVMOutputAccount
        BY <1>1, <1>2, <1>5, <2>1 DEF Known, AccountOf
    <2> QED BY <1>5, <2>1, <2>2 DEF MergeVMOutputs
<1>9. new \in VMOutput /\ new = AddToActiveState(out, right)
    <2>1. new = AddToActiveState(out, right)
        BY Zenon DEF both, added, appended, rebased, extended, AddToActiveState
    <2> HIDE DEF new, right
    <2> QED BY <1>3, <2>1, AddToActiveType
<1> HIDE DEF new, right, both, added, appended, rebased, extended
<1>10. ASSUME NEW a \in Address
       PROVE  /\ a \in Known(out) => a \in Known(new)
              /\ AccountOf(out, a).delta = AccountOf(new, a).delta
              /\ AccountOf(out, a).cell = AccountOf(new, a).cell
              /\ AccountOf(out, a).nonce = AccountOf(new, a).nonce
              /\ Begins(AccountOf(out, a).transfers, AccountOf(new, a).transfers)
    <2>0. AccountOf(out, a) \in Account
        BY AccountOfType
    <2>1. CASE a # dest
        <3>1. AccountOf(new, a) = AccountOf(out, a) /\ (a \in Known(out) => a \in Known(new))
            BY <1>6, <2>1 DEF AccountOf, Known
        <3>2. AccountOf(out, a).transfers \in Seq(Uint)
            BY <2>0 DEF Account
        <3> QED BY <3>1, <3>2, BeginsItself
    <2>2. CASE a = dest /\ dest \in Known(out)
        <3> DEFINE x == out.accounts[dest]
                   left == [x EXCEPT !.transfers = @ \o <<0>>]
                   moved == [report EXCEPT !.delta = @ + x.delta]
                   merged == new.accounts[dest]
        <3>1. x \in Account /\ AccountOf(out, dest) = x
            BY <2>2, KnownAccount
        <3>2. merged = MergeOutputAccounts(left, moved)
            BY <1>7, <2>2
        <3>3. moved = [delta |-> x.delta, cell |-> NoUpdate, nonce |-> 0, code |-> NoCode,
                       transfers |-> <<0>>, gasUsed |-> 0]
            <4>1. 0 + x.delta = x.delta
                BY <3>1 DEF Account
            <4> QED BY <4>1
        <3> HIDE DEF x, moved, merged, report
        <3>4. /\ merged.delta = x.delta /\ merged.cell = x.cell /\ merged.nonce = x.nonce
              /\ Begins(x.transfers, merged.transfers)
            BY <3>1, <3>2, <3>3, BuiltinAccount
        <3>5. merged # NoAccount
            <4>1. left \in Account /\ moved \in Account
                <5>1. x.transfers \o <<0>> \in Seq(Uint) /\ x.delta \in Int /\ <<0>> \in Seq(Uint)
                    BY <3>1, ZeroIsWord DEF Account
                <5>2. left \in Account
                    BY <3>1, <5>1 DEF Account
                <5>3. moved \in Account
                    BY <3>3, <5>1, ZeroIsWord, OutputAssumption DEF Account
                <5> QED BY <5>2, <5>3
            <4>2. merged \in Account
                BY <3>2, <4>1, MergeAccountsType
            <4> QED BY <1>1, <4>2
        <3>6. AccountOf(new, dest) = merged /\ dest \in Known(new)
            BY <3>5 DEF AccountOf, Known, merged
        <3> QED BY <2>2, <3>1, <3>4, <3>6
    <2>3. CASE a = dest /\ dest \notin Known(out)
        <3>1. new.accounts[dest] = report
            BY <1>2, <1>8, <2>3, CopyAccount
        <3>2. AccountOf(new, dest) = report
            BY <1>1, <1>2, <3>1 DEF AccountOf
        <3>3. AccountOf(out, dest) = NewVMOutputAccount
            BY <2>3 DEF AccountOf, Known
        <3>4. Begins(<<>>, <<0>>)
            <4>1. <<0>> \in Seq(Uint)
                BY ZeroIsWord
            <4> QED BY <4>1, BeginsItself
        <3> QED BY <2>3, <3>2, <3>3, <3>4 DEF NewVMOutputAccount
    <2> QED BY <2>1, <2>2, <2>3
<1>11. Logs(out, new)
    BY <1>10 DEF Logs
<1> QED BY <1>9, <1>11 DEF right

\* The output that a run begins with holds the value of its transaction.
LEMMA StartDeltas ==
    ASSUME NEW a \in Address, NEW v \in Nat
    PROVE  /\ SumDeltas(AddTxValueToAccount(NewVMOutput, a, v)) = v
           /\ Solvent(AddTxValueToAccount(NewVMOutput, a, v))
           /\ AddTxValueToAccount(NewVMOutput, a, v) \in VMOutput
           /\ \A b \in Address : LET x == AccountOf(AddTxValueToAccount(NewVMOutput, a, v), b)
                                 IN  x.nonce = 0 /\ x.transfers = <<>>
<1> DEFINE none == NewVMOutput
           new == WithAccount(none, a, [AccountOf(none, a) EXCEPT !.delta = v])
<1>1. none \in VMOutput /\ \A b \in Address : AccountOf(none, b) = NewVMOutputAccount
    BY NewVMOutputType DEF NewVMOutput, AccountOf
<1>2. AddTxValueToAccount(none, a, v) = new
    BY <1>1 DEF AddTxValueToAccount, NewVMOutputAccount
<1> HIDE DEF none
<1>3. /\ new \in VMOutput
      /\ \A b \in Address : AccountOf(new, b).delta = IF b = a THEN v ELSE AccountOf(none, b).delta
      /\ SumDeltas(new) = (SumDeltas(none) - AccountOf(none, a).delta) + v
    BY <1>1, DeltaChanges
<1>4. SumDeltas(none) = 0
    <2>1. Deltas(none) \in [Address -> Int] /\ \A b \in Address : Deltas(none)[b] = 0
        BY <1>1, DeltasType DEF Deltas, NewVMOutputAccount
    <2>2. IsFiniteSet(Address)
        BY VMHostAssumption
    <2>3. SumOf(Deltas(none)) = 0
        BY <2>1, <2>2, SumOfZero
    <2> QED BY <1>1, <2>3, SumDeltasIs
<1>5. SumDeltas(new) = v
    BY <1>1, <1>3, <1>4 DEF NewVMOutputAccount
<1>6. \A b \in Address : AccountOf(new, b).nonce = 0 /\ AccountOf(new, b).transfers = <<>>
    <2> DEFINE account == [AccountOf(none, a) EXCEPT !.delta = v]
    <2>1. account \in Account /\ account.nonce = 0 /\ account.transfers = <<>>
        <3> DEFINE empty == NewVMOutputAccount
        <3>1. empty \in Account /\ empty.nonce = 0 /\ empty.transfers = <<>>
            BY NewAccountType DEF NewVMOutputAccount
        <3>2. account = [empty EXCEPT !.delta = v]
            BY <1>1
        <3> HIDE DEF empty, account
        <3> QED BY <3>1, <3>2 DEF Account
    <2> HIDE DEF account
    <2>2. \A b \in Address : AccountOf(WithAccount(none, a, account), b) =
                IF b = a THEN account ELSE AccountOf(none, b)
        BY <1>1, <2>1, AccountsAfter
    <2>3. \A b \in Address : AccountOf(WithAccount(none, a, account), b).nonce = 0
                          /\ AccountOf(WithAccount(none, a, account), b).transfers = <<>>
        BY <1>1, <2>1, <2>2 DEF NewVMOutputAccount
    <2> QED BY <2>3 DEF account
<1>7. Solvent(new)
    <2> SUFFICES ASSUME NEW b \in DOMAIN ChainBalance PROVE BalanceOf(new, b) >= 0
        BY DEF Solvent
    <2>1. b \in Address /\ ChainBalance[b] \in Nat
        BY VMHostAssumption, KeptAddresses
    <2>2. AccountOf(new, b).delta \in Nat
        BY <1>1, <1>3, <2>1 DEF NewVMOutputAccount
    <2> HIDE DEF new
    <2> QED BY <2>1, <2>2 DEF BalanceOf
<1> HIDE DEF new
<1> QED BY <1>2, <1>3, <1>5, <1>6, <1>7 DEF none

-----------------------------------------------------------------------------
(* The inductive invariant, and the kinds of steps *)

\* No account of the output has spent more than it had, and its deltas add up to v.
Fair(out, v) == Solvent(out) /\ (~Creating => SumDeltas(out) = v)

\* The outputs of the calls in progress, innermost last, when the transaction
\* brought v: each one comes after those below it.
Sound(stack, out, v) ==
    /\ Fair(out, v)
    /\ \A k \in 1 .. Len(stack) : Fair(stack[k], v) /\ Evolves(stack[k], out)
    /\ \A k \in 1 .. Len(stack) : \A j \in 1 .. k - 1 : Evolves(stack[j], stack[k])

\* The value that the transaction brought.
Bring(stack, r) == (IF stack = <<>> THEN r ELSE stack[1]).callValue

\* The address of a contract that is being created is none of the chain's.
CreationFrame(call) ==
    call.hook = "createContract" => Creating /\ call.newAddress \in Address \ DOMAIN ChainCode

ValueInv ==
    /\ \A i \in DOMAIN calls : CreationFrame(calls[i])
    /\ phase # "idle" => Sound(outputStack, output, Bring(runtimeStack, runtime))

\* A step within a contract.
Within ==
    /\ phase # "idle" /\ phase' # "idle"
    /\ UNCHANGED <<calls, outputStack, runtimeStack>>
    /\ runtime'.callValue = runtime.callValue
    /\ Evolves(output, output')

\* A call.
Enters ==
    /\ phase # "idle" /\ phase' # "idle"
    /\ \E frame : CreationFrame(frame) /\ calls' = Append(calls, frame)
    /\ \E r : runtimeStack' = Append(runtimeStack, r) /\ r.callValue = runtime.callValue
    /\ \E out \in VMOutput : /\ outputStack' = Append(outputStack, CopyOf(out))
                             /\ Logs(output, out) /\ Evolves(out, output')

\* The end of a call.
Leaves ==
    /\ phase # "idle" /\ phase' # "idle"
    /\ calls # <<>> /\ outputStack # <<>> /\ runtimeStack # <<>>
    /\ calls' = Front(calls) /\ outputStack' = Front(outputStack)
    /\ runtimeStack' = Front(runtimeStack)
    /\ runtime'.callValue = Last(runtimeStack).callValue

\* ... that failed: the caller has its accounts back.
Aborts == Leaves /\ KeptSame(Last(outputStack), output')

\* ... that succeeded: the caller has the accounts of the callee.
Commits == Leaves /\ Evolves(output, output') /\ (~Creating => KeptSame(output, output'))

\* A run that begins, with the value of its transaction.
Starts ==
    /\ phase = "idle" /\ phase' # "idle"
    /\ outputStack' = <<>> /\ runtimeStack' = <<>>
    /\ \A i \in DOMAIN calls' : CreationFrame(calls'[i])
    /\ Fair(output', runtime'.callValue)
    /\ \A a \in Address : LET x == AccountOf(output', a) IN x.nonce = 0 /\ x.transfers = <<>>

\* A run that ends.
Ends ==
    /\ phase # "idle" /\ phase' = "idle" /\ calls' = <<>>
    /\ outputStack = <<>> /\ outputStack' = outputStack
    /\ SameEffects(output, output')

\* An output that evolves stays fair.
LEMMA FairEvolves ==
    ASSUME NEW out, NEW new, NEW v, Fair(out, v), Evolves(out, new)
    PROVE  Fair(new, v)
    BY DEF Fair, Evolves

\* The active output evolves.
LEMMA SoundWithin ==
    ASSUME NEW s \in Seq(VMOutput), NEW out \in VMOutput, NEW new \in VMOutput, NEW v,
           Sound(s, out, v), Evolves(out, new)
    PROVE  Sound(s, new, v)
<1>1. ASSUME NEW k \in 1 .. Len(s) PROVE Evolves(s[k], new)
    <2>1. s[k] \in VMOutput
        OBVIOUS
    <2>2. Evolves(s[k], out)
        BY DEF Sound
    <2> QED BY <2>1, <2>2, EvolvesTrans
<1>2. Fair(new, v)
    BY FairEvolves DEF Sound
<1> QED BY <1>1, <1>2 DEF Sound

\* The active output is saved, and evolves.
LEMMA SoundPush ==
    ASSUME NEW s \in Seq(VMOutput), NEW out \in VMOutput, NEW saved \in VMOutput,
           NEW new \in VMOutput, NEW v,
           Sound(s, out, v), Evolves(out, saved), Evolves(saved, new)
    PROVE  Sound(Append(s, saved), new, v)
<1> DEFINE t == Append(s, saved)
           n == Len(s)
<1>1. /\ n \in Nat /\ Len(t) = n + 1 /\ t[n + 1] = saved
      /\ \A k \in 1 .. n : t[k] = s[k]
    BY PushProperties
<1>2. Sound(s, saved, v)
    BY SoundWithin
<1>3. Sound(s, new, v)
    BY <1>2, SoundWithin
<1> HIDE DEF t
<1>4. ASSUME NEW k \in 1 .. n + 1 PROVE Fair(t[k], v) /\ Evolves(t[k], new)
    <2>1. CASE k \in 1 .. n
        BY <1>1, <1>3, <2>1 DEF Sound
    <2>2. CASE k = n + 1
        BY <1>1, <1>2, <2>2 DEF Sound
    <2> QED BY <1>1, <2>1, <2>2
<1>5. ASSUME NEW k \in 1 .. n + 1, NEW j \in 1 .. k - 1 PROVE Evolves(t[j], t[k])
    <2>1. j \in 1 .. n /\ t[j] = s[j]
        BY <1>1
    <2>2. CASE k \in 1 .. n
        BY <1>1, <1>3, <2>1, <2>2 DEF Sound
    <2>3. CASE k = n + 1
        BY <1>1, <1>2, <2>1, <2>3 DEF Sound
    <2> QED BY <1>1, <2>2, <2>3
<1>6. Fair(new, v)
    BY <1>3 DEF Sound
<1> QED BY <1>1, <1>4, <1>5, <1>6 DEF Sound, t

\* The innermost call is gone, with the output it began with or the one it made.
LEMMA SoundPop ==
    ASSUME NEW s \in Seq(VMOutput), s # <<>>, NEW out \in VMOutput, NEW v, Sound(s, out, v)
    PROVE  Sound(Front(s), Last(s), v) /\ Sound(Front(s), out, v)
<1> DEFINE t == Front(s)
           n == Len(s)
<1>1. /\ n \in Nat \ {0} /\ Len(t) = n - 1 /\ Last(s) = s[n]
      /\ \A k \in 1 .. n - 1 : t[k] = s[k]
    BY PopProperties
<1> HIDE DEF t
<1>2. ASSUME NEW k \in 1 .. n - 1
      PROVE  k \in 1 .. n /\ Fair(t[k], v) /\ Evolves(t[k], out) /\ Evolves(t[k], s[n])
    <2>1. k \in 1 .. n /\ n \in 1 .. n
        BY <1>1
    <2> QED BY <1>1, <2>1 DEF Sound
<1>3. ASSUME NEW k \in 1 .. n - 1, NEW j \in 1 .. k - 1 PROVE Evolves(t[j], t[k])
    <2>1. k \in 1 .. n /\ j \in 1 .. n - 1
        BY <1>1
    <2> QED BY <1>1, <2>1 DEF Sound
<1>4. Fair(out, v) /\ Fair(s[n], v)
    <2>1. n \in 1 .. n
        BY <1>1
    <2> QED BY <2>1 DEF Sound
<1> QED BY <1>1, <1>2, <1>3, <1>4 DEF Sound, t

\* A call does not change the value that the transaction brought.
LEMMA BringPush ==
    ASSUME NEW s, IsStack(s), NEW r, NEW top, NEW new, top.callValue = r.callValue
    PROVE  Bring(Append(s, top), new) = Bring(s, r)
<1>1. /\ Len(s) \in Nat /\ Len(Append(s, top)) = Len(s) + 1 /\ IsStack(Append(s, top))
      /\ \A k \in 1 .. Len(s) : Append(s, top)[k] = s[k]
      /\ Append(s, top)[Len(s) + 1] = top
    BY StackPush
<1>2. (s = <<>> <=> Len(s) = 0) /\ Append(s, top) # <<>>
    <2>1. s = <<>> <=> Len(s) = 0
        BY StackEmpty
    <2>2. Append(s, top) = <<>> <=> Len(Append(s, top)) = 0
        BY <1>1, StackEmpty
    <2> QED BY <1>1, <2>1, <2>2
<1>3. CASE s = <<>>
    <2>1. Append(s, top)[1] = top
        BY <1>1, <1>2, <1>3
    <2> QED BY <1>2, <1>3, <2>1 DEF Bring
<1>4. CASE s # <<>>
    <2>1. 1 \in 1 .. Len(s)
        BY <1>1, <1>2, <1>4
    <2> QED BY <1>1, <1>2, <1>4, <2>1 DEF Bring
<1> QED BY <1>3, <1>4

\* Neither does the end of a call.
LEMMA BringPop ==
    ASSUME NEW s, IsStack(s), s # <<>>, NEW r, NEW new, new.callValue = Last(s).callValue
    PROVE  Bring(Front(s), new) = Bring(s, r)
<1>1. /\ Len(s) \in Nat \ {0} /\ Len(Front(s)) = Len(s) - 1 /\ IsStack(Front(s))
      /\ \A k \in 1 .. Len(s) - 1 : Front(s)[k] = s[k]
      /\ Last(s) = s[Len(s)]
    BY StackPop
<1>2. Front(s) = <<>> <=> Len(s) = 1
    BY <1>1, StackEmpty
<1>3. CASE Len(s) = 1
    BY <1>1, <1>2, <1>3 DEF Bring
<1>4. CASE Len(s) # 1
    <2>1. 1 \in 1 .. Len(s) - 1
        BY <1>1, <1>4
    <2> QED BY <1>1, <1>2, <1>4, <2>1 DEF Bring
<1> QED BY <1>3, <1>4

\* Every kind of step keeps the outputs of the calls sound.
LEMMA StepSound ==
    ASSUME FramesInv, FramesInv', ValueInv,
           Within \/ Enters \/ Aborts \/ Commits \/ Starts \/ Ends
    PROVE  ValueInv'
<1>1. /\ output \in VMOutput /\ outputStack \in Seq(VMOutput)
      /\ IsStack(calls) /\ IsStack(runtimeStack)
    BY DEF FramesInv, HostInv, TypeOK, AlignedInv
<1>2. output' \in VMOutput /\ outputStack' \in Seq(VMOutput)
    BY DEF FramesInv, HostInv, TypeOK
<1> DEFINE v == Bring(runtimeStack, runtime)
<1>3. \A i \in DOMAIN calls : CreationFrame(calls[i])
    BY DEF ValueInv
<1>4. phase # "idle" => Sound(outputStack, output, v)
    BY DEF ValueInv
<1> HIDE DEF v
<1>5. CASE Within
    <2>1. Sound(outputStack, output', v)
        BY <1>1, <1>2, <1>4, <1>5, SoundWithin DEF Within
    <2>2. Bring(runtimeStack', runtime') = v
        BY <1>5 DEF Within, Bring, v
    <2> QED BY <1>3, <1>5, <2>1, <2>2 DEF Within, ValueInv
<1>6. CASE Enters
    <2>1. PICK out \in VMOutput : /\ outputStack' = Append(outputStack, CopyOf(out))
                                  /\ Logs(output, out) /\ Evolves(out, output')
        BY <1>6 DEF Enters
    <2>2. CopyOf(out) \in VMOutput /\ CopyOf(out).accounts = out.accounts
        BY CopyOfSaves DEF Saves
    <2>3. Evolves(output, CopyOf(out)) /\ Evolves(CopyOf(out), output')
        <3>1. Evolves(out, CopyOf(out)) /\ Evolves(CopyOf(out), out)
            BY <2>2, SameAccountsEvolve
        <3>2. Evolves(output, out)
            BY <1>1, <2>1, LogsEvolve
        <3> QED BY <1>1, <1>2, <2>1, <2>2, <3>1, <3>2, EvolvesTrans
    <2>4. Sound(outputStack', output', v)
        <3> DEFINE saved == CopyOf(out)
        <3> HIDE DEF saved
        <3>1. saved \in VMOutput /\ Evolves(output, saved) /\ Evolves(saved, output')
            BY <2>2, <2>3 DEF saved
        <3>2. Sound(outputStack, output, v)
            BY <1>4, <1>6 DEF Enters
        <3>3. Sound(Append(outputStack, saved), output', v)
            BY <1>1, <1>2, <3>1, <3>2, SoundPush
        <3> QED BY <2>1, <3>3 DEF saved
    <2>5. Bring(runtimeStack', runtime') = v
        BY <1>1, <1>6, BringPush DEF Enters, v
    <2>6. \A i \in DOMAIN calls' : CreationFrame(calls'[i])
        <3>1. PICK frame : CreationFrame(frame) /\ calls' = Append(calls, frame)
            BY <1>6 DEF Enters
        <3>2. /\ Len(calls) \in Nat /\ DOMAIN calls = 1 .. Len(calls)
              /\ DOMAIN Append(calls, frame) = 1 .. Len(calls) + 1
              /\ \A k \in 1 .. Len(calls) : Append(calls, frame)[k] = calls[k]
              /\ Append(calls, frame)[Len(calls) + 1] = frame
            BY <1>1, StackPush
        <3>3. ASSUME NEW i \in 1 .. Len(calls) + 1 PROVE CreationFrame(Append(calls, frame)[i])
            <4>1. i \in 1 .. Len(calls) \/ i = Len(calls) + 1
                BY <3>2
            <4> QED BY <1>3, <3>1, <3>2, <4>1
        <3> QED BY <3>1, <3>2, <3>3
    <2> QED BY <2>4, <2>5, <2>6 DEF ValueInv
<1>7. CASE Aborts \/ Commits
    <2>1. Leaves
        BY <1>7 DEF Aborts, Commits
    <2>2. outputStack # <<>> /\ Sound(outputStack, output, v)
        BY <1>4, <2>1 DEF Leaves
    <2>3. Sound(Front(outputStack), Last(outputStack), v) /\ Sound(Front(outputStack), output, v)
        BY <1>1, <2>2, SoundPop
    <2>4. Front(outputStack) \in Seq(VMOutput) /\ Last(outputStack) \in VMOutput
        BY <1>1, <2>2, PopProperties
    <2>5. Sound(Front(outputStack), output', v)
        <3>1. CASE Aborts
            <4>1. Evolves(Last(outputStack), output')
                BY <1>2, <2>4, <3>1, KeptSameEvolves DEF Aborts
            <4> QED BY <1>2, <2>3, <2>4, <4>1, SoundWithin
        <3>2. CASE Commits
            BY <1>1, <1>2, <2>3, <2>4, <3>2, SoundWithin DEF Commits
        <3> QED BY <1>7, <3>1, <3>2
    <2>6. Bring(runtimeStack', runtime') = v
        BY <1>1, <2>1, BringPop DEF Leaves, v
    <2>7. \A i \in DOMAIN calls' : CreationFrame(calls'[i])
        <3>1. /\ DOMAIN calls = 1 .. Len(calls) /\ DOMAIN Front(calls) = 1 .. Len(calls) - 1
              /\ Len(calls) \in Nat
              /\ \A k \in 1 .. Len(calls) - 1 : Front(calls)[k] = calls[k]
            BY <1>1, <2>1, StackPop DEF Leaves
        <3>2. calls' = Front(calls)
            BY <2>1 DEF Leaves
        <3>3. ASSUME NEW i \in 1 .. Len(calls) - 1 PROVE CreationFrame(Front(calls)[i])
            <4>1. i \in DOMAIN calls
                BY <3>1
            <4> QED BY <1>3, <3>1, <4>1
        <3> QED BY <3>1, <3>2, <3>3
    <2>8. outputStack' = Front(outputStack)
        BY <2>1 DEF Leaves
    <2> QED BY <2>5, <2>6, <2>7, <2>8 DEF ValueInv
<1>8. CASE Starts
    <2>1. Fair(output', runtime'.callValue) /\ Bring(runtimeStack', runtime') = runtime'.callValue
        BY <1>8 DEF Starts, Bring
    <2>2. Len(outputStack') = 0
        BY <1>8 DEF Starts
    <2>3. Sound(outputStack', output', runtime'.callValue)
        BY <2>1, <2>2 DEF Sound
    <2> QED BY <1>8, <2>1, <2>3 DEF Starts, ValueInv
<1>9. CASE Ends
    <2>1. DOMAIN calls' = {} /\ phase' = "idle"
        BY <1>9 DEF Ends
    <2> QED BY <2>1 DEF ValueInv
<1> QED BY <1>5, <1>6, <1>7, <1>8, <1>9

-----------------------------------------------------------------------------
(* Calls *)

\* What an API function does to the outputs.
Calls == Within \/ Enters

\* FailExecution.
LEMMA FaultWithin ==
    ASSUME FramesInv, phase = "running", NEW out \in VMOutput, Evolves(output, out),
           NEW m, NEW w, NEW id, Fault(out, m, w, id),
           UNCHANGED <<calls, outputStack, runtimeVars>>
    PROVE  Within
<1>1. output \in VMOutput
    BY ActiveTypes
<1>2. output' = [out EXCEPT !.returnCode = "ExecutionFailed"] /\ phase' = "finish"
    BY DEF Fault
<1>3. output' \in VMOutput /\ output'.accounts = out.accounts
    <2>1. output' \in VMOutput
        BY <1>2, ReturnCodeType DEF ReturnCodes
    <2>2. [out EXCEPT !.returnCode = "ExecutionFailed"].accounts = out.accounts
        BY DEF VMOutput
    <2> QED BY <1>2, <2>1, <2>2
<1>4. Evolves(output, output')
    BY <1>1, <1>3, SameAccountsEvolve, EvolvesTrans
<1> QED BY <1>2, <1>4 DEF Within, runtimeVars

\* The output as it is.
LEMMA EvolvesItself ==
    ASSUME NEW out \in VMOutput PROVE Evolves(out, out) /\ Logs(out, out)
    BY SameAccountsEvolve, SameAccountsEffects, SameEffectsLog

\* An API function returns to the contract.
LEMMA HookWithin ==
    ASSUME phase = "running", NEW value, HookReturns(value), Evolves(output, output'),
           UNCHANGED <<outputStack, runtimeVars>>
    PROVE  Within
    BY DEF Within, HookReturns, runtimeVars

\* The contexts that every call pushes, and the transfer to the callee.
LEMMA EnterEnters ==
    ASSUME FramesInv, phase = "running", NEW frame, CreationFrame(frame),
           NEW input \in Execution, NEW r, r.callValue = runtime.callValue,
           NEW out \in VMOutput, Logs(output, out),
           NEW calleeOut \in VMOutput, calleeOut.accounts = out.accounts, NEW m, NEW w,
           EnterCallee(frame, input, r, out, calleeOut, m, w)
    PROVE  Enters
<1> DEFINE moved == MoveValue(calleeOut, input.scAddress, input.caller, input.callValue)
<1>1. input.scAddress \in Address /\ input.caller \in Address /\ input.callValue \in Nat
    BY DEF Execution, Runtime
<1>2. moved \in VMOutput
    BY <1>1, MoveValueType
<1>3. Evolves(out, calleeOut)
    BY SameAccountsEvolve
<1>4. HasSufficientBalance(calleeOut, input.caller, input.callValue) => Evolves(calleeOut, moved)
    BY <1>1, MoveValueEvolves
<1>5. output' = IF HasSufficientBalance(calleeOut, input.caller, input.callValue)
                THEN moved ELSE calleeOut
    BY DEF EnterCallee
<1> HIDE DEF moved
<1>6. Evolves(out, output')
    <2>1. CASE HasSufficientBalance(calleeOut, input.caller, input.callValue)
        BY <1>2, <1>3, <1>4, <1>5, <2>1, EvolvesTrans
    <2>2. CASE ~HasSufficientBalance(calleeOut, input.caller, input.callValue)
        BY <1>3, <1>5, <2>2
    <2> QED BY <2>1, <2>2
<1>7. /\ calls' = Append(calls, frame) /\ runtimeStack' = Append(runtimeStack, r)
      /\ outputStack' = Append(outputStack, CopyOf(out)) /\ phase' # "idle"
    BY DEF EnterCallee
<1> QED BY <1>6, <1>7 DEF Enters

\* ExecuteOnDestContext.
LEMMA DestEnters ==
    ASSUME FramesInv, phase = "running", NEW frame, CreationFrame(frame),
           NEW input \in Execution, NEW out \in VMOutput, Logs(output, out), NEW m, NEW w,
           ExecuteOnDestContext(frame, input, out, m, w)
    PROVE  Enters
<1>1. CensorVMOutput(out) \in VMOutput /\ CensorVMOutput(out).accounts = out.accounts
    BY CensorType DEF CensorVMOutput, VMOutput
<1>2. EnterCallee(frame, input, runtime, out, CensorVMOutput(out), m, w)
    BY DEF ExecuteOnDestContext
<1> QED BY <1>1, <1>2, EnterEnters

\* ExecuteOnSameContext.
LEMMA SameEnters ==
    ASSUME FramesInv, phase = "running", NEW frame, CreationFrame(frame),
           NEW input \in Execution, NEW r, r.callValue = runtime.callValue, NEW w,
           ExecuteOnSameContext(frame, input, r, w)
    PROVE  Enters
<1>1. output \in VMOutput /\ Logs(output, output)
    BY ActiveTypes, EvolvesItself
<1>2. EnterCallee(frame, input, r, output, output, metering, w)
    BY DEF ExecuteOnSameContext
<1> QED BY <1>1, <1>2, EnterEnters

\* A frame that creates no contract.
LEMMA PlainFrame ==
    ASSUME NEW kind, NEW hook, hook # "createContract" PROVE CreationFrame(Frame(kind, hook))
    BY DEF CreationFrame, Frame

\* executeOnDestContext and the functions like it.
LEMMA CallHookValue ==
    ASSUME FramesInv, NEW dest \in Address, NEW value \in Nat, NEW limit \in Uint,
           NEW function, NEW code, IsInvocation(function, code),
           \/ ExecuteOnDestContextHook(dest, value, limit, function, code)
           \/ ExecuteOnDestContextByCallerHook(dest, value, limit, function, code)
           \/ ExecuteOnSameContextHook(dest, value, limit, function, code)
           \/ DelegateExecutionHook(dest, limit, function, code)
           \/ ExecuteReadOnlyHook(dest, limit, function, code)
    PROVE  Calls
<1> DEFINE input(sender, v) == IndirectInput(sender, dest, v, limit, function, code)
<1>1. phase = "running" /\ function \in ContractFunctions
    BY DEF ExecuteOnDestContextHook, ExecuteOnDestContextByCallerHook,
        ExecuteOnSameContextHook, DelegateExecutionHook, ExecuteReadOnlyHook, Running
<1>2. /\ output \in VMOutput /\ Logs(output, output) /\ runtime \in Runtime
      /\ runtime.scAddress \in Address /\ runtime.caller \in Address /\ runtime.callValue \in Nat
    BY <1>1, ActiveTypes, EvolvesItself
<1>3. /\ input(runtime.scAddress, value) \in Execution
      /\ input(runtime.caller, value) \in Execution
      /\ input(runtime.scAddress, runtime.callValue) \in Execution
    BY <1>1, <1>2, IndirectType
<1> HIDE DEF input
<1>4. CASE ExecuteOnDestContextHook(dest, value, limit, function, code)
    <2> DEFINE frame == Frame("dest", "executeOnDestContext")
    <2>1. CreationFrame(frame)
        BY PlainFrame
    <2>2. ExecuteOnDestContext(frame, input(runtime.scAddress, value), output, metering, Charged)
        BY <1>4 DEF ExecuteOnDestContextHook, input
    <2> HIDE DEF frame
    <2> QED BY <1>1, <1>2, <1>3, <2>1, <2>2, DestEnters DEF Calls
<1>5. CASE ExecuteOnDestContextByCallerHook(dest, value, limit, function, code)
    <2> DEFINE frame == Frame("dest", "executeOnDestContextByCaller")
    <2>1. CreationFrame(frame)
        BY PlainFrame
    <2>2. ExecuteOnDestContext(frame, input(runtime.caller, value), output, metering, Charged)
        BY <1>5 DEF ExecuteOnDestContextByCallerHook, input
    <2> HIDE DEF frame
    <2> QED BY <1>1, <1>2, <1>3, <2>1, <2>2, DestEnters DEF Calls
<1>6. CASE ExecuteOnSameContextHook(dest, value, limit, function, code)
    <2> DEFINE frame == Frame("same", "executeOnSameContext")
    <2>1. CreationFrame(frame)
        BY PlainFrame
    <2>2. ExecuteOnSameContext(frame, input(runtime.scAddress, value), runtime, Charged)
        BY <1>6 DEF ExecuteOnSameContextHook, input
    <2> HIDE DEF frame
    <2> QED BY <1>1, <1>3, <2>1, <2>2, SameEnters DEF Calls
<1>7. CASE DelegateExecutionHook(dest, limit, function, code)
    <2> DEFINE frame == Frame("same", "delegateExecution")
    <2>1. CreationFrame(frame)
        BY PlainFrame
    <2>2. ExecuteOnSameContext(frame, input(runtime.scAddress, runtime.callValue), runtime, Charged)
        BY <1>7 DEF DelegateExecutionHook, input
    <2> HIDE DEF frame
    <2> QED BY <1>1, <1>3, <2>1, <2>2, SameEnters DEF Calls
<1>8. CASE ExecuteReadOnlyHook(dest, limit, function, code)
    <2> DEFINE frame == Frame("same", "executeReadOnly")
               r == [runtime EXCEPT !.readOnly = TRUE]
    <2>1. CreationFrame(frame)
        BY PlainFrame
    <2>2. ExecuteOnSameContext(frame, input(runtime.scAddress, runtime.callValue), r, Charged)
        BY <1>8 DEF ExecuteReadOnlyHook, input
    <2>3. r.callValue = runtime.callValue
        BY <1>2 DEF Runtime
    <2> HIDE DEF frame, r
    <2> QED BY <1>1, <1>3, <2>1, <2>2, <2>3, SameEnters DEF Calls
<1> QED BY <1>4, <1>5, <1>6, <1>7, <1>8

\* The API functions that refuse their arguments.
LEMMA RefusedValue ==
    ASSUME FramesInv, NEW hook, NEW dest,
           \/ BadArguments(hook)
           \/ SyncCallToOtherShard(hook, dest)
           \/ RefuseBuiltinFunction(hook)
    PROVE  Calls
<1>1. phase = "running"
    BY DEF BadArguments, SyncCallToOtherShard, RefuseBuiltinFunction, Running
<1>2. output \in VMOutput /\ Evolves(output, output)
    BY <1>1, ActiveTypes, EvolvesItself
<1>3. CASE BadArguments(hook) \/ SyncCallToOtherShard(hook, dest)
    <2>1. /\ Fault(output, metering, Charged, instance)
          /\ UNCHANGED <<calls, outputStack, runtimeVars>>
        BY <1>3 DEF BadArguments, SyncCallToOtherShard
    <2> QED BY <1>1, <1>2, <2>1, FaultWithin DEF Calls
<1>4. CASE RefuseBuiltinFunction(hook)
    <2>1. HookReturns(1) /\ UNCHANGED <<output, outputStack, runtimeVars>>
        BY <1>4 DEF RefuseBuiltinFunction, outputVars
    <2> QED BY <1>1, <1>2, <2>1, HookWithin DEF Calls
<1> QED BY <1>3, <1>4

\* The built-in functions of the protocol.
LEMMA BuiltinValue ==
    ASSUME FramesInv, NEW dest \in Address, NEW limit \in Uint,
           \/ BuiltinFunctionFails(dest, limit)
           \/ BuiltinFunctionDone(dest, limit)
           \/ BuiltinFunctionRefused(dest, limit)
           \/ BuiltinFunctionThenCall(dest, limit)
    PROVE  Calls
<1> DEFINE input == IndirectInput(runtime.scAddress, dest, 0, limit, "call", NoCode)
           added == AddToActiveState(output, BuiltinOutput(dest))
<1>1. phase = "running"
    BY DEF BuiltinFunctionFails, BuiltinFunctionDone, BuiltinFunctionRefused,
           BuiltinFunctionThenCall, Running
<1>2. /\ output \in VMOutput /\ metering \in Metering /\ runtime.scAddress \in Address
      /\ BuiltinCost \in Uint
    BY <1>1, ActiveTypes, VMHostAssumption
<1>3. added \in VMOutput /\ Logs(output, added)
    BY <1>2, BuiltinOutputType, AddToActiveType, AddToActiveLogs
<1> HIDE DEF added
<1>4. Evolves(output, added)
    BY <1>2, <1>3, LogsEvolve
<1>5. CASE BuiltinFunctionFails(dest, limit)
    <2> DEFINE account == AccountOf(output, runtime.scAddress)
               failed == WithAccount(output, runtime.scAddress,
                    [account EXCEPT !.gasUsed = AddUint64(@, metering.initialGasProvided)])
               w == UseGas(Charged, instance, input.gasProvided)
    <2>1. metering.initialGasProvided \in Uint
        BY <1>2 DEF Metering
    <2>2. failed \in VMOutput
        <3>1. account \in Account
            BY <1>2, AccountOfType
        <3> HIDE DEF account
        <3>2. [account EXCEPT !.gasUsed = AddUint64(@, metering.initialGasProvided)] \in Account
            BY <2>1, <3>1, GasUsedType
        <3> QED BY <1>2, <3>2, WithAccountType
    <2>3. SameEffects(output, failed)
        BY <1>2, <2>1, AddGasEffects
    <2>4. Evolves(output, failed)
        <3> HIDE DEF failed
        <3> QED BY <1>2, <2>2, <2>3, SameEffectsEvolve
    <2>5. /\ Fault(failed, metering, w, instance)
          /\ UNCHANGED <<calls, outputStack, runtimeVars>>
        BY <1>5 DEF BuiltinFunctionFails
    <2> HIDE DEF failed, w
    <2> QED BY <1>1, <2>2, <2>4, <2>5, FaultWithin DEF Calls
<1>6. CASE BuiltinFunctionDone(dest, limit)
    <2>1. output' = added /\ HookReturns(0) /\ UNCHANGED <<outputStack, runtimeVars>>
        BY <1>6 DEF BuiltinFunctionDone, added
    <2> QED BY <1>1, <1>4, <2>1, HookWithin DEF Calls
<1>7. CASE BuiltinFunctionThenCall(dest, limit)
    <2> DEFINE frame == Frame("dest", "executeOnDestContext")
               rest == [input EXCEPT !.gasProvided = input.gasProvided - BuiltinCost]
               used == UseGas(Charged, instance, BuiltinCost)
    <2>1. CreationFrame(frame)
        BY PlainFrame
    <2>2. /\ ExecuteOnDestContext(frame, rest, added, metering, used)
          /\ input.gasProvided >= BuiltinCost
        BY <1>7 DEF BuiltinFunctionThenCall, added
    <2>3. input \in Execution /\ input.gasProvided \in Uint
        <3>1. IsInvocation("call", NoCode) /\ "call" \in ContractFunctions
            BY DEF IsInvocation, FunctionNames, ContractFunctions
        <3>2. input \in Execution
            BY <1>1, <1>2, <3>1, IndirectType
        <3> QED BY <3>2 DEF Execution, Runtime
    <2> HIDE DEF input
    <2>4. input.gasProvided - BuiltinCost \in Uint
        BY <1>2, <2>2, <2>3, MaxUintAssumption DEF Uint
    <2>5. rest \in Execution
        BY <2>3, <2>4, LessGasType
    <2> HIDE DEF frame, rest, used
    <2> QED BY <1>1, <1>3, <2>1, <2>2, <2>5, DestEnters DEF Calls
<1>8. CASE BuiltinFunctionRefused(dest, limit)
    <2> DEFINE refused == AddToActiveState(output, RefusedOutput)
    <2>1. refused \in VMOutput
        BY <1>2, RefusedOutputType, AddToActiveType
    <2>2. refused.accounts = output.accounts
        BY <1>2, RefusedEffects
    <2>3. output' = refused /\ HookReturns(0) /\ UNCHANGED <<outputStack, runtimeVars>>
        BY <1>8 DEF BuiltinFunctionRefused
    <2> HIDE DEF refused
    <2>4. Evolves(output, refused)
        BY <1>2, <2>1, <2>2, SameAccountsEffects, SameEffectsEvolve
    <2> QED BY <1>1, <2>3, <2>4, HookWithin DEF Calls
<1> QED BY <1>5, <1>6, <1>7, <1>8

-----------------------------------------------------------------------------
(* The other API functions *)

\* output.Transfer.
LEMMA TransferValueStep ==
    ASSUME FramesInv, phase = "running", NEW dest \in Address, NEW value \in Nat, NEW gas \in Uint,
           Transfer(dest, value, gas)
    PROVE  Within
<1> DEFINE moved == MoveValue(output, dest, runtime.scAddress, value)
<1>1. output \in VMOutput /\ runtime.scAddress \in Address
    BY ActiveTypes
<1>2. UNCHANGED <<outputStack, runtimeVars>>
    BY DEF Transfer
<1>3. CASE /\ HasSufficientBalance(output, runtime.scAddress, value)
           /\ output' = AppendTransfer(moved, dest, gas) /\ HookReturns(0)
    <2>1. moved \in VMOutput /\ Evolves(output, moved)
        BY <1>1, <1>3, MoveValueType, MoveValueEvolves
    <2> HIDE DEF moved
    <2>2. /\ AppendTransfer(moved, dest, gas) \in VMOutput
          /\ Evolves(moved, AppendTransfer(moved, dest, gas))
        BY <2>1, AppendTransferType, AppendTransferLogs, LogsEvolve
    <2>3. Evolves(output, output')
        BY <1>1, <1>3, <2>1, <2>2, EvolvesTrans
    <2> QED BY <1>2, <1>3, <2>3, HookWithin
<1>4. CASE Fault(output, metering, Charged, instance) /\ UNCHANGED calls
    BY <1>1, <1>2, <1>4, EvolvesItself, FaultWithin
<1> QED BY <1>3, <1>4 DEF Transfer

\* transferValue and transferValueExecute.
LEMMA TransferHookValue ==
    ASSUME FramesInv, NEW dest \in Address, NEW value \in Nat, NEW limit \in Uint,
           NEW function, NEW code, IsInvocation(function, code),
           \/ TransferValueHook(dest, value)
           \/ TransferValueExecuteHook(dest, value, limit, function, code)
    PROVE  Calls
<1> DEFINE input == IndirectInput(runtime.scAddress, dest, value, limit, function, code)
           frame == Frame("dest", "transferValueExecute")
<1>1. phase = "running" /\ 0 \in Uint
    BY ZeroIsWord DEF TransferValueHook, TransferValueExecuteHook, Running
<1>2. CASE TransferValueHook(dest, value)
    BY <1>1, <1>2, TransferValueStep DEF TransferValueHook, Calls
<1>3. CASE Transfer(dest, value, limit)
    BY <1>1, <1>3, TransferValueStep DEF Calls
<1>4. CASE /\ function # "builtin" /\ function # "none"
           /\ ExecuteOnDestContext(frame, input, output, metering, Charged)
    <2>1. CreationFrame(frame)
        BY PlainFrame
    <2>2. output \in VMOutput /\ Logs(output, output) /\ runtime.scAddress \in Address
        BY <1>1, ActiveTypes, EvolvesItself
    <2>3. function \in ContractFunctions
        BY <1>4 DEF IsInvocation, FunctionNames
    <2>4. input \in Execution
        BY <1>1, <2>2, <2>3, IndirectType
    <2> HIDE DEF frame, input
    <2> QED BY <1>1, <1>4, <2>1, <2>2, <2>4, DestEnters DEF Calls
<1> QED BY <1>2, <1>3, <1>4 DEF TransferValueExecuteHook

\* transferESDTExecute.
LEMMA ESDTHookValue ==
    ASSUME FramesInv, NEW dest \in Address, NEW limit \in Uint,
           NEW function, NEW code, IsInvocation(function, code),
           \/ TransferESDTFails(dest, limit, function, code)
           \/ TransferESDTExecuteHook(dest, limit, function, code)
    PROVE  Calls
<1> DEFINE input == IndirectInput(runtime.scAddress, dest, 0, limit, function, code)
           execution == ESDTExecution(dest, function)
           gas == IF execution THEN input.gasProvided - BuiltinCost ELSE 0
           transferred == UseGas(Charged, instance, BuiltinCost)
           sentAway == IF dest \in LocalAddress THEN 0 ELSE gas
           sent == AppendTransfer(output, dest, sentAway)
           out == [sent EXCEPT !.logs = @ + 1]
<1>1. phase = "running"
    BY DEF TransferESDTFails, TransferESDTExecuteHook, Running
<1>2. output \in VMOutput /\ runtime.scAddress \in Address /\ BuiltinCost \in Uint
    BY <1>1, ActiveTypes, VMHostAssumption
<1>3. CASE TransferESDTFails(dest, limit, function, code)
    <2>1. /\ Fault(output, metering, Charged, instance)
          /\ UNCHANGED <<calls, outputStack, runtimeVars>>
        BY <1>3 DEF TransferESDTFails
    <2> QED BY <1>1, <1>2, <2>1, EvolvesItself, FaultWithin DEF Calls
<1>4. CASE TransferESDTExecuteHook(dest, limit, function, code)
    <2>1. input.gasProvided \in Uint
        BY <1>1, IndirectGasType DEF IndirectInput, Input
    <2>2. CanTransferESDT(input, execution) /\ function # "builtin"
        BY <1>4 DEF TransferESDTExecuteHook
    <2>3. gas \in Uint
        <3>1. CASE execution
            <4>1. BuiltinCost <= input.gasProvided
                BY <2>2, <3>1 DEF CanTransferESDT
            <4>2. input.gasProvided - BuiltinCost \in Uint
                <5> HIDE DEF input
                <5> QED BY <1>2, <2>1, <4>1, MaxUintAssumption DEF Uint
            <4> QED BY <3>1, <4>2
        <3>2. CASE ~execution
            BY <3>2, ZeroIsWord
        <3> QED BY <3>1, <3>2
    <2>4. sentAway \in Uint
        BY <2>3, ZeroIsWord
    <2> HIDE DEF gas, sentAway
    <2>5. sent \in VMOutput /\ Logs(output, sent)
        BY <1>2, <2>4, AppendTransferType, AppendTransferLogs
    <2> HIDE DEF sent
    <2>6. out \in VMOutput /\ out.accounts = sent.accounts
        BY <2>5 DEF VMOutput
    <2> HIDE DEF out
    <2>7. Logs(output, out)
        BY <2>5, <2>6 DEF Logs, Known, AccountOf
    <2>8. CASE execution /\ dest \in LocalAddress
        <3> DEFINE frame == Frame("dest", "transferESDTExecute")
                   rest == [input EXCEPT !.gasProvided = gas]
        <3>1. CreationFrame(frame)
            BY PlainFrame
        <3>2. function \in ContractFunctions
            BY <2>2, <2>8 DEF ESDTExecution, IsInvocation, FunctionNames
        <3>3. input \in Execution
            BY <1>1, <1>2, <3>2, IndirectType
        <3>4. ExecuteOnDestContext(frame, rest, out, metering, transferred)
            BY <1>4, <2>8 DEF TransferESDTExecuteHook, out, sent, sentAway, gas
        <3> HIDE DEF input, frame
        <3>5. rest \in Execution
            BY <2>3, <3>3, LessGasType
        <3> HIDE DEF rest, transferred
        <3> QED BY <1>1, <2>6, <2>7, <3>1, <3>4, <3>5, DestEnters DEF Calls
    <2>9. CASE ~(execution /\ dest \in LocalAddress)
        <3>1. output' = out /\ HookReturns(0) /\ UNCHANGED <<outputStack, runtimeVars>>
            BY <1>4, <2>9 DEF TransferESDTExecuteHook, out, sent, sentAway, gas
        <3>2. Evolves(output, output')
            BY <1>2, <2>6, <2>7, <3>1, LogsEvolve
        <3> QED BY <1>1, <3>1, <3>2, HookWithin DEF Calls
    <2> QED BY <2>8, <2>9
<1> QED BY <1>3, <1>4

\* CreateNewContract: the new contract begins, or the creation is refused.
LEMMA CreateValue ==
    ASSUME FramesInv, phase = "running", Creating, NEW out \in VMOutput, SameEffects(output, out),
           NEW code \in Code, NEW value \in Nat, NEW limit \in Uint,
           CreateNewContract(out, code, value, limit)
    PROVE  Calls
<1> DEFINE sender == runtime.scAddress
           cost == CompileCost[code]
           payable == CanDeductInitialGas(runtime.gasProvided, cost)
           deducted == IF payable THEN DeductInitialGas(metering, runtime.gasProvided, cost)
                       ELSE metering
           newAddress == NewAddressOf[sender, NonceOf(out, sender)]
           input == IndirectInput(sender, newAddress, value, limit, "init", NoCode)
           frame == [kind |-> "dest", hook |-> "createContract", newAddress |-> newAddress]
           installed == SetCode(out, newAddress, code)
<1>1. output \in VMOutput /\ runtime.scAddress \in Address
    BY ActiveTypes
<1>2. newAddress \in Address
    <2>1. AccountOf(out, sender) \in Account
        BY <1>1, AccountOfType
    <2>2. NonceOf(out, sender) \in Nat
        BY <2>1 DEF NonceOf, Account
    <2>3. NonceOf(out, sender) <= MaxNonce
        BY Zenon DEF CreateNewContract
    <2>4. NonceOf(out, sender) \in 0 .. MaxNonce
        BY <2>2, <2>3, VMHostAssumption
    <2>5. NewAddressOf \in [Address \X (0 .. MaxNonce) -> Address]
        BY VMHostAssumption
    <2> QED BY <1>1, <2>4, <2>5, Zenon
<1>3. CASE /\ newAddress \notin DOMAIN ChainCode
           /\ ExecuteOnDestContext(frame, input, installed, deducted, Charged)
    <2> HIDE DEF newAddress
    <2>1. input \in Execution
        <3>1. IsInvocation("init", NoCode) /\ "init" \in ContractFunctions
            BY DEF IsInvocation, FunctionNames, ContractFunctions
        <3> QED BY <1>1, <1>2, <3>1, IndirectType
    <2>2. CreationFrame(frame)
        BY <1>2, <1>3 DEF CreationFrame
    <2>3. installed \in VMOutput /\ SameEffects(out, installed)
        BY <1>2, SetCodeType, SetCodeEffects
    <2> HIDE DEF frame, input, installed, deducted
    <2>4. SameEffects(output, installed)
        BY <2>3, SameEffectsTrans
    <2>5. Logs(output, installed)
        BY <1>1, <2>3, <2>4, SameEffectsLog
    <2> QED BY <1>3, <2>1, <2>2, <2>3, <2>5, DestEnters DEF Calls
<1>4. CASE output' = out /\ HookReturns(1) /\ UNCHANGED <<outputStack, runtimeVars>>
    <2>1. Evolves(output, output')
        BY <1>1, <1>4, SameEffectsEvolve
    <2> QED BY <1>4, <2>1, HookWithin DEF Calls
<1>5. \/ /\ newAddress \notin DOMAIN ChainCode
         /\ ExecuteOnDestContext(frame, input, installed, deducted, Charged)
      \/ output' = out /\ HookReturns(1) /\ UNCHANGED <<outputStack, runtimeVars>>
    BY Zenon DEF CreateNewContract
<1> HIDE DEF newAddress, frame, input, installed, deducted
<1> QED BY <1>3, <1>4, <1>5

\* createContract and deployFromSourceContract.
LEMMA CreateHookValue ==
    ASSUME FramesInv, NEW value \in Nat, NEW limit \in Uint,
           \/ \E code \in Code : CreateContractHook(code, value, limit)
           \/ \E source \in Address : DeployFromSourceContractHook(source, value, limit)
    PROVE  Calls
<1>1. phase = "running" /\ Creating
    BY DEF CreateContractHook, DeployFromSourceContractHook, Running, Creating
<1>2. output \in VMOutput /\ SameEffects(output, output)
    BY <1>1, ActiveTypes, SameAccountsEffects
<1>3. ASSUME NEW code \in Code, CreateContractHook(code, value, limit) PROVE Calls
    BY <1>1, <1>2, <1>3, CreateValue DEF CreateContractHook
<1>4. ASSUME NEW source \in Address, DeployFromSourceContractHook(source, value, limit)
      PROVE  Calls
    <2> DEFINE code == GetCode(output, source)
               cached == SetCode(output, source, code)
    <2>1. code \in Code \cup {NoCode}
        BY <1>2, GetCodeType
    <2>2. cached \in VMOutput /\ SameEffects(output, cached)
        <3> HIDE DEF code
        <3> QED BY <1>2, <2>1, SetCodeType, SetCodeEffects
    <2>3. CASE code # NoCode
        <3>1. CreateNewContract(cached, code, value, limit)
            BY <1>4, <2>3 DEF DeployFromSourceContractHook
        <3>2. code \in Code
            BY <2>1, <2>3
        <3> HIDE DEF code, cached
        <3> QED BY <1>1, <2>2, <3>1, <3>2, CreateValue
    <2>4. CASE code = NoCode
        <3>1. /\ Fault(cached, metering, Charged, instance)
              /\ UNCHANGED <<calls, outputStack, runtimeVars>>
            BY <1>4, <2>4 DEF DeployFromSourceContractHook
        <3> HIDE DEF cached
        <3>2. Evolves(output, cached)
            BY <1>2, <2>2, SameEffectsEvolve
        <3> QED BY <1>1, <2>2, <3>1, <3>2, FaultWithin DEF Calls
    <2> QED BY <2>3, <2>4
<1> QED BY <1>3, <1>4

\* storageStore.
LEMMA StoreHookValue ==
    ASSUME FramesInv, FramesInv', NEW value \in Value, StorageStoreHook(value) PROVE Calls
<1> DEFINE old == GetStorage(output, address)
           stored == SetCell(output, address, value)
<1>1. phase = "running"
    BY DEF StorageStoreHook, Running
<1>2. output \in VMOutput /\ address \in Address
    BY <1>1, ActiveTypes
<1>3. output' \in VMOutput
    BY DEF FramesInv, HostInv, TypeOK
<1>4. HookReturns(0) /\ UNCHANGED <<outputStack, runtimeVars>>
    BY DEF StorageStoreHook
<1>5. Evolves(output, output')
    <2>1. CASE runtime.readOnly
        BY <1>2, <2>1, EvolvesItself DEF StorageStoreHook
    <2>2. CASE ~runtime.readOnly
        <3>1. output' = [stored EXCEPT !.refund = AddUint64(@, StorageRefund(old, value))]
            BY <2>2 DEF StorageStoreHook
        <3>2. stored \in VMOutput /\ Evolves(output, stored)
            BY <1>2, SetCellType, SetCellEvolves
        <3> HIDE DEF stored, old
        <3>3. [stored EXCEPT !.refund = AddUint64(@, StorageRefund(old, value))].accounts =
                stored.accounts
            BY <3>2 DEF VMOutput
        <3>4. output'.accounts = stored.accounts
            BY <3>1, <3>3
        <3> QED BY <1>2, <1>3, <3>2, <3>4, SameAccountsEvolve, EvolvesTrans
    <2> QED BY <2>1, <2>2
<1> QED BY <1>1, <1>4, <1>5, HookWithin DEF Calls

\* writeLog, bigIntNew and signalError.
LEMMA LocalHookValue ==
    ASSUME FramesInv, FramesInv', WriteLogHook \/ BigIntNewHook \/ SignalErrorHook PROVE Calls
<1>1. phase = "running"
    BY DEF WriteLogHook, BigIntNewHook, SignalErrorHook, Running
<1>2. output \in VMOutput
    BY <1>1, ActiveTypes
<1>3. output' \in VMOutput
    BY DEF FramesInv, HostInv, TypeOK
<1>4. /\ [output EXCEPT !.logs = @ + 1].accounts = output.accounts
      /\ [output EXCEPT !.returnCode = "UserError"].accounts = output.accounts
    BY <1>2 DEF VMOutput
<1>5. output'.accounts = output.accounts
    BY <1>4 DEF WriteLogHook, WriteLog, BigIntNewHook, outputVars, SignalErrorHook, Stops
<1>6. Evolves(output, output')
    BY <1>2, <1>3, <1>5, SameAccountsEvolve
<1>7. UNCHANGED <<calls, outputStack, runtimeVars>> /\ phase' # "idle"
    BY <1>1 DEF WriteLogHook, BigIntNewHook, outputVars, SignalErrorHook, Stops, HookReturns
<1> QED BY <1>1, <1>6, <1>7 DEF Calls, Within, runtimeVars

\* Every API function.
LEMMA HookValue ==
    ASSUME FramesInv, FramesInv', Hook PROVE Calls
<1>1. /\ Recipients \subseteq Address /\ CallValues \subseteq Nat /\ GasLimits \subseteq Uint
    BY VMHostAssumption
<1>2. ASSUME NEW dest \in Recipients, NEW value \in CallValues, NEW limit \in GasLimits,
             NEW f \in Invocations,
             \/ ExecuteOnDestContextHook(dest, value, limit, f[1], f[2])
             \/ ExecuteOnDestContextByCallerHook(dest, value, limit, f[1], f[2])
             \/ ExecuteOnSameContextHook(dest, value, limit, f[1], f[2])
      PROVE  Calls
    BY <1>1, <1>2, InvocationType, CallHookValue
<1>3. ASSUME NEW dest \in Recipients, NEW value \in CallValues, NEW limit \in GasLimits,
             NEW f \in Invocations, TransferValueExecuteHook(dest, value, limit, f[1], f[2])
      PROVE  Calls
    BY <1>1, <1>3, InvocationType, TransferHookValue
<1>4. ASSUME NEW dest \in Recipients, NEW limit \in GasLimits, NEW f \in Invocations,
             \/ DelegateExecutionHook(dest, limit, f[1], f[2])
             \/ ExecuteReadOnlyHook(dest, limit, f[1], f[2])
      PROVE  Calls
    <2>1. 0 \in Nat
        OBVIOUS
    <2> QED BY <1>1, <1>4, <2>1, InvocationType, CallHookValue
<1>5. ASSUME NEW dest \in Recipients, NEW limit \in GasLimits, NEW f \in Invocations,
             \/ TransferESDTFails(dest, limit, f[1], f[2])
             \/ TransferESDTExecuteHook(dest, limit, f[1], f[2])
      PROVE  Calls
    BY <1>1, <1>5, InvocationType, ESDTHookValue
<1>6. ASSUME NEW dest, NEW hook,
             SyncCallToOtherShard(hook, dest) \/ BadArguments(hook) \/ RefuseBuiltinFunction(hook)
      PROVE  Calls
    BY <1>6, RefusedValue
<1>7. ASSUME NEW dest \in Recipients, NEW limit \in GasLimits,
             \/ BuiltinFunctionFails(dest, limit)
             \/ BuiltinFunctionDone(dest, limit)
             \/ BuiltinFunctionRefused(dest, limit)
             \/ BuiltinFunctionThenCall(dest, limit)
      PROVE  Calls
    BY <1>1, <1>7, BuiltinValue
<1>8. ASSUME NEW dest \in Recipients, NEW value \in CallValues, TransferValueHook(dest, value)
      PROVE  Calls
    <2>1. 0 \in Uint /\ IsInvocation("none", NoCode)
        BY ZeroIsWord DEF IsInvocation, FunctionNames
    <2> QED BY <1>1, <1>8, <2>1, TransferHookValue
<1>9. ASSUME NEW code \in Code, NEW value \in CallValues, NEW limit \in GasLimits,
             CreateContractHook(code, value, limit)
      PROVE  Calls
    BY <1>1, <1>9, CreateHookValue
<1>10. ASSUME NEW source \in Recipients, NEW value \in CallValues, NEW limit \in GasLimits,
              DeployFromSourceContractHook(source, value, limit)
       PROVE  Calls
    BY <1>1, <1>10, CreateHookValue
<1>11. ASSUME NEW value \in Value, StorageStoreHook(value) PROVE Calls
    BY <1>11, StoreHookValue
<1>12. CASE WriteLogHook \/ BigIntNewHook \/ SignalErrorHook
    BY <1>12, LocalHookValue
<1> QED BY <1>2, <1>3, <1>4, <1>5, <1>6, <1>7, <1>8, <1>9, <1>10, <1>11, <1>12 DEF Hook

-----------------------------------------------------------------------------
(* Runs, and the steps of contracts *)

\* The calls that are in progress stay.
LEMMA QuietWithin ==
    ASSUME phase # "idle", phase' # "idle", Evolves(output, output'),
           UNCHANGED <<calls, outputStack, runtime, runtimeStack>>
    PROVE  Within
    BY DEF Within

\* host.execute moves no value: it only caches the code.
LEMMA ExecuteValue ==
    ASSUME FramesInv, FramesInv', Execute PROVE Within
<1>1. phase = "execute"
    BY DEF Execute, RefuseInit, ExecuteCall, ExecuteUpgrade
<1>2. /\ output \in VMOutput /\ runtime.scAddress \in Address
    BY <1>1, ActiveTypes
<1>3. output' \in VMOutput
    BY DEF FramesInv, HostInv, TypeOK
<1>4. UNCHANGED <<calls, outputStack, runtime, runtimeStack>>
    BY DEF Execute
<1>5. phase' # "idle"
    BY DEF Execute, RefuseInit, ExecuteCall, ExecuteUpgrade, FailBeforeStart, FailCharged,
        StartWasmerInstance
<1>6. Evolves(output, output')
    <2>1. CASE output'.accounts = output.accounts
        BY <1>2, <1>3, <2>1, SameAccountsEvolve
    <2>2. CASE ExecuteCall
        <3>1. GetCode(output, runtime.scAddress) \in Code \cup {NoCode}
            BY <1>2, GetCodeType
        <3>2. SameEffects(output, output')
            BY <1>2, <2>2, <3>1, SetCodeEffects DEF ExecuteCall
        <3> QED BY <1>2, <1>3, <3>2, SameEffectsEvolve
    <2>3. CASE RefuseInit
        BY <2>1, <2>3 DEF RefuseInit
    <2>4. CASE ExecuteUpgrade
        <3>1. output' = output \/ output' = [output EXCEPT !.returnCode = "OutOfGas"]
            BY <2>4 DEF ExecuteUpgrade
        <3>2. [output EXCEPT !.returnCode = "OutOfGas"].accounts = output.accounts
            BY <1>2 DEF VMOutput
        <3> QED BY <2>1, <3>1, <3>2
    <2> QED BY <2>2, <2>3, <2>4 DEF Execute
<1> QED BY <1>1, <1>4, <1>5, <1>6, QuietWithin

\* Neither do the instructions of a contract and the ways in which it ends.
LEMMA WasmValue ==
    ASSUME FramesInv, FramesInv', Wasm PROVE Within
<1>1. phase = "running"
    BY DEF Wasm, ExecuteInstructions, OutOfGas, Trap, Return
<1>2. output \in VMOutput /\ runtime.scAddress \in Address /\ runtime.code \in Code \cup {NoCode}
    BY <1>1, ActiveTypes
<1>3. output' \in VMOutput
    BY DEF FramesInv, HostInv, TypeOK
<1>4. UNCHANGED <<calls, outputStack, runtime, runtimeStack>> /\ phase' # "idle"
    BY <1>1 DEF Wasm, ExecuteInstructions, OutOfGas, Trap, Return, Stops, outputVars, runtimeVars
<1>5. output' = output \/ output' = SetCode(output, runtime.scAddress, runtime.code)
    BY DEF Wasm, ExecuteInstructions, OutOfGas, Trap, Return, Stops, outputVars, DeployCode
<1>6. Evolves(output, output')
    BY <1>2, <1>3, <1>5, EvolvesItself, SetCodeEffects, SameEffectsEvolve
<1> QED BY <1>1, <1>4, <1>6, QuietWithin

\* A run begins with the value of its transaction and nothing else.
LEMMA StartStarts ==
    ASSUME NEW dest \in Address, NEW value \in Nat, NEW out \in VMOutput,
           SameEffects(AddTxValueToAccount(NewVMOutput, dest, value), out),
           StartRun, phase' # "idle", NEW input, input.callValue = value, NEW cost,
           InitContexts(input, out, cost)
    PROVE  Starts
<1> DEFINE paid == AddTxValueToAccount(NewVMOutput, dest, value)
<1>1. /\ paid \in VMOutput /\ SumDeltas(paid) = value /\ Solvent(paid)
      /\ \A a \in Address : LET x == AccountOf(paid, a) IN x.nonce = 0 /\ x.transfers = <<>>
    BY StartDeltas
<1> HIDE DEF paid
<1>2. Evolves(paid, out)
    BY <1>1, SameEffectsEvolve DEF paid
<1>3. Fair(out, value)
    BY <1>1, <1>2 DEF Evolves, Fair
<1>4. \A a \in Address : LET x == AccountOf(out, a) IN x.nonce = 0 /\ x.transfers = <<>>
    <2>1. SameEffects(paid, out)
        BY DEF paid
    <2> QED BY <1>1, <2>1 DEF SameEffects, SameEffect
<1>5. output' = out /\ runtime' = input /\ outputStack' = <<>> /\ runtimeStack' = <<>>
    BY DEF InitContexts
<1>6. phase = "idle" /\ \A i \in DOMAIN calls' : CreationFrame(calls'[i])
    <2>1. phase = "idle" /\ calls' = <<[kind |-> "top", hook |-> "run", newAddress |-> NoAddress]>>
        BY DEF StartRun
    <2> QED BY <2>1 DEF CreationFrame
<1> QED BY <1>3, <1>4, <1>5, <1>6 DEF Starts

\* RunSmartContractCall, RunSmartContractCreate and the upgrade by a transaction.
LEMMA RunValue ==
    ASSUME FramesInv', Run PROVE Starts
<1>1. /\ Entrypoints \subseteq Address /\ CallValues \subseteq Nat
      /\ Deployments \subseteq Address \X Code
    BY VMHostAssumption
<1>2. phase' # "idle" /\ StartRun
    BY DEF Run, RunSmartContractCall, RunCodeDeployment, FailBeforeStart, StartWasmerInstance
<1>3. ASSUME NEW dest \in Entrypoints, NEW value \in CallValues, NEW gas \in RunGas,
             RunSmartContractCall(dest, value, gas)
      PROVE  Starts
    <2> DEFINE paid == AddTxValueToAccount(NewVMOutput, dest, value)
               code == GetCode(paid, dest)
               cost == IF code = NoCode THEN 0 ELSE PrepareCost[code]
               input == Input(dest, TxSender, value, gas, "call", NoCode)
               out == IF gas < GetCodeCost THEN paid ELSE SetCode(paid, dest, code)
    <2>1. dest \in Address /\ value \in Nat
        BY <1>1
    <2>2. InitContexts(input, out, cost) /\ input.callValue = value
        BY <1>3 DEF RunSmartContractCall, Input
    <2>3. paid \in VMOutput
        BY <2>1, StartDeltas
    <2>4. code \in Code \cup {NoCode}
        <3> HIDE DEF paid
        <3> QED BY <2>1, <2>3, GetCodeType
    <2>5. out \in VMOutput /\ SameEffects(paid, out)
        <3> HIDE DEF paid, code
        <3>1. SameEffects(paid, paid)
            BY <2>3, SameAccountsEffects
        <3> QED BY <2>1, <2>3, <2>4, <3>1, SetCodeType, SetCodeEffects
    <2> HIDE DEF out, input, cost
    <2> QED BY <1>2, <2>1, <2>2, <2>5, StartStarts
<1>4. ASSUME NEW d \in Deployments, NEW value \in CallValues, NEW gas \in RunGas,
             RunCodeDeployment(d[1], d[2], value, gas)
      PROVE  Starts
    <2> DEFINE cost == AddUint64(CreateCost, CompileCost[d[2]])
               input == Input(d[1], TxSender, value, gas, "init", d[2])
               paid == AddTxValueToAccount(NewVMOutput, d[1], value)
    <2>1. d[1] \in Address /\ value \in Nat
        BY <1>1
    <2>2. InitContexts(input, paid, cost) /\ input.callValue = value
        BY <1>4 DEF RunCodeDeployment, Input
    <2>3. paid \in VMOutput
        BY <2>1, StartDeltas
    <2>4. SameEffects(paid, paid)
        BY <2>3, SameAccountsEffects
    <2> HIDE DEF input, cost
    <2> QED BY <1>2, <2>1, <2>2, <2>3, <2>4, StartStarts
<1> QED BY <1>3, <1>4 DEF Run

-----------------------------------------------------------------------------
(* The end of calls and runs *)

\* The index of what is on top of a stack.
LEMMA TopIndex ==
    ASSUME NEW s, IsStack(s), s # <<>>
    PROVE  Len(s) \in 1 .. Len(s) /\ Len(s) \in DOMAIN s /\ Last(s) = s[Len(s)]
<1>1. Len(s) \in Nat \ {0} /\ DOMAIN s = 1 .. Len(s) /\ Last(s) = s[Len(s)]
    BY StackPop
<1>2. Len(s) \in 1 .. Len(s)
    BY <1>1
<1> QED BY <1>1, <1>2

\* GetVMOutput closes the books without touching the effects of the contracts.
LEMMA ClosedEffects ==
    ASSUME FramesInv, phase = "finish"
    PROVE  /\ ClosedOutput \in VMOutput /\ SameEffects(output, ClosedOutput)
           /\ \A out \in VMOutput :
                FailureOutput(out) \in VMOutput /\ SameEffects(out, FailureOutput(out))
<1>1. output \in VMOutput /\ metering \in Metering /\ runtime.scAddress \in Address
    BY ActiveTypes
<1>2. /\ ClosedMetering \in Metering /\ ClosedOutput \in VMOutput
      /\ \A out \in VMOutput : FailureOutput(out) \in VMOutput
    BY ClosedTypes
<1>3. Touched \in VMOutput /\ SameEffects(output, Touched)
    <2> DEFINE updated == RemoveNonUpdatedCode(output, codeUpdates)
               account == AccountOf(updated, runtime.scAddress)
    <2>1. updated \in VMOutput /\ SameEffects(output, updated)
        BY <1>1, RemoveCodeType, RemoveCodeEffects
    <2> HIDE DEF updated
    <2>2. account \in Account /\ SameEffect(account, account)
        BY <1>1, <2>1, AccountOfType DEF SameEffect
    <2>3. /\ WithAccount(updated, runtime.scAddress, account) \in VMOutput
          /\ SameEffects(updated, WithAccount(updated, runtime.scAddress, account))
        BY <1>1, <2>1, <2>2, WithAccountType, WithAccountEffects
    <2>4. Touched = WithAccount(updated, runtime.scAddress, account)
        BY DEF Touched, updated
    <2> HIDE DEF account
    <2> QED BY <2>1, <2>3, <2>4, SameEffectsTrans
<1>4. SameEffects(output, ClosedOutput)
    BY <1>2, <1>3, SetGasEffects, SameEffectsTrans DEF ClosedOutput
<1>5. ASSUME NEW out \in VMOutput PROVE SameEffects(out, FailureOutput(out))
    <2>1. metering.initialGasProvided \in Uint
        BY <1>1 DEF Metering
    <2> QED BY <1>1, <2>1, AddGasEffects DEF FailureOutput
<1> QED BY <1>2, <1>4, <1>5

\* The stacks of a callee that finishes are popped.
LEMMA LeaveLeaves ==
    ASSUME FramesInv, phase = "finish", Last(calls).kind \in {"dest", "same"},
           LeaveCallee(CallerRuntime), phase' # "idle"
    PROVE  Leaves
<1>1. phase # "idle"
    OBVIOUS
<1>2. /\ calls # <<>> /\ outputStack # <<>> /\ runtimeStack # <<>>
      /\ Last(runtimeStack) \in Execution
    BY <1>1, TopFrame
<1>3. CallerRuntime.callValue = Last(runtimeStack).callValue
    <2> DEFINE r == Last(runtimeStack)
    <2>1. [r EXCEPT !.readOnly = FALSE].callValue = r.callValue
        <3>1. r \in Runtime
            BY <1>2 DEF Execution
        <3> HIDE DEF r
        <3> QED BY <3>1 DEF Runtime
    <2> QED BY <2>1 DEF CallerRuntime
<1> QED BY <1>1, <1>2, <1>3 DEF Leaves, LeaveCallee

\* What the caller of a callee that finishes has: the output out.
LEMMA ReportValue ==
    ASSUME FramesInv, phase = "finish", NEW failed \in BOOLEAN, NEW out \in VMOutput,
           NEW m, NEW w, CallReports(failed, out, m, w)
    PROVE  output'.accounts = out.accounts /\ phase' # "idle"
<1>1. [out EXCEPT !.returnCode = "ExecutionFailed"].accounts = out.accounts
    BY DEF VMOutput
<1>2. \/ output' = out /\ phase' = "running"
      \/ output' = [out EXCEPT !.returnCode = "ExecutionFailed"] /\ phase' = "finish"
    BY DEF CallReports, Fault
<1> QED BY <1>1, <1>2

\* A failed callee: its caller's output is back, but for the account of a contract
\* that was being created.
LEMMA FailedAborts ==
    ASSUME FramesInv, FramesInv', ValueInv, FinishDestFailed \/ FinishSameFailed
    PROVE  Aborts
<1> DEFINE call == Last(calls)
           saved == Last(outputStack)
           deleted == DeleteOutputAccount(saved, call.newAddress)
<1>1. /\ phase = "finish" /\ Last(calls).kind \in {"dest", "same"} /\ LeaveCallee(CallerRuntime)
    BY DEF FinishDestFailed, FinishSameFailed
<1>2. saved \in VMOutput /\ output' \in VMOutput
    BY <1>1, TopSaved DEF FramesInv, HostInv, TypeOK
<1>3. PICK out, w :
                 /\ CallReports(TRUE, out, Last(meteringStack), w)
                 /\ \/ out = saved
                    \/ out = deleted /\ call.hook = "createContract"
    BY DEF FinishDestFailed, FinishSameFailed
<1>4. out \in VMOutput /\ KeptSame(saved, out)
    <2>1. KeptSame(saved, saved)
        BY <1>2, SameAccountsEffects, SameEffectsKept
    <2>2. ASSUME call.hook = "createContract" PROVE deleted \in VMOutput /\ KeptSame(saved, deleted)
        <3>1. IsStack(calls) /\ calls # <<>>
            BY <1>1 DEF FramesInv, HostInv, AlignedInv, CallsInv
        <3>2. Len(calls) \in DOMAIN calls /\ call = calls[Len(calls)]
            BY <3>1, TopIndex
        <3>3. CreationFrame(call)
            BY <3>2 DEF ValueInv
        <3>4. Creating /\ call.newAddress \in Address \ DOMAIN ChainCode
            BY <2>2, <3>3 DEF CreationFrame
        <3> HIDE DEF saved, call
        <3> QED BY <1>2, <3>4, DeleteType, DeleteKept
    <2> QED BY <1>2, <1>3, <2>1, <2>2
<1> HIDE DEF saved, deleted
<1>5. output'.accounts = out.accounts /\ phase' # "idle"
    BY <1>1, <1>3, <1>4, ReportValue
<1>6. KeptSame(saved, output')
    <2>1. KeptSame(out, output')
        BY <1>2, <1>4, <1>5, SameAccountsEffects, SameEffectsKept
    <2> QED BY <1>4, <2>1, KeptSameTrans
<1>7. Leaves
    BY <1>1, <1>5, LeaveLeaves
<1> QED BY <1>6, <1>7 DEF Aborts, saved

\* A callee of ExecuteOnSameContext that succeeded.
LEMMA SameOkCommits ==
    ASSUME FramesInv, FramesInv', FinishSameOk PROVE Commits
<1> DEFINE out == IF BooksBalance THEN ClosedOutput ELSE FailureOutput(ClosedOutput)
<1>1. /\ phase = "finish" /\ Last(calls).kind \in {"dest", "same"} /\ LeaveCallee(CallerRuntime)
    BY DEF FinishSameOk
<1>2. PICK m, w : CallReports(FALSE, out, m, w)
    BY DEF FinishSameOk
<1>3. output \in VMOutput /\ output' \in VMOutput
    BY DEF FramesInv, HostInv, TypeOK
<1>4. out \in VMOutput /\ SameEffects(output, out)
    BY <1>1, ClosedEffects, SameEffectsTrans
<1> HIDE DEF out
<1>5. output'.accounts = out.accounts /\ phase' # "idle"
    BY <1>1, <1>2, <1>4, ReportValue
<1>6. SameEffects(output, output')
    BY <1>3, <1>4, <1>5, SameAccountsEffects, SameEffectsTrans
<1>7. Evolves(output, output') /\ KeptSame(output, output')
    BY <1>3, <1>6, SameEffectsEvolve, SameEffectsKept
<1>8. Leaves
    BY <1>1, <1>5, LeaveLeaves
<1> QED BY <1>7, <1>8 DEF Commits

\* A contract created counts in the nonce of its creator.
LEMMA NonceEvolves ==
    ASSUME NEW out \in VMOutput, NEW a \in Address
    PROVE  LET new == WithAccount(out, a, [AccountOf(out, a) EXCEPT !.nonce = @ + 1])
           IN  new \in VMOutput /\ Evolves(out, new)
<1> DEFINE old == AccountOf(out, a)
           account == [old EXCEPT !.nonce = @ + 1]
<1>1. old \in Account
    BY AccountOfType
<1> HIDE DEF old
<1>2. Later(old, old)
    BY <1>1, LaterFacts
<1>3. account \in Account /\ account.nonce = old.nonce + 1 /\ account.cell = old.cell
      /\ account.transfers = old.transfers /\ account.delta = old.delta /\ old.nonce \in Nat
    BY <1>1 DEF Account
<1> HIDE DEF account
<1>4. Later(old, account)
    BY <1>2, <1>3 DEF Later
<1>5. WithAccount(out, a, account) \in VMOutput /\ Evolves(out, WithAccount(out, a, account))
    BY <1>3, <1>4, WithAccountType, WithAccountEvolves DEF old
<1> QED BY <1>5 DEF account, old

\* A callee of ExecuteOnDestContext that succeeded: what PopMergeActiveState merges
\* into the caller's output is all that the callee did.
LEMMA DestOkCommits ==
    ASSUME FramesInv, FramesInv', ValueInv, FinishDestOk PROVE Commits
<1> DEFINE saved == Last(outputStack)
           both == MergeVMOutputs(saved, ClosedOutput)
           merged == CopyOf(both)
           caller == Last(runtimeStack).scAddress
           counted == WithAccount(merged, caller,
                        [AccountOf(merged, caller) EXCEPT !.nonce = @ + 1])
           out == IF Last(calls).hook = "createContract" THEN counted ELSE merged
<1>1. /\ phase = "finish" /\ Last(calls).kind \in {"dest", "same"} /\ LeaveCallee(CallerRuntime)
    BY DEF FinishDestOk
<1>2. PICK m, w : CallReports(FALSE, out, m, w)
    BY DEF FinishDestOk
<1>3. output \in VMOutput /\ output' \in VMOutput /\ outputStack \in Seq(VMOutput)
    BY DEF FramesInv, HostInv, TypeOK
<1>4. saved \in VMOutput /\ caller \in Address
    BY <1>1, TopSaved DEF Execution
<1>5. Evolves(saved, output)
    <2>1. outputStack # <<>> /\ IsStack(outputStack)
        BY <1>1, TopFrame DEF FramesInv, HostInv, AlignedInv
    <2>2. Len(outputStack) \in 1 .. Len(outputStack) /\ saved = outputStack[Len(outputStack)]
        BY <2>1, TopIndex
    <2>3. Sound(outputStack, output, Bring(runtimeStack, runtime))
        BY <1>1 DEF ValueInv
    <2> QED BY <2>2, <2>3 DEF Sound
<1>6. ClosedOutput \in VMOutput /\ SameEffects(output, ClosedOutput)
    BY <1>1, ClosedEffects
<1>7. Evolves(saved, ClosedOutput)
    BY <1>3, <1>4, <1>5, <1>6, SameEffectsEvolve, EvolvesTrans
<1> HIDE DEF saved
<1>8. both \in VMOutput /\ KeptSame(ClosedOutput, both)
    BY <1>4, <1>6, <1>7, MergeType, MergeKept
<1> HIDE DEF both
<1>9. merged \in VMOutput /\ merged.accounts = both.accounts
    BY <1>8, CopyOfSaves DEF Saves
<1> HIDE DEF merged
<1>10. KeptSame(output, merged)
    <2>1. KeptSame(output, ClosedOutput)
        BY <1>6, SameEffectsKept
    <2>2. KeptSame(both, merged)
        BY <1>8, <1>9, SameAccountsEffects, SameEffectsKept
    <2> QED BY <1>8, <2>1, <2>2, KeptSameTrans
<1>11. Evolves(output, merged)
    BY <1>3, <1>9, <1>10, KeptSameEvolves
<1> HIDE DEF caller
<1>12. counted \in VMOutput /\ Evolves(merged, counted)
    BY <1>4, <1>9, NonceEvolves
<1> HIDE DEF counted
<1>13. Last(calls).hook = "createContract" => Creating
    <2>1. IsStack(calls) /\ calls # <<>>
        BY <1>1 DEF FramesInv, HostInv, AlignedInv, CallsInv
    <2>2. Len(calls) \in DOMAIN calls /\ Last(calls) = calls[Len(calls)]
        BY <2>1, TopIndex
    <2> QED BY <2>2 DEF ValueInv, CreationFrame
<1>14. out \in VMOutput /\ Evolves(output, out) /\ (~Creating => KeptSame(output, out))
    <2>1. CASE Last(calls).hook = "createContract"
        BY <1>3, <1>9, <1>11, <1>12, <1>13, <2>1, EvolvesTrans
    <2>2. CASE Last(calls).hook # "createContract"
        BY <1>9, <1>10, <1>11, <2>2
    <2> QED BY <2>1, <2>2
<1> HIDE DEF out
<1>15. output'.accounts = out.accounts /\ phase' # "idle"
    BY <1>1, <1>2, <1>14, ReportValue
<1>16. Evolves(out, output') /\ KeptSame(out, output')
    BY <1>3, <1>14, <1>15, SameAccountsEvolve, SameAccountsEffects, SameEffectsKept
<1>17. Evolves(output, output') /\ (~Creating => KeptSame(output, output'))
    BY <1>3, <1>14, <1>16, EvolvesTrans, KeptSameTrans
<1>18. Leaves
    BY <1>1, <1>15, LeaveLeaves
<1> QED BY <1>17, <1>18 DEF Commits

\* The end of the run: no call is in progress.
LEMMA FinishEnds ==
    ASSUME FramesInv, FinishRun PROVE Ends
<1>1. phase = "finish" /\ Last(calls).kind = "top" /\ phase' = "idle" /\ calls' = <<>>
      /\ outputStack' = outputStack
    BY DEF FinishRun
<1>2. AlignedInv /\ DepthInv /\ output \in VMOutput
    BY DEF FramesInv, HostInv, TypeOK
<1>3. outputStack = <<>>
    <2>1. calls # <<>> /\ IsStack(calls) /\ IsStack(outputStack)
        BY <1>1, <1>2 DEF AlignedInv, CallsInv
    <2>2. Len(calls) \in DOMAIN calls /\ Last(calls) = calls[Len(calls)]
        BY <2>1, StackPop, StackEmpty
    <2>3. Len(calls) = 1
        BY <1>1, <1>2, <2>2 DEF AlignedInv, CallsInv
    <2>4. Len(calls) = Len(before) + 1 /\ Len(before) \in Nat /\ Len(outputStack) = Len(before)
        BY <1>1, <1>2, StackLengths DEF DepthInv
    <2> QED BY <2>1, <2>3, <2>4, StackEmpty
<1>4. SameEffects(output, output')
    <2>1. output' = ClosedOutput \/ output' = FailureOutput(output)
        BY DEF FinishRun
    <2> QED BY <1>1, <1>2, <2>1, ClosedEffects
<1> QED BY <1>1, <1>3, <1>4 DEF Ends

-----------------------------------------------------------------------------
(* Conservation of value *)

\* What a step is to the outputs of the calls in progress.
ValueStep == Within \/ Enters \/ Aborts \/ Commits \/ Starts \/ Ends

\* One case per action of the host.
LEMMA StepValue ==
    ASSUME FramesInv, FramesInv', ValueInv, Next PROVE ValueStep
<1>1. CASE Run
    BY <1>1, RunValue DEF ValueStep
<1>2. CASE Execute
    BY <1>2, ExecuteValue DEF ValueStep
<1>3. CASE Hook
    BY <1>3, HookValue DEF ValueStep, Calls
<1>4. CASE Wasm
    BY <1>4, WasmValue DEF ValueStep
<1>5. CASE FinishDestFailed \/ FinishSameFailed
    BY <1>5, FailedAborts DEF ValueStep
<1>6. CASE FinishDestOk
    BY <1>6, DestOkCommits DEF ValueStep
<1>7. CASE FinishSameOk
    BY <1>7, SameOkCommits DEF ValueStep
<1>8. CASE FinishRun
    BY <1>8, FinishEnds DEF ValueStep
<1> QED BY <1>1, <1>2, <1>3, <1>4, <1>5, <1>6, <1>7, <1>8 DEF Next, Finish

\* Before the first run.
LEMMA InitValue == Init => ValueInv
<1> SUFFICES ASSUME Init PROVE ValueInv
    OBVIOUS
<1>1. DOMAIN calls = {} /\ phase = "idle"
    BY DEF Init
<1> QED BY <1>1 DEF ValueInv

\* The invariant is inductive, relative to FramesInv.
LEMMA NextValue == FramesInv /\ FramesInv' /\ ValueInv /\ [Next]_vars => ValueInv'
<1>1. ASSUME FramesInv, FramesInv', ValueInv, Next PROVE ValueInv'
    BY <1>1, StepValue, StepSound DEF ValueStep
<1>2. ASSUME ValueInv, UNCHANGED vars PROVE ValueInv'
    BY <1>2 DEF ValueInv, vars, contextVars, outputVars, runtimeVars
<1> QED BY <1>1, <1>2

\* The inductive invariant holds in every state of every run, with or without the
\* creation of contracts: each pushed output evolves into those above it.
THEOREM ValueTheorem == Spec => []ValueInv
<1>1. FramesInv /\ FramesInv' /\ ValueInv /\ [Next]_vars => ValueInv'
    BY NextValue
<1> QED BY <1>1, InitValue, FramesTheorem, PTL DEF Spec

\* TransferValueOnly checks the balance that includes what the run has already
\* moved: no account of the chain spends more than it has.
NoOverdraft == phase # "idle" => Solvent(output)

\* No nesting of transfers, calls, failures and creations of contracts overdraws an
\* account: a failed callee gives back to its caller the balances of the moment of
\* the call, and a successful one its own, and both are solvent.
THEOREM NoOverdraftTheorem == Spec => []NoOverdraft
<1>1. ValueInv => NoOverdraft
    BY DEF ValueInv, Sound, Fair, NoOverdraft
<1> QED BY <1>1, ValueTheorem, PTL

\* Value is neither created nor destroyed by the merging and the restoring of outputs,
\* at any depth of calls, as long as contracts create none: the account that a failed
\* creation deletes may already have received value, which goes with it.
THEOREM ValueConservedTheorem == ~Creating => (Spec => []ValueConserved)
<1> SUFFICES ASSUME ~Creating PROVE Spec => []ValueConserved
    OBVIOUS
<1>1. FramesInv /\ ValueInv => ValueConserved
    <2> SUFFICES ASSUME FramesInv, ValueInv, phase # "idle" PROVE ValueConserved
        BY DEF ValueConserved
    <2>1. DOMAIN outputStack = 1 .. Len(outputStack)
        BY StackEmpty DEF FramesInv, HostInv, AlignedInv
    <2>2. Sound(outputStack, output, Bring(runtimeStack, runtime))
        BY DEF ValueInv
    <2> QED BY <2>1, <2>2 DEF Sound, Fair, Bring, ValueConserved
<1> QED BY <1>1, FramesTheorem, ValueTheorem, PTL

-----------------------------------------------------------------------------
(* Nested transactions *)

\* The effects that the calls in progress saved.
SavedEffects(s) == [i \in DOMAIN s |-> Effects(s[i])]

\* Two stacks of the same height with the same elements are one.
LEMMA StackEqual ==
    ASSUME NEW s, NEW t, IsStack(s), IsStack(t), Len(s) = Len(t),
           \A k \in 1 .. Len(s) : s[k] = t[k]
    PROVE  s = t
<1>1. PICK S : s \in Seq(S)
    BY DEF IsStack
<1>2. PICK T : t \in Seq(T)
    BY DEF IsStack
<1>3. s \in Seq(S \cup T) /\ t \in Seq(S \cup T)
    BY <1>1, <1>2
<1> QED BY <1>3

\* There is one saved store for each saved output.
LEMMA SavedStack ==
    ASSUME NEW s, IsStack(s)
    PROVE  /\ IsStack(SavedEffects(s)) /\ Len(SavedEffects(s)) = Len(s)
           /\ \A k \in 1 .. Len(s) : SavedEffects(s)[k] = Effects(s[k])
           /\ (SavedEffects(s) = <<>>) <=> (s = <<>>)
<1> DEFINE t == SavedEffects(s)
           T == {t[k] : k \in 1 .. Len(s)}
<1>1. Len(s) \in Nat /\ DOMAIN s = 1 .. Len(s) /\ (s = <<>> <=> Len(s) = 0)
    BY StackEmpty
<1>2. t \in [1 .. Len(s) -> T] /\ DOMAIN t = 1 .. Len(s)
    BY <1>1 DEF SavedEffects
<1>3. \A k \in 1 .. Len(s) : t[k] = Effects(s[k])
    BY <1>1 DEF SavedEffects
<1> HIDE DEF t, T
<1>4. t \in Seq(T)
    BY <1>1, <1>2
<1>5. Len(t) = Len(s)
    BY <1>1, <1>2, <1>4
<1>6. IsStack(t)
    BY <1>4 DEF IsStack
<1>7. t = <<>> <=> Len(t) = 0
    BY <1>6, StackEmpty
<1> QED BY <1>1, <1>3, <1>5, <1>6, <1>7 DEF t

\* Popping an output pops its store.
LEMMA SavedPop ==
    ASSUME NEW s, IsStack(s), s # <<>>
    PROVE  /\ Last(SavedEffects(s)) = Effects(Last(s))
           /\ Front(SavedEffects(s)) = SavedEffects(Front(s))
<1> DEFINE t == SavedEffects(s)
           u == SavedEffects(Front(s))
<1>1. /\ IsStack(Front(s)) /\ Len(s) \in Nat \ {0} /\ Len(Front(s)) = Len(s) - 1
      /\ \A k \in 1 .. Len(s) - 1 : Front(s)[k] = s[k]
      /\ Last(s) = s[Len(s)]
    BY StackPop
<1>2. /\ IsStack(t) /\ Len(t) = Len(s) /\ t # <<>>
      /\ \A k \in 1 .. Len(s) : t[k] = Effects(s[k])
    BY SavedStack
<1>3. /\ IsStack(u) /\ Len(u) = Len(s) - 1
      /\ \A k \in 1 .. Len(s) - 1 : u[k] = Effects(s[k])
    BY <1>1, SavedStack
<1> HIDE DEF t, u
<1>4. /\ IsStack(Front(t)) /\ Len(Front(t)) = Len(t) - 1 /\ Last(t) = t[Len(t)]
      /\ \A k \in 1 .. Len(t) - 1 : Front(t)[k] = t[k]
    BY <1>2, StackPop
<1>5. \A k \in 1 .. Len(s) - 1 : k \in 1 .. Len(s)
    BY <1>1
<1>6. Front(t) = u
    BY <1>2, <1>3, <1>4, <1>5, StackEqual
<1>7. Last(t) = Effects(Last(s))
    BY <1>1, <1>2, <1>4
<1> QED BY <1>6, <1>7 DEF t, u

\* Pushing an output pushes its store.
LEMMA SavedPush ==
    ASSUME NEW s, IsStack(s), NEW x
    PROVE  /\ Last(SavedEffects(Append(s, x))) = Effects(x)
           /\ Front(SavedEffects(Append(s, x))) = SavedEffects(s)
           /\ Len(SavedEffects(Append(s, x))) = Len(SavedEffects(s)) + 1
<1> DEFINE p == Append(s, x)
<1>1. /\ IsStack(p) /\ Len(p) = Len(s) + 1 /\ Len(s) \in Nat
      /\ \A k \in 1 .. Len(s) : p[k] = s[k]
      /\ p[Len(s) + 1] = x
    BY StackPush
<1> HIDE DEF p
<1>2. p # <<>>
    BY <1>1, StackEmpty
<1>3. /\ IsStack(Front(p)) /\ Len(Front(p)) = Len(s) /\ Last(p) = x
      /\ \A k \in 1 .. Len(s) : Front(p)[k] = p[k]
    <2>1. /\ IsStack(Front(p)) /\ Len(Front(p)) = Len(p) - 1 /\ Last(p) = p[Len(p)]
          /\ \A k \in 1 .. Len(p) - 1 : Front(p)[k] = p[k]
        BY <1>1, <1>2, StackPop
    <2>2. Len(p) - 1 = Len(s)
        BY <1>1
    <2> QED BY <1>1, <2>1, <2>2
<1>4. Front(p) = s
    BY <1>1, <1>3, StackEqual
<1> QED BY <1>1, <1>2, <1>3, <1>4, SavedPop, SavedStack DEF p

\* The total of the abstract specification is the sum of the deltas.
LEMMA TotalIs ==
    ASSUME NEW out \in VMOutput
    PROVE  Transactions!Total(Effects(out)) = SumDeltas(out)
<1> DEFINE f == Deltas(out)
           Rec(it) == it = [s \in SUBSET Address |->
                 IF s = {} THEN 0
                 ELSE LET x == CHOOSE y \in s : TRUE
                      IN Effects(out)[x].delta + it[s \ {x}]]
           iter == CHOOSE it : Rec(it)
<1>1. IsFiniteSet(Address)
    BY VMHostAssumption
<1>2. Transactions!Total(Effects(out)) = iter[Address]
    BY Zenon DEF Transactions!Total, Transactions!MapThenSumSet, Transactions!MapThenFoldSet,
        MapThenSumSet, MapThenFoldSet
<1>3. \A a \in Address : f[a] = Effects(out)[a].delta
    BY DEF Deltas, Effects
<1>4. f \in [Address -> Int] /\ DOMAIN f = Address
    BY DeltasType
<1> HIDE DEF f
<1>5. PICK it \in [SUBSET Address -> Int] : Sums(it, f, Address) /\ SumOf(f) = it[Address]
    BY <1>1, <1>4, SumOfIs
<1>6. \A s \in SUBSET Address : s # {} => (CHOOSE y \in s : TRUE) \in s
    OBVIOUS
<1>7. ASSUME NEW g PROVE Sums(g, f, Address) <=> Rec(g)
    <2>1. \A s \in SUBSET Address : s # {} =>
            f[CHOOSE y \in s : TRUE] = Effects(out)[CHOOSE y \in s : TRUE].delta
        BY <1>3, <1>6
    <2> QED BY <2>1 DEF Sums
<1>8. Rec(it)
    BY <1>5, <1>7
<1> HIDE DEF Rec
<1>9. Rec(iter)
    BY <1>8
<1> HIDE DEF iter
<1>10. Sums(iter, f, Address)
    BY <1>7, <1>9
<1>11. iter[Address] = it[Address]
    BY <1>1, <1>5, <1>10, SumsUnique
<1> QED BY <1>2, <1>5, <1>11, SumDeltasIs DEF f

\* The abstract specification has the same operators on sequences.
LEMMA AbstractEnds == \A s : Transactions!Front(s) = Front(s) /\ Transactions!Last(s) = Last(s)
    BY DEF Transactions!Front, Transactions!Last, Front, Last

\* The same effects are the same store.
LEMMA SameStore ==
    ASSUME NEW old, NEW new, SameEffects(old, new) \/ (~Creating /\ KeptSame(old, new))
    PROVE  Effects(new) = Effects(old)
<1>1. \A a \in Address : SameEffect(AccountOf(old, a), AccountOf(new, a))
    BY DEF SameEffects, KeptSame, Kept
<1> QED BY <1>1 DEF SameEffect, Effects

\* Every kind of step is a step of the abstract specification.
LEMMA TransactionStep ==
    ASSUME ~Creating, FramesInv, FramesInv', ValueStep
    PROVE  Transactions!Next
<1>1. /\ output \in VMOutput /\ output' \in VMOutput /\ outputStack \in Seq(VMOutput)
      /\ IsStack(outputStack)
    BY DEF FramesInv, HostInv, TypeOK, AlignedInv
<1> DEFINE saved == SavedEffects(outputStack)
<1>2. CASE Within
    <2>1. SumDeltas(output') = SumDeltas(output)
        BY <1>2 DEF Within, Evolves
    <2>2. Transactions!Total(Effects(output')) = Transactions!Total(Effects(output))
        BY <1>1, <2>1, TotalIs
    <2>3. Transactions!Write
        BY <1>2, <2>2 DEF Within, Transactions!Write
    <2> QED BY <2>3 DEF Transactions!Next
<1>3. CASE Enters
    <2>1. PICK out \in VMOutput : /\ outputStack' = Append(outputStack, CopyOf(out))
                                  /\ Logs(output, out) /\ Evolves(out, output')
        BY <1>3 DEF Enters
    <2>2. CopyOf(out) \in VMOutput /\ CopyOf(out).accounts = out.accounts
        BY CopyOfSaves DEF Saves
    <2>3. Effects(CopyOf(out)) = Effects(out)
        BY <2>2 DEF Effects, AccountOf
    <2>4. /\ Last(SavedEffects(outputStack')) = Effects(out)
          /\ Front(SavedEffects(outputStack')) = saved
          /\ Len(SavedEffects(outputStack')) = Len(saved) + 1
        <3> DEFINE top == CopyOf(out)
        <3> HIDE DEF top
        <3>1. /\ Last(SavedEffects(Append(outputStack, top))) = Effects(top)
              /\ Front(SavedEffects(Append(outputStack, top))) = saved
              /\ Len(SavedEffects(Append(outputStack, top))) = Len(saved) + 1
            BY <1>1, SavedPush
        <3> QED BY <2>1, <2>3, <3>1 DEF top
    <2>5. Transactions!SameButTransfers(Effects(out), Effects(output))
        BY <2>1 DEF Transactions!SameButTransfers, Effects, Logs
    <2>6. Transactions!Total(Effects(output')) = Transactions!Total(Effects(output))
        <3>1. SumDeltas(output') = SumDeltas(out) /\ SumDeltas(out) = SumDeltas(output)
            BY <1>1, <2>1, LogsEvolve DEF Evolves
        <3> QED BY <1>1, <3>1, TotalIs
    <2>7. Transactions!Begin
        BY <1>3, <2>4, <2>5, <2>6, AbstractEnds DEF Enters, Transactions!Begin, SavedEffects
    <2> QED BY <2>7 DEF Transactions!Next
<1>4. CASE Aborts \/ Commits
    <2>1. /\ outputStack # <<>> /\ outputStack' = Front(outputStack)
          /\ phase # "idle" /\ phase' # "idle"
        BY <1>4 DEF Aborts, Commits, Leaves
    <2>2. /\ saved # <<>> /\ Last(saved) = Effects(Last(outputStack))
          /\ SavedEffects(outputStack') = Front(saved)
        BY <1>1, <2>1, SavedStack, SavedPop
    <2>3. CASE Aborts
        <3>1. Effects(output') = Effects(Last(outputStack))
            BY <2>3, SameStore DEF Aborts
        <3>2. Transactions!Abort
            BY <2>1, <2>2, <3>1, AbstractEnds DEF Transactions!Abort, SavedEffects
        <3> QED BY <3>2 DEF Transactions!Next
    <2>4. CASE Commits
        <3>1. Effects(output') = Effects(output)
            BY <2>4, SameStore DEF Commits
        <3>2. Transactions!Commit
            BY <2>1, <2>2, <3>1, AbstractEnds DEF Transactions!Commit, SavedEffects
        <3> QED BY <3>2 DEF Transactions!Next
    <2> QED BY <1>4, <2>3, <2>4
<1>5. CASE Starts
    <2>1. \A a \in Address : Effects(output')[a].nonce = 0 /\ Effects(output')[a].transfers = <<>>
        BY <1>5 DEF Starts, Effects
    <2>2. SavedEffects(outputStack') = <<>>
        BY <1>5 DEF Starts, SavedEffects
    <2>3. Transactions!Start
        BY <1>5, <2>1, <2>2 DEF Starts, Transactions!Start, SavedEffects
    <2> QED BY <2>3 DEF Transactions!Next
<1>6. CASE Ends
    <2>1. Effects(output') = Effects(output)
        BY <1>6, SameStore DEF Ends
    <2>2. saved = <<>> /\ outputStack' = outputStack
        BY <1>6 DEF Ends, SavedEffects
    <2>3. Transactions!End
        BY <1>6, <2>1, <2>2 DEF Ends, Transactions!End, SavedEffects
    <2> QED BY <2>3 DEF Transactions!Next
<1> QED BY <1>2, <1>3, <1>4, <1>5, <1>6 DEF ValueStep

\* ExecuteOnDestContext and ExecuteOnSameContext implement nested transactions on the
\* accounts, as long as contracts create none: a failed call restores the store of the
\* moment of the call, a successful one loses nothing of what the callee did, and no
\* step changes the total of the deltas.
THEOREM ImplementsTransactionsTheorem == ~Creating => (Spec => ImplementsTransactions)
<1> SUFFICES ASSUME ~Creating PROVE Spec => ImplementsTransactions
    OBVIOUS
<1>1. Init => Transactions!Init
    BY DEF Init, Transactions!Init
<1>2. ASSUME FramesInv, FramesInv', ValueInv, [Next]_vars
      PROVE  [Transactions!Next]_(Transactions!vars)
    <2>1. CASE Next
        BY <1>2, <2>1, StepValue, TransactionStep
    <2>2. CASE UNCHANGED vars
        BY <2>2 DEF vars, contextVars, outputVars, Transactions!vars
    <2> QED BY <1>2, <2>1, <2>2
<1> QED BY <1>1, <1>2, FramesTheorem, ValueTheorem, PTL
    DEF Spec, ImplementsTransactions, Transactions!Spec

-----------------------------------------------------------------------------
(* Gas *)

\* The books of an execution: it may use no more than it was given, which its
\* input says, too, and which fits in a signed number.
Books(m, r) ==
    /\ m.gasForExecution <= m.initialGasProvided /\ m.initialGasProvided <= MaxInt
    /\ r.gasProvided = m.initialGasProvided

\* The gas that the k-th frame was given.
Given(k) == (IF k <= Len(meteringStack) THEN meteringStack[k] ELSE metering).initialGasProvided

\* A caller gave its callee no more than it was given itself, and once the callee
\* has started, the caller's instance has used all of it.
GasInv ==
    phase # "idle" =>
        /\ Books(metering, runtime)
        /\ \A k \in DOMAIN meteringStack :
              /\ Books(meteringStack[k], runtimeStack[k])
              /\ Given(k + 1) <= Given(k)
              /\ k < Len(meteringStack) \/ phase = "running" =>
                    Given(k + 1) <= wasm[instanceStack[k]].used

\* The running contract goes on, or stops.
GasStays ==
    /\ phase = "running" /\ phase' \in {"running", "finish"}
    /\ UNCHANGED <<meteringStack, runtime, runtimeStack, instanceStack>>
    /\ metering'.initialGasProvided = metering.initialGasProvided /\ Books(metering', runtime)
    /\ OnlyPoints(wasm, wasm', instance)

\* It calls another one.
GasEnters ==
    /\ phase = "running" /\ phase' \in {"execute", "finish"}
    /\ \E m, r : /\ meteringStack' = Append(meteringStack, m)
                 /\ runtimeStack' = Append(runtimeStack, r)
                 /\ m.initialGasProvided = metering.initialGasProvided /\ Books(m, r)
    /\ instanceStack' = Append(instanceStack, instance)
    /\ Books(metering', runtime')
    /\ metering'.initialGasProvided <= metering.initialGasProvided
    /\ OnlyPoints(wasm, wasm', instance)

\* host.execute charges the caller and starts the callee.
GasBegins ==
    /\ phase = "execute" /\ phase' \in {"running", "finish"}
    /\ UNCHANGED <<meteringStack, runtime, runtimeStack, instanceStack>>
    /\ metering'.initialGasProvided = metering.initialGasProvided /\ Books(metering', runtime)
    /\ \A k \in DOMAIN instanceStack : k < Len(instanceStack) =>
          wasm'[instanceStack[k]] = wasm[instanceStack[k]]
    /\ phase' = "running" => metering.initialGasProvided <= wasm'[Last(instanceStack)].used

\* The callee is left.
GasLeaves ==
    /\ phase = "finish" /\ meteringStack # <<>>
    /\ meteringStack' = Front(meteringStack) /\ runtimeStack' = Front(runtimeStack)
    /\ instanceStack' = Front(instanceStack)
    /\ metering'.initialGasProvided = Last(meteringStack).initialGasProvided
    /\ metering'.gasForExecution = Last(meteringStack).gasForExecution
    /\ runtime'.gasProvided = Last(runtimeStack).gasProvided
    /\ \A i \in InstanceIds \ {0} : i # instance /\ i # Last(instanceStack) => wasm'[i] = wasm[i]

\* A run begins.
GasStarts == meteringStack' = <<>> /\ Books(metering', runtime')

\* What a step is to the gas of the calls in progress.
GasStep == GasStays \/ GasEnters \/ GasBegins \/ GasLeaves \/ GasStarts \/ phase' = "idle"

\* The stacks of the callers, which have the same length.
LEMMA GasStacks ==
    ASSUME FramesInv
    PROVE  LET n == Len(meteringStack) IN
           /\ n \in Nat /\ DOMAIN meteringStack = 1 .. n
           /\ Len(instanceStack) = n /\ DOMAIN instanceStack = 1 .. n
           /\ Len(runtimeStack) = n /\ DOMAIN runtimeStack = 1 .. n
           /\ phase # "idle" => Len(calls) = n + 1
           /\ IsStack(meteringStack) /\ IsStack(runtimeStack) /\ IsStack(instanceStack)
           /\ \A k \in 1 .. n : instanceStack[k] \in InstanceIds \ {0}
<1>1. AlignedInv /\ DepthInv /\ TypeOK /\ InstancesInv
    BY DEF FramesInv, HostInv
<1> QED BY <1>1, StackLengths, InstanceTypes DEF DepthInv, AlignedInv, InstancesInv

\* The instances that wait are not the running contract's.
LEMMA StaysGas ==
    ASSUME FramesInv, GasInv, GasStays PROVE GasInv'
<1> DEFINE n == Len(meteringStack)
<1>1. /\ n \in Nat /\ DOMAIN meteringStack = 1 .. n /\ DOMAIN instanceStack = 1 .. n
      /\ \A k \in 1 .. n : instanceStack[k] \in InstanceIds \ {0}
    BY GasStacks
<1>2. phase = "running" /\ UNCHANGED <<meteringStack, runtime, runtimeStack, instanceStack>>
      /\ metering'.initialGasProvided = metering.initialGasProvided /\ Books(metering', runtime)
    BY DEF GasStays
<1>3. \A k \in 1 .. n : wasm'[instanceStack[k]] = wasm[instanceStack[k]]
    <2>1. Owned(instance)
        BY <1>2 DEF FramesInv, HostInv, InstancesInv
    <2> QED BY <1>1, <2>1 DEF Owned, GasStays, OnlyPoints
<1>4. \A k : Given(k)' = Given(k)
    BY <1>2 DEF Given
<1>5. /\ Books(metering, runtime)
      /\ \A k \in 1 .. n : /\ Books(meteringStack[k], runtimeStack[k])
                           /\ Given(k + 1) <= Given(k)
                           /\ Given(k + 1) <= wasm[instanceStack[k]].used
    BY <1>1, <1>2 DEF GasInv
<1>6. /\ Books(metering, runtime)'
      /\ \A k \in 1 .. n : /\ Books(meteringStack[k], runtimeStack[k])'
                           /\ Given(k + 1)' <= Given(k)'
                           /\ Given(k + 1)' <= wasm'[instanceStack'[k]].used
    BY <1>2, <1>3, <1>4, <1>5 DEF Books
<1> QED BY <1>1, <1>2, <1>6 DEF GasInv

\* The caller joins those that wait.
LEMMA EntersGas ==
    ASSUME FramesInv, GasInv, GasEnters PROVE GasInv'
<1>0. PICK n : n = Len(meteringStack)
    OBVIOUS
<1>1. /\ n \in Nat /\ DOMAIN meteringStack = 1 .. n /\ DOMAIN instanceStack = 1 .. n
      /\ Len(runtimeStack) = n /\ Len(instanceStack) = n
      /\ IsStack(meteringStack) /\ IsStack(runtimeStack) /\ IsStack(instanceStack)
      /\ \A k \in 1 .. n : instanceStack[k] \in InstanceIds \ {0}
    BY <1>0, GasStacks
<1>2. phase = "running" /\ phase' # "running" /\ Books(metering', runtime')
      /\ metering'.initialGasProvided <= metering.initialGasProvided
    BY DEF GasEnters
<1>3. PICK m, r : /\ meteringStack' = Append(meteringStack, m)
                  /\ runtimeStack' = Append(runtimeStack, r)
                  /\ m.initialGasProvided = metering.initialGasProvided /\ Books(m, r)
    BY DEF GasEnters
<1>4. /\ Len(meteringStack') = n + 1 /\ DOMAIN meteringStack' = 1 .. n + 1
      /\ meteringStack'[n + 1] = m /\ \A k \in 1 .. n : meteringStack'[k] = meteringStack[k]
    BY <1>0, <1>1, <1>3, StackPush
<1>5. runtimeStack'[n + 1] = r /\ \A k \in 1 .. n : runtimeStack'[k] = runtimeStack[k]
    BY <1>0, <1>1, <1>3, StackPush
<1>6. \A k \in 1 .. n : instanceStack'[k] = instanceStack[k]
    BY <1>1, StackPush DEF GasEnters
<1>7. \A k \in 1 .. n : wasm'[instanceStack[k]] = wasm[instanceStack[k]]
    <2>1. Owned(instance)
        BY <1>2 DEF FramesInv, HostInv, InstancesInv
    <2> QED BY <1>1, <2>1 DEF Owned, GasEnters, OnlyPoints
<1>8. /\ \A k \in 1 .. n + 1 : Given(k)' = Given(k)
      /\ Given(n + 1) = metering.initialGasProvided
      /\ Given(n + 2)' = metering'.initialGasProvided
    BY <1>0, <1>1, <1>3, <1>4 DEF Given
<1>9. \A k \in 1 .. n : /\ Books(meteringStack[k], runtimeStack[k])
                        /\ Given(k + 1) <= Given(k)
                        /\ Given(k + 1) <= wasm[instanceStack[k]].used
    BY <1>0, <1>1, <1>2 DEF GasInv
<1>10. \A k \in 1 .. n + 1 : Books(meteringStack'[k], runtimeStack'[k])
    <2> TAKE k \in 1 .. n + 1
    <2>1. CASE k \in 1 .. n
        BY <1>4, <1>5, <1>9, <2>1
    <2>2. CASE k = n + 1
        BY <1>3, <1>4, <1>5, <2>2
    <2> QED BY <1>1, <2>1, <2>2
<1>11. \A k \in 1 .. n + 1 : Given(k + 1)' <= Given(k)'
    <2> TAKE k \in 1 .. n + 1
    <2>1. CASE k \in 1 .. n
        <3>1. k + 1 \in 1 .. n + 1
            BY <1>1, <2>1
        <3> QED BY <1>8, <1>9, <2>1, <3>1
    <2>2. CASE k = n + 1
        <3>1. k + 1 = n + 2 /\ n + 1 \in 1 .. n + 1
            BY <1>1, <2>2
        <3>2. Given(n + 1)' = metering.initialGasProvided
            BY <1>8, <3>1
        <3>3. Given(n + 2)' <= Given(n + 1)'
            BY <1>2, <1>8, <3>2
        <3> QED BY <2>2, <3>1, <3>3
    <2> QED BY <1>1, <2>1, <2>2
<1>12. \A k \in 1 .. n + 1 : k < n + 1 => Given(k + 1)' <= wasm'[instanceStack'[k]].used
    <2> TAKE k \in 1 .. n + 1
    <2> HAVE k < n + 1
    <2>1. k \in 1 .. n /\ k + 1 \in 1 .. n + 1
        BY <1>1
    <2> QED BY <1>6, <1>7, <1>8, <1>9, <2>1
<1> QED BY <1>2, <1>4, <1>10, <1>11, <1>12 DEF GasInv

\* The callee has started, and the last caller has paid.
LEMMA BeginsGas ==
    ASSUME FramesInv, GasInv, GasBegins PROVE GasInv'
<1> DEFINE n == Len(meteringStack)
<1>1. /\ n \in Nat /\ DOMAIN meteringStack = 1 .. n /\ DOMAIN instanceStack = 1 .. n
      /\ Len(instanceStack) = n /\ IsStack(instanceStack)
    BY GasStacks
<1>2. phase = "execute" /\ UNCHANGED <<meteringStack, runtime, runtimeStack, instanceStack>>
      /\ metering'.initialGasProvided = metering.initialGasProvided /\ Books(metering', runtime)
    BY DEF GasBegins
<1>3. \A k \in 1 .. n : k < n => wasm'[instanceStack[k]] = wasm[instanceStack[k]]
    BY <1>1 DEF GasBegins
<1>4. \A k : Given(k)' = Given(k)
    BY <1>2 DEF Given
<1>5. \A k \in 1 .. n : /\ Books(meteringStack[k], runtimeStack[k])
                        /\ Given(k + 1) <= Given(k)
                        /\ k < n => Given(k + 1) <= wasm[instanceStack[k]].used
    BY <1>1, <1>2 DEF GasInv
<1>6. ASSUME NEW k \in 1 .. n, k < n \/ phase' = "running"
      PROVE  Given(k + 1)' <= wasm'[instanceStack[k]].used
    <2>1. CASE k < n
        BY <1>3, <1>4, <1>5, <2>1
    <2>2. CASE k = n /\ phase' = "running"
        <3>1. instanceStack[n] = Last(instanceStack)
            BY <1>1, <2>2, StackPop, StackEmpty
        <3>2. Given(k + 1) = metering.initialGasProvided
            BY <1>1, <2>2 DEF Given
        <3> QED BY <1>4, <2>2, <3>1, <3>2 DEF GasBegins
    <2> QED BY <1>1, <1>6, <2>1, <2>2
<1>7. /\ Books(metering, runtime)'
      /\ \A k \in 1 .. n : /\ Books(meteringStack[k], runtimeStack[k])'
                           /\ Given(k + 1)' <= Given(k)'
                           /\ k < n \/ phase' = "running" =>
                                Given(k + 1)' <= wasm'[instanceStack'[k]].used
    BY <1>2, <1>4, <1>5, <1>6 DEF Books
<1> QED BY <1>1, <1>2, <1>7 DEF GasInv

\* The caller goes on; the others wait as before.
LEMMA LeavesGas ==
    ASSUME FramesInv, GasInv, GasLeaves PROVE GasInv'
<1> DEFINE n == Len(meteringStack)
<1>1. /\ n \in Nat /\ DOMAIN meteringStack = 1 .. n /\ DOMAIN instanceStack = 1 .. n
      /\ Len(runtimeStack) = n /\ Len(instanceStack) = n
      /\ IsStack(meteringStack) /\ IsStack(runtimeStack) /\ IsStack(instanceStack)
      /\ \A k \in 1 .. n : instanceStack[k] \in InstanceIds \ {0}
    BY GasStacks
<1>2. phase = "finish" /\ meteringStack # <<>>
    BY DEF GasLeaves
<1>3. n # 0 /\ runtimeStack # <<>> /\ instanceStack # <<>>
    BY <1>1, <1>2, StackEmpty
<1>4. /\ Len(meteringStack') = n - 1 /\ DOMAIN meteringStack' = 1 .. n - 1
      /\ \A k \in 1 .. n - 1 : meteringStack'[k] = meteringStack[k]
      /\ Last(meteringStack) = meteringStack[n]
    BY <1>1, <1>2, StackPop DEF GasLeaves
<1>5. /\ \A k \in 1 .. n - 1 : runtimeStack'[k] = runtimeStack[k]
      /\ Last(runtimeStack) = runtimeStack[n]
    BY <1>1, <1>3, StackPop DEF GasLeaves
<1>6. /\ \A k \in 1 .. n - 1 : instanceStack'[k] = instanceStack[k]
      /\ Last(instanceStack) = instanceStack[n]
    BY <1>1, <1>3, StackPop DEF GasLeaves
<1>7. \A k \in 1 .. n - 1 : wasm'[instanceStack[k]] = wasm[instanceStack[k]]
    <2> TAKE k \in 1 .. n - 1
    <2>1. k \in 1 .. n /\ n \in 1 .. n /\ k # n
        <3>1. n \in Nat /\ n # 0
            BY <1>1, <1>3
        <3> HIDE DEF n
        <3> QED BY <3>1
    <2>2. instanceStack[k] # instanceStack[n]
        BY <1>1, <2>1 DEF FramesInv, HostInv, InstancesInv
    <2>3. instanceStack[k] # instance
        BY <1>1, <1>2, <1>6, <2>1, <2>2 DEF FramesInv, HostInv, InstancesInv, Owned
    <2> QED BY <1>1, <1>6, <2>1, <2>2, <2>3 DEF GasLeaves
<1>8. \A k \in 1 .. n : /\ Books(meteringStack[k], runtimeStack[k])
                        /\ Given(k + 1) <= Given(k)
                        /\ k < n => Given(k + 1) <= wasm[instanceStack[k]].used
    BY <1>1, <1>2 DEF GasInv
<1>9. \A k \in 1 .. n : Given(k)' = Given(k)
    BY <1>1, <1>3, <1>4 DEF Given, GasLeaves
<1>10. Books(metering', runtime')
    <2>1. Books(Last(meteringStack), Last(runtimeStack))
        BY <1>1, <1>3, <1>4, <1>5, <1>8
    <2> QED BY <2>1 DEF Books, GasLeaves
<1>11. \A k \in 1 .. n - 1 : /\ Books(meteringStack'[k], runtimeStack'[k])
                             /\ Given(k + 1)' <= Given(k)'
                             /\ Given(k + 1)' <= wasm'[instanceStack'[k]].used
    <2> TAKE k \in 1 .. n - 1
    <2>1. k \in 1 .. n /\ k + 1 \in 1 .. n /\ k < n
        BY <1>1
    <2> QED BY <1>4, <1>5, <1>6, <1>7, <1>8, <1>9, <2>1
<1> QED BY <1>4, <1>10, <1>11 DEF GasInv

\* One case per kind of step.
LEMMA StepGas ==
    ASSUME FramesInv, GasInv, GasStep PROVE GasInv'
<1>1. CASE GasStarts
    <2>1. DOMAIN meteringStack' = {}
        BY <1>1 DEF GasStarts
    <2> QED BY <1>1, <2>1 DEF GasStarts, GasInv
<1>2. CASE phase' = "idle"
    BY <1>2 DEF GasInv
<1> QED BY <1>1, <1>2, StaysGas, EntersGas, BeginsGas, LeavesGas DEF GasStep

-----------------------------------------------------------------------------
(* The gas of the calls *)

\* What an API function does to the gas of the calls in progress.
GasCalls == GasStays \/ GasEnters

\* The books of the running contract.
LEMMA RunningBooks ==
    ASSUME FramesInv, GasInv, phase # "idle"
    PROVE  /\ Books(metering, runtime)
           /\ metering \in Metering /\ metering.initialGasProvided \in Uint
           /\ metering.gasForExecution \in Uint /\ runtime.gasProvided = metering.initialGasProvided
    BY ActiveTypes DEF GasInv, Books, Metering

\* deductInitialGas leaves less than was provided.
LEMMA DeductBooks ==
    ASSUME NEW m \in Metering, NEW r, Books(m, r), NEW cost \in Uint
    PROVE  /\ Books(DeductInitialGas(m, r.gasProvided, cost), r)
           /\ DeductInitialGas(m, r.gasProvided, cost).initialGasProvided = m.initialGasProvided
<1>1. /\ DeductInitialGas(m, r.gasProvided, cost).initialGasProvided = m.initialGasProvided
      /\ DeductInitialGas(m, r.gasProvided, cost).gasForExecution = r.gasProvided - cost
    BY DEF DeductInitialGas, Metering
<1>2. m.initialGasProvided \in Int /\ cost \in Int /\ cost >= 0
    BY MaxUintAssumption DEF Metering, Uint
<1> QED BY <1>1, <1>2 DEF Books

\* FailExecution.
LEMMA FaultGas ==
    ASSUME FramesInv, GasInv, phase = "running", NEW out, NEW w, OnlyPoints(wasm, w, instance),
           Fault(out, metering, w, instance), UNCHANGED <<meteringVars, runtimeVars>>
    PROVE  GasStays
<1>1. w \in Instances /\ w[instance].used \in Uint
    BY RunningTypes, UsedType DEF OnlyPoints
<1>2. GasLeft(metering, w[instance].used) \in Uint
    BY <1>1, ActiveTypes, GasLeftType
<1>3. OnlyPoints(wasm, wasm', instance) /\ phase' = "finish"
    BY <1>2, UseMoreGas DEF Fault
<1> QED BY <1>3, RunningBooks DEF GasStays, Books, meteringVars, runtimeVars

\* An API function returns to the contract.
LEMMA HookGas ==
    ASSUME FramesInv, GasInv, phase = "running", NEW value, HookReturns(value),
           OnlyPoints(wasm, wasm', instance), UNCHANGED <<meteringVars, runtimeVars>>
    PROVE  GasStays
    BY RunningBooks DEF GasStays, Books, HookReturns, meteringVars, runtimeVars

\* The gas that prepareIndirectContractCallInput gives to a callee is left.
LEMMA IndirectGas ==
    ASSUME FramesInv, GasInv, phase = "running", NEW limit \in Uint,
           NEW sender, NEW dest, NEW value, NEW function, NEW code
    PROVE  LET gas == IndirectInput(sender, dest, value, limit, function, code).gasProvided
           IN  gas \in Uint /\ gas <= metering.initialGasProvided
<1> DEFINE points == Charged[instance].used
           gas == BoundGasLimit(metering, points, limit)
<1>1. points \in Uint
    BY RunningTypes, UsedType
<1>2. gas \in Uint
    BY IndirectGasType
<1>3. IndirectInput(sender, dest, value, limit, function, code).gasProvided = gas
    BY DEF IndirectInput, Input
<1> HIDE DEF points
<1>4. GasLeft(metering, points) <= metering.gasForExecution
    BY <1>1, RunningBooks, MaxUintAssumption DEF GasLeft, SubUint64, Uint
<1>5. GasLeft(metering, points) \in Uint
    BY <1>1, RunningBooks, GasLeftType
<1>6. gas <= GasLeft(metering, points)
    BY <1>5, MaxUintAssumption DEF BoundGasLimit, Uint
<1> HIDE DEF gas
<1>7. gas <= metering.initialGasProvided
    BY <1>2, <1>4, <1>5, <1>6, RunningBooks, MaxUintAssumption DEF Books, Uint
<1> QED BY <1>2, <1>3, <1>7

\* The contexts that every call pushes.
LEMMA EnterGas ==
    ASSUME FramesInv, GasInv, phase = "running", NEW frame, NEW input \in Execution, NEW r,
           NEW out, NEW calleeOut, NEW m, NEW w, OnlyPoints(wasm, w, instance),
           m.initialGasProvided = metering.initialGasProvided, Books(m, r),
           input.gasProvided <= metering.initialGasProvided,
           EnterCallee(frame, input, r, out, calleeOut, m, w)
    PROVE  GasEnters
<1>1. input.gasProvided \in Uint /\ input \in Runtime
    BY DEF Execution, Runtime
<1>2. /\ meteringStack' = Append(meteringStack, m) /\ runtimeStack' = Append(runtimeStack, r)
      /\ instanceStack' = Append(instanceStack, instance) /\ wasm' = w
      /\ metering' = MeteringFromInput(input.gasProvided)
      /\ runtime' = [input EXCEPT !.readOnly = r.readOnly]
      /\ phase' \in {"execute", "finish"}
    BY DEF EnterCallee
<1>3. /\ metering'.initialGasProvided = input.gasProvided
      /\ metering'.gasForExecution = input.gasProvided
    BY <1>2 DEF MeteringFromInput, InitMetering
<1>4. runtime'.gasProvided = input.gasProvided
    BY <1>1, <1>2 DEF Runtime
<1>5. Books(metering', runtime')
    <2>1. /\ metering.initialGasProvided <= MaxInt /\ metering.initialGasProvided \in Uint
          /\ MaxInt \in Int
        BY RunningBooks, Bounds DEF Books
    <2> QED BY <1>1, <1>3, <1>4, <2>1, MaxUintAssumption DEF Books, Uint
<1> QED BY <1>2, <1>3, <1>5 DEF GasEnters

\* ExecuteOnDestContext.
LEMMA DestGas ==
    ASSUME FramesInv, GasInv, phase = "running", NEW frame, NEW input \in Execution, NEW out,
           NEW m, NEW w, OnlyPoints(wasm, w, instance),
           m.initialGasProvided = metering.initialGasProvided, Books(m, runtime),
           input.gasProvided <= metering.initialGasProvided,
           ExecuteOnDestContext(frame, input, out, m, w)
    PROVE  GasCalls
<1>1. EnterCallee(frame, input, runtime, out, CensorVMOutput(out), m, w)
    BY DEF ExecuteOnDestContext
<1> QED BY <1>1, EnterGas DEF GasCalls

\* ExecuteOnSameContext.
LEMMA SameGas ==
    ASSUME FramesInv, GasInv, phase = "running", NEW frame, NEW input \in Execution,
           NEW r, r.gasProvided = runtime.gasProvided, NEW w, OnlyPoints(wasm, w, instance),
           input.gasProvided <= metering.initialGasProvided,
           ExecuteOnSameContext(frame, input, r, w)
    PROVE  GasCalls
<1>1. EnterCallee(frame, input, r, output, output, metering, w)
    BY DEF ExecuteOnSameContext
<1>2. Books(metering, r)
    BY RunningBooks DEF Books
<1> QED BY <1>1, <1>2, EnterGas DEF GasCalls

\* executeOnDestContext and the functions like it.
LEMMA CallHookGas ==
    ASSUME FramesInv, GasInv, NEW dest \in Address, NEW value \in Nat, NEW limit \in Uint,
           NEW function, NEW code, IsInvocation(function, code),
           \/ ExecuteOnDestContextHook(dest, value, limit, function, code)
           \/ ExecuteOnDestContextByCallerHook(dest, value, limit, function, code)
           \/ ExecuteOnSameContextHook(dest, value, limit, function, code)
           \/ DelegateExecutionHook(dest, limit, function, code)
           \/ ExecuteReadOnlyHook(dest, limit, function, code)
    PROVE  GasCalls
<1> DEFINE input(sender, v) == IndirectInput(sender, dest, v, limit, function, code)
<1>1. phase = "running" /\ function \in ContractFunctions
    BY DEF ExecuteOnDestContextHook, ExecuteOnDestContextByCallerHook,
        ExecuteOnSameContextHook, DelegateExecutionHook, ExecuteReadOnlyHook, Running
<1>2. /\ runtime \in Runtime /\ runtime.scAddress \in Address /\ runtime.caller \in Address
      /\ runtime.callValue \in Nat
    BY <1>1, ActiveTypes
<1>3. ASSUME NEW sender \in Address, NEW v \in Nat
      PROVE  /\ input(sender, v) \in Execution
             /\ input(sender, v).gasProvided <= metering.initialGasProvided
    BY <1>1, IndirectType, IndirectGas
<1>4. Books(metering, runtime) /\ OnlyPoints(wasm, Charged, instance)
    BY <1>1, RunningBooks, RunningTypes
<1> HIDE DEF input
<1>5. ASSUME NEW frame, NEW sender \in Address,
             ExecuteOnDestContext(frame, input(sender, value), output, metering, Charged)
      PROVE  GasCalls
    <2>1. /\ input(sender, value) \in Execution
          /\ input(sender, value).gasProvided <= metering.initialGasProvided
        BY <1>3
    <2> QED BY <1>1, <1>4, <1>5, <2>1, DestGas
<1>6. ASSUME NEW frame, NEW v \in Nat, NEW r, r.gasProvided = runtime.gasProvided,
             ExecuteOnSameContext(frame, input(runtime.scAddress, v), r, Charged)
      PROVE  GasCalls
    <2>1. /\ input(runtime.scAddress, v) \in Execution
          /\ input(runtime.scAddress, v).gasProvided <= metering.initialGasProvided
        BY <1>2, <1>3
    <2> QED BY <1>1, <1>4, <1>6, <2>1, SameGas
<1>7. CASE ExecuteOnDestContextHook(dest, value, limit, function, code)
    BY <1>2, <1>5, <1>7 DEF ExecuteOnDestContextHook, input
<1>8. CASE ExecuteOnDestContextByCallerHook(dest, value, limit, function, code)
    BY <1>2, <1>5, <1>8 DEF ExecuteOnDestContextByCallerHook, input
<1>9. CASE ExecuteOnSameContextHook(dest, value, limit, function, code)
    BY <1>6, <1>9 DEF ExecuteOnSameContextHook, input
<1>10. CASE DelegateExecutionHook(dest, limit, function, code)
    BY <1>2, <1>6, <1>10 DEF DelegateExecutionHook, input
<1>11. CASE ExecuteReadOnlyHook(dest, limit, function, code)
    <2> DEFINE r == [runtime EXCEPT !.readOnly = TRUE]
    <2>1. r.gasProvided = runtime.gasProvided
        BY <1>2 DEF Runtime
    <2>2. ExecuteOnSameContext(Frame("same", "executeReadOnly"),
                               input(runtime.scAddress, runtime.callValue), r, Charged)
        BY <1>11 DEF ExecuteReadOnlyHook, input
    <2> HIDE DEF r
    <2> QED BY <1>2, <1>6, <2>1, <2>2
<1> QED BY <1>7, <1>8, <1>9, <1>10, <1>11

\* The API functions that refuse their arguments.
LEMMA RefusedGas ==
    ASSUME FramesInv, GasInv, NEW hook, NEW dest,
           \/ BadArguments(hook)
           \/ SyncCallToOtherShard(hook, dest)
           \/ RefuseBuiltinFunction(hook)
    PROVE  GasCalls
<1>1. phase = "running"
    BY DEF BadArguments, SyncCallToOtherShard, RefuseBuiltinFunction, Running
<1>2. OnlyPoints(wasm, Charged, instance)
    BY <1>1, RunningTypes
<1>3. CASE BadArguments(hook) \/ SyncCallToOtherShard(hook, dest)
    <2>1. /\ Fault(output, metering, Charged, instance)
          /\ UNCHANGED <<meteringVars, runtimeVars>>
        BY <1>3 DEF BadArguments, SyncCallToOtherShard
    <2> QED BY <1>1, <1>2, <2>1, FaultGas DEF GasCalls
<1>4. CASE RefuseBuiltinFunction(hook)
    <2>1. HookReturns(1) /\ wasm' = Charged /\ UNCHANGED <<meteringVars, runtimeVars>>
        BY <1>4 DEF RefuseBuiltinFunction
    <2> QED BY <1>1, <1>2, <2>1, HookGas DEF GasCalls
<1> QED BY <1>3, <1>4

\* The built-in functions of the protocol.
LEMMA BuiltinGas ==
    ASSUME FramesInv, GasInv, NEW dest \in Address, NEW limit \in Uint,
           \/ BuiltinFunctionFails(dest, limit)
           \/ BuiltinFunctionDone(dest, limit)
           \/ BuiltinFunctionRefused(dest, limit)
           \/ BuiltinFunctionThenCall(dest, limit)
    PROVE  GasCalls
<1> DEFINE input == IndirectInput(runtime.scAddress, dest, 0, limit, "call", NoCode)
<1>1. phase = "running"
    BY DEF BuiltinFunctionFails, BuiltinFunctionDone, BuiltinFunctionRefused,
           BuiltinFunctionThenCall, Running
<1>2. runtime.scAddress \in Address /\ BuiltinCost \in Uint
    BY <1>1, ActiveTypes, VMHostAssumption
<1>3. input.gasProvided \in Uint /\ input.gasProvided <= metering.initialGasProvided
    BY <1>1, IndirectGas
<1>4. /\ OnlyPoints(wasm, Charged, instance)
      /\ OnlyPoints(wasm, UseGas(Charged, instance, BuiltinCost), instance)
      /\ OnlyPoints(wasm, UseGas(Charged, instance, input.gasProvided), instance)
    BY <1>1, <1>2, <1>3, RunningTypes, UseMoreGas
<1>5. CASE BuiltinFunctionFails(dest, limit)
    <2> DEFINE w == UseGas(Charged, instance, input.gasProvided)
    <2>1. PICK out : Fault(out, metering, w, instance)
        BY <1>5 DEF BuiltinFunctionFails
    <2>2. UNCHANGED <<meteringVars, runtimeVars>>
        BY <1>5 DEF BuiltinFunctionFails
    <2> HIDE DEF w
    <2> QED BY <1>1, <1>4, <2>1, <2>2, FaultGas DEF GasCalls, w
<1>6. CASE BuiltinFunctionDone(dest, limit)
    <2>1. /\ wasm' = UseGas(Charged, instance, BuiltinCost) /\ HookReturns(0)
          /\ UNCHANGED <<meteringVars, runtimeVars>>
        BY <1>6 DEF BuiltinFunctionDone
    <2> QED BY <1>1, <1>4, <2>1, HookGas DEF GasCalls
<1>7. CASE BuiltinFunctionThenCall(dest, limit)
    <2> DEFINE frame == Frame("dest", "executeOnDestContext")
               rest == [input EXCEPT !.gasProvided = input.gasProvided - BuiltinCost]
               used == UseGas(Charged, instance, BuiltinCost)
               added == AddToActiveState(output, BuiltinOutput(dest))
    <2>1. /\ ExecuteOnDestContext(frame, rest, added, metering, used)
          /\ input.gasProvided >= BuiltinCost
        BY <1>7 DEF BuiltinFunctionThenCall
    <2>2. input \in Execution
        <3>1. IsInvocation("call", NoCode) /\ "call" \in ContractFunctions
            BY DEF IsInvocation, FunctionNames, ContractFunctions
        <3> QED BY <1>1, <1>2, <3>1, IndirectType
    <2>3. OnlyPoints(wasm, used, instance)
        BY <1>4
    <2> HIDE DEF input
    <2>4. /\ input.gasProvided - BuiltinCost \in Uint
          /\ input.gasProvided - BuiltinCost <= metering.initialGasProvided
        BY <1>1, <1>2, <1>3, <2>1, RunningBooks, MaxUintAssumption DEF Uint
    <2>5. rest \in Execution /\ rest.gasProvided = input.gasProvided - BuiltinCost
        BY <2>2, <2>4, LessGasType DEF Execution, Runtime
    <2>6. Books(metering, runtime)
        BY <1>1, RunningBooks
    <2> HIDE DEF frame, rest, used, added
    <2> QED BY <1>1, <2>1, <2>3, <2>4, <2>5, <2>6, DestGas
<1>8. CASE BuiltinFunctionRefused(dest, limit)
    <2>1. /\ wasm' = UseGas(Charged, instance, BuiltinCost) /\ HookReturns(0)
          /\ UNCHANGED <<meteringVars, runtimeVars>>
        BY <1>8 DEF BuiltinFunctionRefused
    <2> QED BY <1>1, <1>4, <2>1, HookGas DEF GasCalls
<1> QED BY <1>5, <1>6, <1>7, <1>8

\* output.Transfer.
LEMMA TransferGasStep ==
    ASSUME FramesInv, GasInv, phase = "running", NEW dest, NEW value, NEW gas,
           Transfer(dest, value, gas)
    PROVE  GasStays
<1>1. UNCHANGED <<meteringVars, runtimeVars>> /\ OnlyPoints(wasm, Charged, instance)
    BY RunningTypes DEF Transfer
<1>2. \/ wasm' = Charged /\ HookReturns(0)
      \/ Fault(output, metering, Charged, instance)
    BY DEF Transfer
<1> QED BY <1>1, <1>2, HookGas, FaultGas

\* transferValue and transferValueExecute.
LEMMA TransferHookGas ==
    ASSUME FramesInv, GasInv, NEW dest \in Address, NEW value \in Nat, NEW limit \in Uint,
           NEW function, NEW code, IsInvocation(function, code),
           \/ TransferValueHook(dest, value)
           \/ TransferValueExecuteHook(dest, value, limit, function, code)
    PROVE  GasCalls
<1> DEFINE input == IndirectInput(runtime.scAddress, dest, value, limit, function, code)
           frame == Frame("dest", "transferValueExecute")
<1>1. phase = "running"
    BY DEF TransferValueHook, TransferValueExecuteHook, Running
<1>2. CASE TransferValueHook(dest, value)
    BY <1>1, <1>2, TransferGasStep DEF TransferValueHook, GasCalls
<1>3. CASE Transfer(dest, value, limit)
    BY <1>1, <1>3, TransferGasStep DEF GasCalls
<1>4. CASE /\ function # "builtin" /\ function # "none"
           /\ ExecuteOnDestContext(frame, input, output, metering, Charged)
    <2>1. runtime.scAddress \in Address /\ function \in ContractFunctions
        BY <1>1, <1>4, ActiveTypes DEF IsInvocation, FunctionNames
    <2>2. input \in Execution /\ input.gasProvided <= metering.initialGasProvided
        BY <1>1, <2>1, IndirectType, IndirectGas
    <2>3. Books(metering, runtime) /\ OnlyPoints(wasm, Charged, instance)
        BY <1>1, RunningBooks, RunningTypes
    <2> HIDE DEF frame, input
    <2> QED BY <1>1, <1>4, <2>2, <2>3, DestGas
<1> QED BY <1>2, <1>3, <1>4 DEF TransferValueExecuteHook

\* transferESDTExecute.
LEMMA ESDTHookGas ==
    ASSUME FramesInv, GasInv, NEW dest \in Address, NEW limit \in Uint,
           NEW function, NEW code, IsInvocation(function, code),
           \/ TransferESDTFails(dest, limit, function, code)
           \/ TransferESDTExecuteHook(dest, limit, function, code)
    PROVE  GasCalls
<1> DEFINE input == IndirectInput(runtime.scAddress, dest, 0, limit, function, code)
           execution == ESDTExecution(dest, function)
           gas == IF execution THEN input.gasProvided - BuiltinCost ELSE 0
           transferred == UseGas(Charged, instance, BuiltinCost)
           sentAway == IF dest \in LocalAddress THEN 0 ELSE gas
           out == [AppendTransfer(output, dest, sentAway) EXCEPT !.logs = @ + 1]
<1>1. phase = "running"
    BY DEF TransferESDTFails, TransferESDTExecuteHook, Running
<1>2. /\ runtime.scAddress \in Address /\ BuiltinCost \in Uint
      /\ OnlyPoints(wasm, Charged, instance) /\ OnlyPoints(wasm, transferred, instance)
    BY <1>1, ActiveTypes, RunningTypes, UseMoreGas, VMHostAssumption
<1>3. CASE TransferESDTFails(dest, limit, function, code)
    <2>1. /\ Fault(output, metering, Charged, instance)
          /\ UNCHANGED <<meteringVars, runtimeVars>>
        BY <1>3 DEF TransferESDTFails
    <2> QED BY <1>1, <1>2, <2>1, FaultGas DEF GasCalls
<1>4. CASE TransferESDTExecuteHook(dest, limit, function, code)
    <2>1. input.gasProvided \in Uint /\ input.gasProvided <= metering.initialGasProvided
        BY <1>1, IndirectGas
    <2>2. CanTransferESDT(input, execution) /\ function # "builtin"
        BY <1>4 DEF TransferESDTExecuteHook
    <2>3. gas \in Uint /\ (execution => gas <= metering.initialGasProvided)
        <3>1. CASE execution
            <4>1. BuiltinCost <= input.gasProvided
                BY <2>2, <3>1 DEF CanTransferESDT
            <4>2. /\ input.gasProvided - BuiltinCost \in Uint
                  /\ input.gasProvided - BuiltinCost <= metering.initialGasProvided
                <5> HIDE DEF input
                <5> QED BY <1>1, <1>2, <2>1, <4>1, RunningBooks, MaxUintAssumption DEF Uint
            <4> QED BY <3>1, <4>2
        <3>2. CASE ~execution
            BY <3>2, ZeroIsWord
        <3> QED BY <3>1, <3>2
    <2>4. sentAway \in Uint
        BY <2>3, ZeroIsWord
    <2>5. CASE execution /\ dest \in LocalAddress
        <3> DEFINE frame == Frame("dest", "transferESDTExecute")
                   rest == [input EXCEPT !.gasProvided = gas]
        <3>1. function \in ContractFunctions
            BY <2>2, <2>5 DEF ESDTExecution, IsInvocation, FunctionNames
        <3>2. input \in Execution
            BY <1>1, <1>2, <3>1, IndirectType
        <3>3. ExecuteOnDestContext(frame, rest, out, metering, transferred)
            BY <1>4, <2>5 DEF TransferESDTExecuteHook
        <3> HIDE DEF input, frame, gas, out
        <3>4. rest \in Execution /\ rest.gasProvided = gas
            BY <2>3, <3>2, LessGasType DEF Execution, Runtime
        <3>5. Books(metering, runtime)
            BY <1>1, RunningBooks
        <3> HIDE DEF rest, transferred
        <3> QED BY <1>1, <1>2, <2>3, <2>5, <3>3, <3>4, <3>5, DestGas
    <2>6. CASE ~(execution /\ dest \in LocalAddress)
        <3>1. /\ wasm' = UseGas(transferred, instance, sentAway) /\ HookReturns(0)
              /\ UNCHANGED <<meteringVars, runtimeVars>>
            BY <1>4, <2>6 DEF TransferESDTExecuteHook
        <3> HIDE DEF sentAway, transferred
        <3>2. OnlyPoints(wasm, wasm', instance)
            BY <1>1, <1>2, <2>4, <3>1, UseMoreGas
        <3> QED BY <1>1, <3>1, <3>2, HookGas DEF GasCalls
    <2> QED BY <2>5, <2>6
<1> QED BY <1>3, <1>4

\* CreateNewContract.
LEMMA CreateGas ==
    ASSUME FramesInv, GasInv, phase = "running", NEW out \in VMOutput,
           NEW code \in Code, NEW value \in Nat, NEW limit \in Uint,
           CreateNewContract(out, code, value, limit)
    PROVE  GasCalls
<1> DEFINE sender == runtime.scAddress
           cost == CompileCost[code]
           payable == CanDeductInitialGas(runtime.gasProvided, cost)
           deducted == IF payable THEN DeductInitialGas(metering, runtime.gasProvided, cost)
                       ELSE metering
           newAddress == NewAddressOf[sender, NonceOf(out, sender)]
           input == IndirectInput(sender, newAddress, value, limit, "init", NoCode)
           frame == [kind |-> "dest", hook |-> "createContract", newAddress |-> newAddress]
           installed == SetCode(out, newAddress, code)
<1>1. runtime.scAddress \in Address /\ OnlyPoints(wasm, Charged, instance)
    BY ActiveTypes, RunningTypes
<1>2. newAddress \in Address
    <2>1. AccountOf(out, sender) \in Account
        BY <1>1, AccountOfType
    <2>2. NonceOf(out, sender) \in Nat
        BY <2>1 DEF NonceOf, Account
    <2>3. NonceOf(out, sender) <= MaxNonce
        BY Zenon DEF CreateNewContract
    <2>4. NonceOf(out, sender) \in 0 .. MaxNonce
        BY <2>2, <2>3, VMHostAssumption
    <2>5. NewAddressOf \in [Address \X (0 .. MaxNonce) -> Address]
        BY VMHostAssumption
    <2> QED BY <1>1, <2>4, <2>5, Zenon
<1>3. /\ deducted.initialGasProvided = metering.initialGasProvided
      /\ Books(deducted, runtime)
    <2>1. cost \in Uint
        BY VMHostAssumption
    <2> QED BY <2>1, RunningBooks, DeductBooks
<1>4. CASE ExecuteOnDestContext(frame, input, installed, deducted, Charged)
    <2> HIDE DEF newAddress
    <2>1. input \in Execution /\ input.gasProvided <= metering.initialGasProvided
        <3>1. IsInvocation("init", NoCode) /\ "init" \in ContractFunctions
            BY DEF IsInvocation, FunctionNames, ContractFunctions
        <3> QED BY <1>1, <1>2, <3>1, IndirectType, IndirectGas
    <2> HIDE DEF frame, input, installed, deducted
    <2> QED BY <1>1, <1>3, <1>4, <2>1, DestGas
<1>5. CASE /\ metering' = deducted /\ wasm' = Charged /\ HookReturns(1)
           /\ UNCHANGED <<meteringStack, runtimeVars>>
    <2> HIDE DEF deducted
    <2> QED BY <1>1, <1>3, <1>5 DEF GasCalls, GasStays, HookReturns, runtimeVars
<1>6. \/ ExecuteOnDestContext(frame, input, installed, deducted, Charged)
      \/ /\ metering' = deducted /\ wasm' = Charged /\ HookReturns(1)
         /\ UNCHANGED <<meteringStack, runtimeVars>>
    BY Zenon DEF CreateNewContract
<1> HIDE DEF newAddress, frame, input, installed, deducted
<1> QED BY <1>4, <1>5, <1>6

\* createContract and deployFromSourceContract.
LEMMA CreateHookGas ==
    ASSUME FramesInv, GasInv, NEW value \in Nat, NEW limit \in Uint,
           \/ \E code \in Code : CreateContractHook(code, value, limit)
           \/ \E source \in Address : DeployFromSourceContractHook(source, value, limit)
    PROVE  GasCalls
<1>1. phase = "running"
    BY DEF CreateContractHook, DeployFromSourceContractHook, Running
<1>2. output \in VMOutput /\ OnlyPoints(wasm, Charged, instance)
    BY <1>1, ActiveTypes, RunningTypes
<1>3. ASSUME NEW code \in Code, CreateContractHook(code, value, limit) PROVE GasCalls
    BY <1>1, <1>2, <1>3, CreateGas DEF CreateContractHook
<1>4. ASSUME NEW source \in Address, DeployFromSourceContractHook(source, value, limit)
      PROVE  GasCalls
    <2> DEFINE code == GetCode(output, source)
               cached == SetCode(output, source, code)
    <2>1. code \in Code \cup {NoCode}
        BY <1>2, GetCodeType
    <2>2. CASE code # NoCode
        <3>1. CreateNewContract(cached, code, value, limit)
            BY <1>4, <2>2 DEF DeployFromSourceContractHook
        <3>2. code \in Code
            BY <2>1, <2>2
        <3> HIDE DEF code
        <3>3. cached \in VMOutput
            BY <1>2, <2>1, SetCodeType
        <3> HIDE DEF cached
        <3> QED BY <1>1, <3>1, <3>2, <3>3, CreateGas
    <2>3. CASE code = NoCode
        <3>1. /\ Fault(cached, metering, Charged, instance)
              /\ UNCHANGED <<meteringVars, runtimeVars>>
            BY <1>4, <2>3 DEF DeployFromSourceContractHook
        <3> HIDE DEF cached
        <3> QED BY <1>1, <1>2, <3>1, FaultGas DEF GasCalls
    <2> QED BY <2>2, <2>3
<1> QED BY <1>3, <1>4

\* storageStore.
LEMMA StoreHookGas ==
    ASSUME FramesInv, GasInv, NEW value \in Value, StorageStoreHook(value) PROVE GasCalls
<1> DEFINE old == GetStorage(output, address)
<1>1. phase = "running"
    BY DEF StorageStoreHook, Running
<1>2. /\ output \in VMOutput /\ address \in Address
      /\ OnlyPoints(wasm, Charged, instance)
    BY <1>1, ActiveTypes, RunningTypes
<1>3. HookReturns(0) /\ UNCHANGED <<meteringVars, runtimeVars>>
    BY DEF StorageStoreHook
<1>4. \/ wasm' = Charged
      \/ wasm' = UseGas(Charged, instance, StorageGas(old, value))
    BY DEF StorageStoreHook
<1>5. StorageGas(old, value) \in Uint
    <2>1. AccountOf(output, address) \in Account
        BY <1>2, AccountOfType
    <2>2. old \in Value
        BY <2>1, OutputAssumption DEF GetStorage, Account
    <2> HIDE DEF old
    <2> QED BY <2>2, StorageGasType
<1> HIDE DEF old
<1>6. OnlyPoints(wasm, wasm', instance)
    BY <1>1, <1>2, <1>4, <1>5, UseMoreGas
<1> QED BY <1>1, <1>3, <1>6, HookGas DEF GasCalls

\* writeLog, bigIntNew and signalError.
LEMMA LocalHookGas ==
    ASSUME FramesInv, GasInv, WriteLogHook \/ BigIntNewHook \/ SignalErrorHook PROVE GasCalls
<1>1. phase = "running"
    BY DEF WriteLogHook, BigIntNewHook, SignalErrorHook, Running
<1>2. wasm' = Charged /\ UNCHANGED <<meteringVars, runtimeVars>> /\ phase' \in {"running", "finish"}
    BY <1>1 DEF WriteLogHook, BigIntNewHook, SignalErrorHook, Stops, HookReturns
<1>3. OnlyPoints(wasm, wasm', instance)
    BY <1>1, <1>2, RunningTypes
<1> QED BY <1>1, <1>2, <1>3, RunningBooks DEF GasCalls, GasStays, Books, meteringVars, runtimeVars

\* Every API function.
LEMMA EveryHookGas ==
    ASSUME FramesInv, GasInv, Hook PROVE GasCalls
<1>1. /\ Recipients \subseteq Address /\ CallValues \subseteq Nat /\ GasLimits \subseteq Uint
    BY VMHostAssumption
<1>2. ASSUME NEW dest \in Recipients, NEW value \in CallValues, NEW limit \in GasLimits,
             NEW f \in Invocations,
             \/ ExecuteOnDestContextHook(dest, value, limit, f[1], f[2])
             \/ ExecuteOnDestContextByCallerHook(dest, value, limit, f[1], f[2])
             \/ ExecuteOnSameContextHook(dest, value, limit, f[1], f[2])
      PROVE  GasCalls
    BY <1>1, <1>2, InvocationType, CallHookGas
<1>3. ASSUME NEW dest \in Recipients, NEW value \in CallValues, NEW limit \in GasLimits,
             NEW f \in Invocations, TransferValueExecuteHook(dest, value, limit, f[1], f[2])
      PROVE  GasCalls
    BY <1>1, <1>3, InvocationType, TransferHookGas
<1>4. ASSUME NEW dest \in Recipients, NEW limit \in GasLimits, NEW f \in Invocations,
             \/ DelegateExecutionHook(dest, limit, f[1], f[2])
             \/ ExecuteReadOnlyHook(dest, limit, f[1], f[2])
      PROVE  GasCalls
    <2>1. 0 \in Nat
        OBVIOUS
    <2> QED BY <1>1, <1>4, <2>1, InvocationType, CallHookGas
<1>5. ASSUME NEW dest \in Recipients, NEW limit \in GasLimits, NEW f \in Invocations,
             \/ TransferESDTFails(dest, limit, f[1], f[2])
             \/ TransferESDTExecuteHook(dest, limit, f[1], f[2])
      PROVE  GasCalls
    BY <1>1, <1>5, InvocationType, ESDTHookGas
<1>6. ASSUME NEW dest, NEW hook,
             SyncCallToOtherShard(hook, dest) \/ BadArguments(hook) \/ RefuseBuiltinFunction(hook)
      PROVE  GasCalls
    BY <1>6, RefusedGas
<1>7. ASSUME NEW dest \in Recipients, NEW limit \in GasLimits,
             \/ BuiltinFunctionFails(dest, limit)
             \/ BuiltinFunctionDone(dest, limit)
             \/ BuiltinFunctionRefused(dest, limit)
             \/ BuiltinFunctionThenCall(dest, limit)
      PROVE  GasCalls
    BY <1>1, <1>7, BuiltinGas
<1>8. ASSUME NEW dest \in Recipients, NEW value \in CallValues, TransferValueHook(dest, value)
      PROVE  GasCalls
    <2>1. 0 \in Uint /\ IsInvocation("none", NoCode)
        BY ZeroIsWord DEF IsInvocation, FunctionNames
    <2> QED BY <1>1, <1>8, <2>1, TransferHookGas
<1>9. ASSUME NEW code \in Code, NEW value \in CallValues, NEW limit \in GasLimits,
             CreateContractHook(code, value, limit)
      PROVE  GasCalls
    BY <1>1, <1>9, CreateHookGas
<1>10. ASSUME NEW source \in Recipients, NEW value \in CallValues, NEW limit \in GasLimits,
              DeployFromSourceContractHook(source, value, limit)
       PROVE  GasCalls
    BY <1>1, <1>10, CreateHookGas
<1>11. ASSUME NEW value \in Value, StorageStoreHook(value) PROVE GasCalls
    BY <1>11, StoreHookGas
<1>12. CASE WriteLogHook \/ BigIntNewHook \/ SignalErrorHook
    BY <1>12, LocalHookGas
<1> QED BY <1>2, <1>3, <1>4, <1>5, <1>6, <1>7, <1>8, <1>9, <1>10, <1>11, <1>12 DEF Hook

-----------------------------------------------------------------------------
(* The gas of runs, and of the steps of contracts *)

\* What is used on an instance is no less than what was just added to it, as long
\* as that fits in a signed number.
LEMMA UseGasAdds ==
    ASSUME NEW w \in Instances, NEW id \in InstanceIds \ {0}, NEW gas \in Uint, gas <= MaxInt
    PROVE  gas <= UseGas(w, id, gas)[id].used
<1> DEFINE sum == AddUint64(w[id].used, gas)
<1>1. w[id] \in Instance /\ w[id].used \in Uint
    BY UsedType DEF Instances
<1>2. sum \in Uint
    BY <1>1, WordTypes
<1>3. gas <= sum
    <2> DEFINE s == WrapU(w[id].used + gas)
    <2>1. sum = IF s >= w[id].used /\ s >= gas THEN s ELSE MaxUint
        BY DEF AddUint64
    <2> HIDE DEF s, sum
    <2>2. gas \in Int /\ gas <= MaxUint /\ MaxUint \in Int
        BY MaxUintAssumption DEF Uint
    <2>3. CASE s >= gas /\ sum = s
        BY <2>3
    <2>4. CASE sum = MaxUint
        BY <2>2, <2>4
    <2> QED BY <2>1, <2>3, <2>4
<1>4. UseGas(w, id, gas)[id].used = SetPointsUsed(sum)
    BY <1>1 DEF UseGas, Instances, Instance
<1> HIDE DEF sum
<1>5. gas <= SetPointsUsed(sum)
    BY <1>2, <1>3 DEF SetPointsUsed
<1> QED BY <1>4, <1>5

\* host.execute: the gas of the callee is used up on the caller's instance.
LEMMA ExecuteGas ==
    ASSUME FramesInv, GasInv, Execute PROVE GasBegins
<1> DEFINE n == Len(instanceStack)
<1>1. phase = "execute"
    BY DEF Execute, RefuseInit, ExecuteCall, ExecuteUpgrade
<1>2. /\ wasm \in Instances /\ instance \in InstanceIds /\ OnlyPoints(wasm, wasm, instance)
      /\ output \in VMOutput /\ runtime.scAddress \in Address /\ runtime \in Execution
    BY <1>1, ActiveTypes
<1>3. TypeOK /\ InstancesInv
    BY DEF FramesInv, HostInv
<1>4. /\ Books(metering, runtime) /\ metering \in Metering
      /\ runtime.gasProvided \in Uint /\ runtime.gasProvided <= MaxInt
      /\ metering.initialGasProvided = runtime.gasProvided
    BY <1>1, RunningBooks DEF Books
<1>5. UNCHANGED <<meteringStack, runtime, runtimeStack, instanceStack>>
    BY DEF Execute
<1>6. /\ n \in Nat \ {0} /\ DOMAIN instanceStack = 1 .. n
      /\ instance = instanceStack[n] /\ Last(instanceStack) = instance
      /\ \A k \in 1 .. n : instanceStack[k] \in InstanceIds \ {0}
    <2>1. instanceStack # <<>> /\ instance = Last(instanceStack) /\ IsStack(instanceStack)
        BY <1>1, <1>3, InstanceTypes DEF InstancesInv
    <2> QED BY <1>3, <2>1, StackPop, InstanceTypes DEF InstancesInv
<1>7. instance \in InstanceIds \ {0} /\ \A k \in 1 .. n : k < n => instanceStack[k] # instance
    <2>1. \A j, k \in 1 .. n : instanceStack[j] = instanceStack[k] => j = k
        BY <1>3, <1>6 DEF InstancesInv
    <2>2. n \in 1 .. n
        BY <1>6
    <2> QED BY <1>6, <2>1, <2>2
<1> HIDE DEF n
<1>8. /\ OnlyPoints(wasm, ChargeCaller, instance)
      /\ runtime.gasProvided <= ChargeCaller[instance].used
    BY <1>2, <1>4, <1>7, UseGasPoints, UseGasAdds DEF ChargeCaller
<1>9. ASSUME OnlyPoints(wasm, wasm', instance), phase' = "finish", metering' = metering
      PROVE  GasBegins
    <2>1. \A k \in 1 .. n : k < n => wasm'[instanceStack[k]] = wasm[instanceStack[k]]
        BY <1>6, <1>7, <1>9 DEF OnlyPoints
    <2> QED BY <1>1, <1>4, <1>5, <1>6, <1>9, <2>1 DEF GasBegins, n
<1>10. ASSUME NEW code, StartWasmerInstance(code, ChargeCaller), NEW cost \in Uint,
              CanDeductInitialGas(runtime.gasProvided, cost),
              metering' = DeductInitialGas(metering, runtime.gasProvided, cost)
       PROVE  GasBegins
    <2>1. /\ Books(metering', runtime) /\ metering' \in Metering
          /\ metering'.initialGasProvided = metering.initialGasProvided
        BY <1>4, <1>10, DeductBooks, DeductType
    <2>2. phase = "idle" => instanceStack = <<>>
        BY <1>1
    <2>3. /\ phase' \in {"running", "finish"}
          /\ \A i \in InstanceIds \ {0} : i # instance /\ i # instance' => wasm'[i] = wasm[i]
          /\ \A k \in DOMAIN instanceStack : instanceStack[k] # instance'
        BY <1>1, <1>3, <1>5, <1>8, <1>10, <2>1, <2>2, StartInstances
    <2>4. \A k \in 1 .. n : k < n => wasm'[instanceStack[k]] = wasm[instanceStack[k]]
        BY <1>6, <1>7, <2>3
    <2>5. phase' = "running" => wasm'[instance] = ChargeCaller[instance]
        <3>1. ASSUME phase' = "running" PROVE wasm'[instance] = ChargeCaller[instance]
            <4>1. PICK started : wasm' = [ChargeCaller EXCEPT ![instance'] = started]
                BY <1>10, <3>1 DEF StartWasmerInstance
            <4>2. instance # instance' /\ DOMAIN ChargeCaller = InstanceIds \ {0}
                BY <1>6, <1>8, <2>3 DEF OnlyPoints, Instances
            <4> QED BY <1>7, <4>1, <4>2
        <3> QED BY <3>1
    <2> QED BY <1>1, <1>4, <1>5, <1>6, <1>8, <2>1, <2>3, <2>4, <2>5 DEF GasBegins, n
<1>11. CASE RefuseInit
    BY <1>2, <1>9, <1>11 DEF RefuseInit, FailBeforeStart
<1>12. ASSUME NEW e, FailCharged(e), metering' = metering PROVE GasBegins
    BY <1>8, <1>9, <1>12 DEF FailCharged
<1>13. CASE ExecuteCall
    <2> DEFINE code == GetCode(output, runtime.scAddress)
    <2>1. code \in Code \cup {NoCode}
        BY <1>2, GetCodeType
    <2>2. \/ FailCharged("ErrContractNotFound") /\ metering' = metering
          \/ FailCharged("ErrNotEnoughGas") /\ metering' = metering
          \/ /\ code # NoCode /\ CanDeductInitialGas(runtime.gasProvided, PrepareCost[code])
             /\ metering' = DeductInitialGas(metering, runtime.gasProvided, PrepareCost[code])
             /\ StartWasmerInstance(code, ChargeCaller)
        BY <1>13 DEF ExecuteCall
    <2> HIDE DEF code
    <2>3. code # NoCode => PrepareCost[code] \in Uint
        BY <2>1, VMHostAssumption
    <2> QED BY <1>10, <1>12, <2>2, <2>3
<1>14. CASE ExecuteUpgrade
    <2> DEFINE cost == AddUint64(CreateCost, CompileCost[runtime.code])
    <2>1. \/ FailCharged("ErrUpgradeNotAllowed") /\ metering' = metering
          \/ FailCharged("ErrNotEnoughGas") /\ metering' = metering
          \/ /\ CanDeductInitialGas(runtime.gasProvided, cost)
             /\ metering' = DeductInitialGas(metering, runtime.gasProvided, cost)
             /\ StartWasmerInstance(runtime.code, ChargeCaller)
        BY <1>14 DEF ExecuteUpgrade
    <2>2. cost \in Uint
        <3>1. runtime.code \in Code
            BY <1>2, <1>14 DEF ExecuteUpgrade, Execution
        <3>2. CompileCost[runtime.code] \in Uint /\ CreateCost \in Uint
            BY <3>1, VMHostAssumption
        <3> QED BY <3>2, WordTypes
    <2> HIDE DEF cost
    <2> QED BY <1>10, <1>12, <2>1, <2>2
<1> QED BY <1>11, <1>13, <1>14 DEF Execute

\* The instructions of a contract and the ways in which it ends.
LEMMA WasmGas ==
    ASSUME FramesInv, GasInv, Wasm PROVE GasStays
<1>1. phase = "running"
    BY DEF Wasm, ExecuteInstructions, OutOfGas, Trap, Return
<1>2. UNCHANGED <<meteringVars, runtimeVars>> /\ phase' \in {"running", "finish"}
    BY <1>1 DEF Wasm, ExecuteInstructions, OutOfGas, Trap, Return, Stops
<1>3. wasm' = wasm \/ \E gas \in InstructionGas : wasm' = UseGas(wasm, instance, gas)
    BY DEF Wasm, ExecuteInstructions, OutOfGas, Trap, Return, Stops
<1>4. InstructionGas \subseteq Uint /\ OnlyPoints(wasm, wasm, instance)
    BY <1>1, ActiveTypes, VMHostAssumption
<1>5. OnlyPoints(wasm, wasm', instance)
    BY <1>1, <1>3, <1>4, UseMoreGas
<1> QED BY <1>1, <1>2, <1>5, RunningBooks DEF GasStays, Books, meteringVars, runtimeVars

\* A run begins with the gas of its transaction.
LEMMA RunGasStarts ==
    ASSUME RunGas \subseteq 0 .. MaxInt, Run PROVE GasStarts
<1>1. PICK gas, dest, value, function, code, out, cost :
          InitContexts(Input(dest, TxSender, value, gas, function, code), out, cost)
          /\ gas \in RunGas /\ cost \in Uint
    <2>1. ASSUME NEW dest \in Entrypoints, NEW value \in CallValues, NEW gas \in RunGas,
                 RunSmartContractCall(dest, value, gas)
          PROVE  \E out : \E cost \in Uint :
                    InitContexts(Input(dest, TxSender, value, gas, "call", NoCode), out, cost)
        <3> DEFINE paid == AddTxValueToAccount(NewVMOutput, dest, value)
                   code == GetCode(paid, dest)
                   cost == IF code = NoCode THEN 0 ELSE PrepareCost[code]
        <3>1. \E out : InitContexts(Input(dest, TxSender, value, gas, "call", NoCode), out, cost)
            BY <2>1 DEF RunSmartContractCall
        <3>2. paid \in VMOutput /\ dest \in Address
            BY StartDeltas, VMHostAssumption
        <3>3. code \in Code \cup {NoCode}
            <4> HIDE DEF paid
            <4> QED BY <3>2, GetCodeType
        <3>4. cost \in Uint
            <4> HIDE DEF code
            <4> QED BY <3>3, VMHostAssumption, ZeroIsWord
        <3> QED BY <3>1, <3>4
    <2>2. ASSUME NEW d \in Deployments, NEW value \in CallValues, NEW gas \in RunGas,
                 RunCodeDeployment(d[1], d[2], value, gas)
          PROVE  \E out : \E cost \in Uint :
                    InitContexts(Input(d[1], TxSender, value, gas, "init", d[2]), out, cost)
        <3>1. AddUint64(CreateCost, CompileCost[d[2]]) \in Uint
            BY VMHostAssumption, WordTypes
        <3> QED BY <2>2, <3>1 DEF RunCodeDeployment
    <2> QED BY <2>1, <2>2 DEF Run
<1> DEFINE input == Input(dest, TxSender, value, gas, function, code)
           m == MeteringFromInput(gas)
<1>2. input.gasProvided = gas
    BY DEF Input
<1>3. gas \in Uint /\ gas <= MaxInt /\ cost \in Uint
    <2>1. gas \in RunGas /\ gas \in 0 .. MaxInt /\ cost \in Uint
        BY <1>1
    <2>2. RunGas \subseteq Uint
        BY VMHostAssumption
    <2>3. gas <= MaxInt
        BY <2>1, Bounds
    <2> QED BY <2>1, <2>2, <2>3
<1>4. m \in Metering /\ Books(m, input)
    <2>1. m.initialGasProvided = gas /\ m.gasForExecution = gas
        BY DEF MeteringFromInput, InitMetering
    <2> QED BY <1>2, <1>3, <2>1, MeteringFromInputType, MaxUintAssumption DEF Books, Uint
<1>5. /\ meteringStack' = <<>> /\ runtime' = input
      /\ metering' = IF CanDeductInitialGas(gas, cost) THEN DeductInitialGas(m, gas, cost) ELSE m
    BY <1>1, <1>2 DEF InitContexts
<1> HIDE DEF input, m
<1>6. Books(metering', input)
    BY <1>2, <1>3, <1>4, <1>5, DeductBooks
<1> QED BY <1>5, <1>6 DEF GasStarts

\* The end of the API function that made the call: points change on the caller's
\* instance only.
LEMMA ReportGas ==
    ASSUME FramesInv, phase = "finish", Last(calls).kind \in {"dest", "same"},
           NEW failed, NEW out, NEW m \in Metering,
           NEW w, OnlyPoints(PoppedInstances, w, Last(instanceStack)),
           CallReports(failed, out, m, w)
    PROVE  metering' = m /\ OnlyPoints(PoppedInstances, wasm', Last(instanceStack))
<1> DEFINE id == Last(instanceStack)
<1>1. id \in InstanceIds \ {0}
    <2>1. phase # "idle"
        OBVIOUS
    <2> QED BY <2>1, TopFrame
<1>2. w \in Instances
    BY DEF OnlyPoints
<1>3. metering' = m /\ (Fault(out, m, w, id) \/ wasm' = w)
    BY DEF CallReports
<1> HIDE DEF id
<1>4. CASE Fault(out, m, w, id)
    <2>1. GasLeft(m, w[id].used) \in Uint
        BY <1>1, <1>2, UsedType, GasLeftType
    <2>2. OnlyPoints(w, wasm', id)
        BY <1>1, <1>2, <1>4, <2>1, UseGasPoints DEF Fault
    <2> QED BY <1>3, <2>2, PointsCompose DEF id
<1> QED BY <1>3, <1>4

\* What all the ways of finishing a callee do to the gas.
LEMMA LeaveGas ==
    ASSUME FramesInv, phase = "finish", Last(calls).kind \in {"dest", "same"},
           LeaveCallee(CallerRuntime), NEW failed, NEW out, NEW m \in Metering,
           m.initialGasProvided = Last(meteringStack).initialGasProvided,
           m.gasForExecution = Last(meteringStack).gasForExecution,
           NEW w, OnlyPoints(PoppedInstances, w, Last(instanceStack)),
           CallReports(failed, out, m, w)
    PROVE  GasLeaves
<1>1. meteringStack # <<>> /\ Last(runtimeStack) \in Runtime
    <2>1. phase # "idle"
        OBVIOUS
    <2> QED BY <2>1, TopFrame DEF Execution
<1>2. CallerRuntime.gasProvided = Last(runtimeStack).gasProvided
    <2> DEFINE r == Last(runtimeStack)
    <2>1. [r EXCEPT !.readOnly = FALSE].gasProvided = r.gasProvided
        <3> HIDE DEF r
        <3> QED BY <1>1 DEF Runtime, r
    <2> QED BY <2>1 DEF CallerRuntime
<1>3. metering' = m /\ OnlyPoints(PoppedInstances, wasm', Last(instanceStack))
    BY ReportGas
<1>4. \A i \in InstanceIds \ {0} : i # instance => PoppedInstances[i] = wasm[i]
    <2>1. wasm \in Instances
        BY DEF FramesInv, HostInv, TypeOK, Instances
    <2> QED BY <2>1, CleanType DEF PoppedInstances
<1>5. \A i \in InstanceIds \ {0} : i # instance /\ i # Last(instanceStack) => wasm'[i] = wasm[i]
    BY <1>3, <1>4 DEF OnlyPoints
<1> QED BY <1>1, <1>2, <1>3, <1>5 DEF GasLeaves, LeaveCallee

\* finishExecuteOnDestContext and finishExecuteOnSameContext.
LEMMA FinishGas ==
    ASSUME FramesInv, FinishDestFailed \/ FinishDestOk \/ FinishSameFailed \/ FinishSameOk
    PROVE  GasLeaves
<1> DEFINE id == Last(instanceStack)
           saved == Last(meteringStack)
           merged == MergeMetering(ClosedMetering, saved)
<1>1. phase = "finish" /\ Last(calls).kind \in {"dest", "same"} /\ LeaveCallee(CallerRuntime)
    BY DEF FinishDestFailed, FinishDestOk, FinishSameFailed, FinishSameOk
<1>2. saved \in Metering /\ ClosedMetering \in Metering /\ GasRemaining \in Uint /\ 0 \in Uint
    <2>1. phase # "idle"
        BY <1>1
    <2> QED BY <1>1, <2>1, TopFrame, ClosedTypes, ZeroIsWord
<1>3. /\ merged \in Metering /\ merged.initialGasProvided = saved.initialGasProvided
      /\ merged.gasForExecution = saved.gasForExecution
    <2> HIDE DEF saved
    <2>1. merged \in Metering
        BY <1>2, MergeMeteringType
    <2> QED BY <1>2, <2>1 DEF MergeMetering, Metering
<1>4. /\ OnlyPoints(PoppedInstances, PoppedInstances, id)
      /\ OnlyPoints(PoppedInstances, RestoreGas(PoppedInstances, id, GasRemaining), id)
      /\ OnlyPoints(PoppedInstances, RestoreGas(PoppedInstances, id, 0), id)
    BY <1>1, <1>2, PoppedType
<1>5. CASE FinishDestFailed \/ FinishSameFailed
    <2>1. PICK out, w : /\ CallReports(TRUE, out, saved, w)
                        /\ \/ w = PoppedInstances
                           \/ w = RestoreGas(PoppedInstances, id, GasRemaining)
                           \/ w = RestoreGas(PoppedInstances, id, 0)
        BY <1>5 DEF FinishDestFailed, FinishSameFailed
    <2>2. OnlyPoints(PoppedInstances, w, id)
        BY <1>4, <2>1
    <2> QED BY <1>1, <1>2, <2>1, <2>2, LeaveGas
<1>6. CASE FinishDestOk \/ FinishSameOk
    <2>1. PICK out, gas : /\ gas = 0 \/ gas = GasRemaining
                          /\ CallReports(FALSE, out, merged, RestoreGas(PoppedInstances, id, gas))
        <3>1. CASE FinishDestOk
            BY <3>1 DEF FinishDestOk
        <3>2. CASE FinishSameOk
            BY <3>2 DEF FinishSameOk
        <3> QED BY <1>6, <3>1, <3>2
    <2>2. OnlyPoints(PoppedInstances, RestoreGas(PoppedInstances, id, gas), id)
        BY <1>4, <2>1
    <2> HIDE DEF merged
    <2> QED BY <1>1, <1>3, <2>1, <2>2, LeaveGas
<1> QED BY <1>5, <1>6

-----------------------------------------------------------------------------
(* Gas is never created *)

\* One case per action of the host.
LEMMA ActionGas ==
    ASSUME RunGas \subseteq 0 .. MaxInt, FramesInv, GasInv, Next PROVE GasStep
<1>1. CASE Run
    BY <1>1, RunGasStarts DEF GasStep
<1>2. CASE Execute
    BY <1>2, ExecuteGas DEF GasStep
<1>3. CASE Hook
    BY <1>3, EveryHookGas DEF GasStep, GasCalls
<1>4. CASE Wasm
    BY <1>4, WasmGas DEF GasStep
<1>5. CASE FinishDestFailed \/ FinishDestOk \/ FinishSameFailed \/ FinishSameOk
    BY <1>5, FinishGas DEF GasStep
<1>6. CASE FinishRun
    BY <1>6 DEF FinishRun, GasStep
<1> QED BY <1>1, <1>2, <1>3, <1>4, <1>5, <1>6 DEF Next, Finish

\* The invariant is inductive, relative to FramesInv.
LEMMA NextGas ==
    RunGas \subseteq 0 .. MaxInt /\ FramesInv /\ GasInv /\ [Next]_vars => GasInv'
<1>1. ASSUME RunGas \subseteq 0 .. MaxInt, FramesInv, GasInv, Next PROVE GasInv'
    BY <1>1, ActionGas, StepGas
<1>2. ASSUME GasInv, UNCHANGED vars PROVE GasInv'
    <2>1. UNCHANGED <<phase, metering, meteringStack, runtime, runtimeStack, instanceStack, wasm>>
        BY <1>2 DEF vars, contextVars, meteringVars, runtimeVars
    <2> QED BY <1>2, <2>1 DEF GasInv, Books, Given
<1> QED BY <1>1, <1>2

\* The gas left to a call and to its callee is no more than what it was given.
LEMMA GasLeftBounds ==
    ASSUME FramesInv, GasInv, phase = "running"
    PROVE  LET n == Len(calls) IN
           /\ n \in Nat /\ DOMAIN calls = 1 .. n
           /\ \A i \in 1 .. n :
                 /\ GasLeftOf(i) \in Int /\ Given(i) \in Int
                 /\ MeteringOf(i).initialGasProvided = Given(i)
                 /\ i < n => GasLeftOf(i) + Given(i + 1) <= Given(i)
                 /\ i = n => GasLeftOf(i) <= Given(i)
<1>0. PICK n : n = Len(meteringStack)
    OBVIOUS
<1>1. /\ n \in Nat /\ Len(calls) = n + 1 /\ DOMAIN meteringStack = 1 .. n
      /\ \A k \in 1 .. n : instanceStack[k] \in InstanceIds \ {0}
    BY <1>0, GasStacks
<1>2. DOMAIN calls = 1 .. n + 1
    BY <1>1, StackEmpty DEF FramesInv, HostInv, AlignedInv, CallsInv
<1>3. wasm \in Instances /\ instance \in InstanceIds \ {0}
    BY ActiveTypes, RunningTypes
<1>4. \A m \in Metering, points \in Uint :
         /\ GasLeft(m, points) \in Int /\ GasLeft(m, points) >= 0
         /\ GasLeft(m, points) = 0 \/ GasLeft(m, points) = m.gasForExecution - points
         /\ m.gasForExecution \in Int /\ m.initialGasProvided \in Int
         /\ m.initialGasProvided >= 0 /\ points >= 0 /\ points \in Int
    BY MaxUintAssumption DEF GasLeft, SubUint64, Metering, Uint
<1>5. ASSUME NEW i \in 1 .. n + 1
      PROVE  /\ GasLeftOf(i) \in Int /\ Given(i) \in Int
             /\ MeteringOf(i).initialGasProvided = Given(i)
             /\ i < n + 1 => GasLeftOf(i) + Given(i + 1) <= Given(i)
             /\ i = n + 1 => GasLeftOf(i) <= Given(i)
    <2>1. CASE i \in 1 .. n
        <3> DEFINE m == meteringStack[i]
                   points == wasm[instanceStack[i]].used
        <3>1. /\ i # n + 1 /\ i <= n
            BY <1>1, <2>1
        <3>2. GasLeftOf(i) = GasLeft(m, points) /\ MeteringOf(i) = m
            BY <1>1, <3>1 DEF GasLeftOf, MeteringOf
        <3>3. Given(i) = m.initialGasProvided
            BY <1>0, <3>1 DEF Given
        <3>4. m \in Metering /\ points \in Uint
            <4>1. meteringStack \in Seq(Metering)
                BY DEF FramesInv, HostInv, TypeOK
            <4> QED BY <1>0, <1>1, <1>3, <2>1, <4>1, UsedType
        <3>5. /\ Books(m, runtimeStack[i]) /\ Given(i + 1) <= Given(i) /\ Given(i + 1) <= points
            BY <1>1, <2>1 DEF GasInv
        <3>6. Given(i + 1) \in Int
            <4>1. CASE i + 1 <= n
                <5>1. meteringStack[i + 1] \in Metering
                    <6>1. meteringStack \in Seq(Metering)
                        BY DEF FramesInv, HostInv, TypeOK
                    <6>2. i + 1 \in 1 .. n
                        BY <1>1, <2>1, <4>1
                    <6> QED BY <1>0, <6>1, <6>2
                <5> QED BY <1>0, <1>4, <3>4, <4>1, <5>1 DEF Given
            <4>2. CASE ~(i + 1 <= n)
                <5>1. metering \in Metering
                    BY ActiveTypes
                <5> QED BY <1>0, <1>4, <3>4, <4>2, <5>1 DEF Given
            <4> QED BY <4>1, <4>2
        <3> HIDE DEF m, points
        <3>7. GasLeft(m, points) + Given(i + 1) <= Given(i)
            BY <1>4, <3>3, <3>4, <3>5, <3>6 DEF Books
        <3>8. GasLeft(m, points) \in Int /\ Given(i) \in Int
            BY <1>4, <3>3, <3>4
        <3> QED BY <3>1, <3>2, <3>3, <3>7, <3>8
    <2>2. CASE i = n + 1
        <3> DEFINE points == wasm[instance].used
        <3>1. GasLeftOf(i) = GasLeft(metering, points) /\ MeteringOf(i) = metering
            BY <1>1, <2>2 DEF GasLeftOf, MeteringOf
        <3>2. Given(i) = metering.initialGasProvided
            BY <1>0, <1>1, <2>2 DEF Given
        <3>3. metering \in Metering /\ points \in Uint /\ Books(metering, runtime)
            BY <1>3, UsedType, RunningBooks
        <3> HIDE DEF points
        <3>4. GasLeft(metering, points) \in Int /\ GasLeft(metering, points) <= Given(i)
              /\ Given(i) \in Int
            BY <1>4, <3>2, <3>3 DEF Books
        <3> QED BY <2>2, <3>1, <3>2, <3>4
    <2> QED BY <1>1, <2>1, <2>2
<1> QED BY <1>1, <1>2, <1>5

\* The sum of the gas left, as the sum of a function.
LEMMA GasLeftSum ==
    ASSUME NEW S, IsFiniteSet(S), \A i \in S : GasLeftOf(i) \in Int
    PROVE  MapThenSumSet(GasLeftOf, S) = SumOf([i \in S |-> GasLeftOf(i)])
<1> DEFINE f == [i \in S |-> GasLeftOf(i)]
           Rec(it) == it = [s \in SUBSET S |->
                 IF s = {} THEN 0
                 ELSE LET x == CHOOSE y \in s : TRUE
                      IN GasLeftOf(x) + it[s \ {x}]]
           iter == CHOOSE it : Rec(it)
<1>1. MapThenSumSet(GasLeftOf, S) = iter[S]
    BY Zenon DEF MapThenSumSet, MapThenFoldSet
<1>2. f \in [S -> Int] /\ \A i \in S : f[i] = GasLeftOf(i)
    OBVIOUS
<1> HIDE DEF f
<1>3. PICK it \in [SUBSET S -> Int] : Sums(it, f, S) /\ SumOf(f) = it[S]
    BY <1>2, SumOfIs
<1>4. \A s \in SUBSET S : s # {} => (CHOOSE y \in s : TRUE) \in s
    OBVIOUS
<1>5. ASSUME NEW g PROVE Sums(g, f, S) <=> Rec(g)
    <2>1. \A s \in SUBSET S : s # {} =>
            f[CHOOSE y \in s : TRUE] = GasLeftOf(CHOOSE y \in s : TRUE)
        BY <1>2, <1>4
    <2> DEFINE A(s) == IF s = {} THEN 0
                       ELSE LET x == CHOOSE y \in s : TRUE IN f[x] + g[s \ {x}]
               B(s) == IF s = {} THEN 0
                       ELSE LET x == CHOOSE y \in s : TRUE IN GasLeftOf(x) + g[s \ {x}]
    <2>2. ASSUME NEW s \in SUBSET S PROVE A(s) = B(s)
        <3>1. CASE s = {}
            BY <3>1
        <3>2. CASE s # {}
            <4>1. f[CHOOSE y \in s : TRUE] = GasLeftOf(CHOOSE y \in s : TRUE)
                BY <2>1, <3>2
            <4> DEFINE x == CHOOSE y \in s : TRUE
            <4>2. A(s) = f[x] + g[s \ {x}] /\ B(s) = GasLeftOf(x) + g[s \ {x}]
                BY <3>2
            <4>3. f[x] = GasLeftOf(x)
                BY <4>1
            <4> HIDE DEF x, A, B
            <4> QED BY <4>2, <4>3
        <3> QED BY <3>1, <3>2
    <2>3. Sums(g, f, S) <=> g = [s \in SUBSET S |-> A(s)]
        BY DEF Sums
    <2>4. Rec(g) <=> g = [s \in SUBSET S |-> B(s)]
        OBVIOUS
    <2>5. [s \in SUBSET S |-> A(s)] = [s \in SUBSET S |-> B(s)]
        <3> HIDE DEF A, B
        <3> QED BY <2>2
    <2> HIDE DEF A, B, Rec
    <2> QED BY <2>3, <2>4, <2>5
<1>6. Rec(it)
    BY <1>3, <1>5
<1> HIDE DEF Rec
<1>7. Rec(iter)
    BY <1>6
<1> HIDE DEF iter
<1>8. Sums(iter, f, S)
    BY <1>5, <1>7
<1>9. iter[S] = it[S]
    BY <1>3, <1>8, SumsUnique
<1> QED BY <1>1, <1>3, <1>9 DEF f

\* The invariant bounds the gas left by the gas that was given, from the innermost
\* call outwards.
LEMMA GasInvBounds ==
    ASSUME FramesInv, GasInv PROVE GasNeverCreated
<1> SUFFICES ASSUME phase = "running" PROVE GasNeverCreated
    BY DEF GasNeverCreated
<1>0. PICK n : n = Len(calls)
    OBVIOUS
<1>1. /\ n \in Nat /\ DOMAIN calls = 1 .. n
      /\ \A i \in 1 .. n : /\ GasLeftOf(i) \in Int /\ Given(i) \in Int
                           /\ MeteringOf(i).initialGasProvided = Given(i)
                           /\ i < n => GasLeftOf(i) + Given(i + 1) <= Given(i)
                           /\ i = n => GasLeftOf(i) <= Given(i)
    BY <1>0, GasLeftBounds
<1> DEFINE g == [i \in 1 .. n |-> GasLeftOf(i)]
           h == [i \in 1 .. n |-> Given(i)]
<1>2. /\ g \in [1 .. n -> Int] /\ h \in [1 .. n -> Int]
      /\ \A i \in 1 .. n : g[i] = GasLeftOf(i) /\ h[i] = Given(i)
    BY <1>1
<1> HIDE DEF g, h
<1>3. \A i \in 1 .. n : /\ i < n => g[i] + h[i + 1] <= h[i]
                        /\ i = n => g[i] <= h[i]
    <2> TAKE i \in 1 .. n
    <2>1. CASE i < n
        <3>1. i + 1 \in 1 .. n /\ i # n
            BY <1>1, <2>1
        <3> QED BY <1>1, <1>2, <2>1, <3>1
    <2>2. CASE i = n
        <3>1. ~(i < n)
            BY <1>1, <2>2
        <3> QED BY <1>1, <1>2, <2>2, <3>1
    <2>3. i < n \/ i = n
        BY <1>1
    <2> QED BY <2>1, <2>2, <2>3
<1>4. \A i \in 1 .. n : SumOf([k \in i .. n |-> g[k]]) <= h[i]
    BY <1>1, <1>2, <1>3, SumOfTail
<1>5. ASSUME NEW i \in 1 .. n
      PROVE  MapThenSumSet(GasLeftOf, i .. n) <= MeteringOf(i).initialGasProvided
    <2>1. i .. n \subseteq 1 .. n /\ IsFiniteSet(i .. n)
        <3>1. i \in Int /\ n \in Int
            BY <1>1
        <3> QED BY <3>1, FS_Interval
    <2>2. MapThenSumSet(GasLeftOf, i .. n) = SumOf([k \in i .. n |-> GasLeftOf(k)])
        BY <1>1, <2>1, GasLeftSum
    <2>3. [k \in i .. n |-> GasLeftOf(k)] = [k \in i .. n |-> g[k]]
        BY <1>2, <2>1
    <2> QED BY <1>1, <1>2, <1>4, <2>2, <2>3
<1> QED BY <1>0, <1>1, <1>5 DEF GasNeverCreated

\* However calls nest, fail and restore gas, a contract and the callees in progress
\* below it never have more gas left together than it was provided: host.execute uses
\* up on the caller's instance all that the callee gets, before it starts, and only
\* the end of the callee gives the rest of it back.  The gas of the transaction has to
\* fit in a signed number, as SetPointsUsed counts no further.
THEOREM GasNeverCreatedTheorem == RunGas \subseteq 0 .. MaxInt => (Spec => []GasNeverCreated)
<1> SUFFICES ASSUME RunGas \subseteq 0 .. MaxInt PROVE Spec => []GasNeverCreated
    OBVIOUS
<1>1. Init => GasInv
    BY DEF Init, GasInv
<1>2. FramesInv /\ GasInv /\ [Next]_vars => GasInv'
    BY NextGas
<1>3. FramesInv /\ GasInv => GasNeverCreated
    BY GasInvBounds
<1> QED BY <1>1, <1>2, <1>3, FramesTheorem, PTL DEF Spec
=============================================================================
