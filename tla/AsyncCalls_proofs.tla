------------------------- MODULE AsyncCalls_proofs --------------------------
(***************************************************************************)
(* Proofs about AsyncCalls: for every shard, gas price, set of contexts    *)
(* and number of calls, no gas is created between the shards, the locked   *)
(* gas pays for the callback of asyncCall, the calls of createAsyncCall in *)
(* flight are expected, and the caller is answered once and last.          *)
(*                                                                         *)
(* The four share one inductive invariant, IndInv.  Transfers are in bags, *)
(* so the gas in flight is a sum over a bag: the first part says what      *)
(* adding and removing a transfer does to such a sum.                      *)
(***************************************************************************)
EXTENDS AsyncCalls, BasicTheorems

-----------------------------------------------------------------------------
(* The inductive invariant *)

\* The gas and the answers in a bag of transfers.
Gas(bag) == Total(bag, CountedGas)
AnswersIn(bag) == Total(bag, Answers)

\* The gas that asyncCall locks.
Lock == IF ShouldLockGas THEN ComputeGasLockedForAsync ELSE 0

\* The gas that the calls still to be sent will take.
Limits(calls, done) == [i \in DOMAIN calls \ done |-> calls[i].limit]
Owed == SumFunction(Limits(exec.calls, exec.done))

\* What the shards hold together, and what the execution is about to give
\* away.  The first call that is sent uses up the gas that is left: it pays
\* for the others, so from then on it is the gas owed that must be there.
GasInv ==
    /\ exec.left + exec.info.locked + Gas(exec.out) + Gas(network) <= GasProvided
    /\ At("async") => exec.info.limit <= exec.left
    /\ At("callback") => exec.output.remaining <= exec.left
    /\ At("send") => /\ exec.done = {} => Owed <= exec.left
                     /\ exec.done # {} => exec.left = 0
                     /\ Owed + exec.info.locked + Gas(exec.out) + Gas(network) <= GasProvided
    /\ ~At("process") /\ ~At("send") /\ ~At("commit") /\ ~At("fail") => exec.done = {}

\* The execution of the transaction, before any callback.
First == exec.type \in {"direct", "async", "nested"}

\* What is known of the calls of asyncCall, which have number 0: they carry
\* the locked gas, and their destination is one of asyncCall.
IsCall(m) == m.kind \in {"call", "callback"}
LegacyCall(m) == IsCall(m) /\ m.id = 0 => m.locked >= Lock /\ m.dest \in legacy
LegacyInv ==
    /\ At("async") => exec.info.locked = Lock /\ exec.info.dest \in legacy
    /\ \A m \in BagToSet(network) : LegacyCall(m)
    /\ \A m \in BagToSet(exec.out) : LegacyCall(m)

\* The execution of the transaction finds nothing in flight and nothing
\* stored, and sends only calls that it saves.
FirstInv ==
    First => /\ exec.caller \in {LocalCaller, RemoteCaller}
             /\ network = EmptyBag /\ answers = 0 /\ stored = NoInfo
             /\ ~At("none") /\ ~At("stack")
             /\ ~At("send") /\ ~At("commit") /\ ~At("fail") => exec.saved = NoInfo
             /\ At("send") \/ At("commit") =>
                  /\ DOMAIN exec.saved.calls = DOMAIN exec.calls
                  /\ \A i \in DOMAIN exec.calls : exec.saved.calls[i].dest = exec.calls[i].dest

\* Of the transfers of an execution, those that come from createAsyncCall are
\* of the transaction, one for each call that has been sent.
SentInv ==
    /\ \A m \in BagToSet(exec.out) : m.kind # "callback"
    /\ \A m \in BagToSet(exec.out) : m.kind = "call" /\ m.id > 0 =>
          /\ First /\ (At("send") \/ At("commit") \/ At("fail"))
          /\ m.id \in exec.done \cap DOMAIN exec.calls
          /\ exec.out[m] = 1 /\ m = PendingTransfer(m.id, exec.calls[m.id])

\* The callback under way answers a destination of asyncCall, or a stored call
\* that is no longer in flight.  It leaves the storage as it is, or clears it
\* when the only call that is stored is to whom it comes from.
Resolves(i) == i \in DOMAIN stored.calls /\ stored.calls[i].dest = exec.caller
CallbackInv ==
    exec.type = "callback" =>
        /\ ~At("none") /\ ~At("setup") /\ ~At("process") /\ ~At("save") /\ ~At("send")
        /\ exec.saved = stored
             \/ /\ At("commit") /\ exec.saved = NoInfo
                /\ \E i \in 1 .. MaxCalls : DOMAIN stored.calls = {i} /\ Resolves(i)
        /\ \/ exec.caller \in legacy
           \/ \E i \in 1 .. MaxCalls : Resolves(i) /\ \A m \in InFlight : m.id # i

\* CallsInFlightAreExpected with the destination, and with each call in flight
\* once: its callback is the only one of its number.
ExpectedInv ==
    \A m \in InFlight : m.id > 0 =>
        /\ network[m] = 1 /\ \A n \in InFlight : n.id = m.id => n = m
        /\ \/ m.id \in DOMAIN stored.calls /\ stored.calls[m.id].dest = m.dest
           \/ m.dest \in legacy

\* Who is answered has nothing stored, and an execution that is about to
\* answer leaves nothing stored.
AnswerInv ==
    /\ answers <= 1 /\ (answers > 0 => DOMAIN stored.calls = {})
    /\ AnswersIn(exec.out) <= 1
    /\ AnswersIn(exec.out) > 0 =>
         At("commit") /\ answers = 0 /\ DOMAIN exec.saved.calls = {}

TypesInv == exec.type = "none" <=> At("none")

\* The inductive invariant.
IndInv ==
    /\ TypeOK /\ GasInv /\ LegacyInv /\ FirstInv /\ SentInv
    /\ CallbackInv /\ ExpectedInv /\ AnswerInv /\ TypesInv

-----------------------------------------------------------------------------
(* Bags and the sums of their weights *)

\* The bags of elements of a set, and the sum of the weights of a bag.
BagsOf(S) == {b \in UNION {[D -> Nat \ {0}] : D \in SUBSET S} : IsFiniteSet(DOMAIN b)}
Weighted(b, w) == [m \in DOMAIN b |-> b[m] * w[m]]
Copies(b, m) == IF m \in DOMAIN b THEN b[m] ELSE 0

\* The terms of a bag are natural numbers.
LEMMA WeightedType ==
  ASSUME NEW S, NEW w \in [S -> Nat], NEW b \in BagsOf(S)
  PROVE  /\ Weighted(b, w) \in [DOMAIN b -> Nat] /\ IsFiniteSet(DOMAIN b)
         /\ DOMAIN b \subseteq S /\ b \in [DOMAIN b -> Nat \ {0}]
         /\ SumOf(Weighted(b, w)) \in Nat
         /\ \A m \in DOMAIN b : Weighted(b, w)[m] <= SumOf(Weighted(b, w))
<1>1. IsFiniteSet(DOMAIN b) /\ DOMAIN b \subseteq S /\ b \in [DOMAIN b -> Nat \ {0}]
  BY DEF BagsOf
<1>2. \A n \in Nat \ {0}, g \in Nat : n * g \in Nat OBVIOUS
<1>3. \A m \in DOMAIN b : b[m] \in Nat \ {0} /\ w[m] \in Nat BY <1>1
<1>4. Weighted(b, w) \in [DOMAIN b -> Nat] BY <1>2, <1>3 DEF Weighted
<1>. QED BY <1>1, <1>4, SumOfNatural

\* The sum of a bag can be taken over more elements.
LEMMA WeightedOver ==
  ASSUME NEW S, NEW w \in [S -> Nat], NEW b \in BagsOf(S),
         NEW U \in SUBSET S, IsFiniteSet(U), DOMAIN b \subseteq U
  PROVE  /\ [m \in U |-> Copies(b, m) * w[m]] \in [U -> Nat]
         /\ SumOf([m \in U |-> Copies(b, m) * w[m]]) = SumOf(Weighted(b, w))
<1>. DEFINE f == [m \in U |-> Copies(b, m) * w[m]]
<1>1. \A n, g \in Nat : n * g \in Nat /\ 0 * g = 0 OBVIOUS
<1>2. \A m \in U : Copies(b, m) \in Nat /\ w[m] \in Nat BY WeightedType DEF Copies
<1>3. \A m \in U : f[m] \in Nat BY <1>1, <1>2
<1>4. f \in [U -> Nat] BY <1>3
<1>5. \A m \in U \ DOMAIN b : f[m] = 0 BY <1>1, <1>2 DEF Copies
<1>6. \A m \in DOMAIN b : f[m] = b[m] * w[m] BY DEF Copies
<1>7. [m \in DOMAIN b |-> f[m]] = Weighted(b, w) BY <1>6 DEF Weighted
<1>. HIDE DEF f
<1>8. f \in [U -> Int] BY <1>4
<1>9. SumOf([m \in DOMAIN b |-> f[m]]) = SumOf(f) BY <1>5, <1>8, SumOfPart
<1>. QED BY <1>4, <1>7, <1>9 DEF f

\* One more, one less, and all of another bag.
LEMMA CopiesAdded ==
  ASSUME NEW S, NEW b \in BagsOf(S), NEW x \in S
  PROVE  /\ With(b, x) \in BagsOf(S) /\ DOMAIN With(b, x) = DOMAIN b \cup {x}
         /\ Copies(With(b, x), x) = Copies(b, x) + 1
         /\ \A m \in S : m # x => Copies(With(b, x), m) = Copies(b, m)
<1>1. IsFiniteSet(DOMAIN b) /\ DOMAIN b \subseteq S /\ b \in [DOMAIN b -> Nat \ {0}]
  BY DEF BagsOf
<1>. DEFINE B == With(b, x)
<1>2. IsFiniteSet(DOMAIN b \cup {x}) BY <1>1, FS_AddElement
<1>3. DOMAIN B = DOMAIN b \cup {x} BY DEF With, SetToBag, (+)
<1>4. \A m \in DOMAIN B : B[m] = IF m = x THEN Copies(b, x) + 1 ELSE b[m]
  BY <1>1 DEF With, SetToBag, (+), Copies
<1>5. B = [m \in DOMAIN B |-> B[m]] BY DEF With, SetToBag, (+)
<1>. HIDE DEF B
<1>6. \A m \in DOMAIN B : B[m] \in Nat \ {0} BY <1>1, <1>3, <1>4 DEF Copies
<1>7. B \in [DOMAIN B -> Nat \ {0}] BY <1>5, <1>6
<1>8. B \in BagsOf(S) BY <1>1, <1>2, <1>3, <1>7 DEF BagsOf
<1>9. Copies(B, x) = Copies(b, x) + 1 BY <1>3, <1>4 DEF Copies
<1>10. \A m \in S : m # x => Copies(B, m) = Copies(b, m) BY <1>3, <1>4 DEF Copies
<1>. QED BY <1>3, <1>8, <1>9, <1>10 DEF B

\* What Without leaves of a bag.
LEMMA RemovedIs ==
  ASSUME NEW S, NEW b \in BagsOf(S), NEW x \in DOMAIN b
  PROVE  /\ DOMAIN Without(b, x) = IF b[x] = 1 THEN DOMAIN b \ {x} ELSE DOMAIN b
         /\ Without(b, x) = [m \in DOMAIN Without(b, x) |-> IF m = x THEN b[x] - 1 ELSE b[m]]
<1>1. \A m \in DOMAIN b : b[m] \in Nat \ {0} BY DEF BagsOf
<1>. DEFINE B == Without(b, x)
            C == [m \in DOMAIN b |-> IF m \in {x} THEN b[m] - SetToBag({x})[m] ELSE b[m]]
<1>2. B = [m \in {n \in DOMAIN b : C[n] > 0} |-> C[m]] BY DEF Without, (-), SetToBag
<1>3. \A m \in DOMAIN b : C[m] = IF m = x THEN b[m] - 1 ELSE b[m] BY DEF SetToBag
<1>. HIDE DEF C, B
<1>4. \A m \in DOMAIN b : C[m] > 0 <=> ~(m = x /\ b[x] = 1) BY <1>1, <1>3
<1>5. DOMAIN B = IF b[x] = 1 THEN DOMAIN b \ {x} ELSE DOMAIN b BY ONLY <1>2, <1>4
<1>6. B = [m \in DOMAIN B |-> IF m = x THEN b[x] - 1 ELSE b[m]] BY ONLY <1>2, <1>3
<1>. QED BY <1>5, <1>6 DEF B

\* Removing an element takes one copy of it and no other.
LEMMA CopiesRemoved ==
  ASSUME NEW S, NEW b \in BagsOf(S), NEW x \in DOMAIN b
  PROVE  /\ Without(b, x) \in BagsOf(S) /\ DOMAIN Without(b, x) \subseteq DOMAIN b
         /\ Copies(Without(b, x), x) = Copies(b, x) - 1
         /\ \A m \in S : m # x => Copies(Without(b, x), m) = Copies(b, m)
<1>1. IsFiniteSet(DOMAIN b) /\ DOMAIN b \subseteq S /\ b \in [DOMAIN b -> Nat \ {0}]
  BY DEF BagsOf
<1>. DEFINE B == Without(b, x)
<1>2. DOMAIN B = IF b[x] = 1 THEN DOMAIN b \ {x} ELSE DOMAIN b BY RemovedIs
<1>3. B = [m \in DOMAIN B |-> IF m = x THEN b[x] - 1 ELSE b[m]] BY RemovedIs
<1>. HIDE DEF B
<1>4. \A m \in DOMAIN B : B[m] = IF m = x THEN b[x] - 1 ELSE b[m] BY ONLY <1>3
<1>5. \A m \in DOMAIN B : B[m] \in Nat \ {0} BY ONLY <1>1, <1>2, <1>4
<1>6. B \in [DOMAIN B -> Nat \ {0}] BY ONLY <1>3, <1>5
<1>7. IsFiniteSet(DOMAIN B) BY <1>1, <1>2, FS_Subset
<1>8. B \in BagsOf(S) BY <1>1, <1>2, <1>6, <1>7 DEF BagsOf
<1>9. Copies(B, x) = Copies(b, x) - 1 BY <1>1, <1>2, <1>4 DEF Copies
<1>10. \A m \in S : m # x => Copies(B, m) = Copies(b, m) BY <1>2, <1>4 DEF Copies
<1>. QED BY <1>2, <1>8, <1>9, <1>10 DEF B

\* The copies in the union of two bags.
LEMMA UnitedIs ==
  ASSUME NEW S, NEW b \in BagsOf(S), NEW c \in BagsOf(S), NEW B, B = b (+) c
  PROVE  /\ B \in BagsOf(S) /\ DOMAIN B = DOMAIN b \cup DOMAIN c
<1>1. IsFiniteSet(DOMAIN b) /\ DOMAIN b \subseteq S /\ b \in [DOMAIN b -> Nat \ {0}]
  BY DEF BagsOf
<1>2. IsFiniteSet(DOMAIN c) /\ DOMAIN c \subseteq S /\ c \in [DOMAIN c -> Nat \ {0}]
  BY DEF BagsOf
<1>3. B = [m \in DOMAIN b \cup DOMAIN c |-> Copies(b, m) + Copies(c, m)]
  BY DEF (+), Copies
<1>4. \A m \in DOMAIN b \cup DOMAIN c : Copies(b, m) + Copies(c, m) \in Nat \ {0}
  BY <1>1, <1>2 DEF Copies
<1>5. B \in [DOMAIN b \cup DOMAIN c -> Nat \ {0}] BY ONLY <1>3, <1>4
<1>6. IsFiniteSet(DOMAIN b \cup DOMAIN c) BY ONLY <1>1, <1>2, FS_Union
<1>7. B \in BagsOf(S) BY ONLY <1>1, <1>2, <1>5, <1>6 DEF BagsOf
<1>8. DOMAIN B = DOMAIN b \cup DOMAIN c BY ONLY <1>3
<1>. QED BY ONLY <1>7, <1>8

\* The weight of a bag with one more element.
LEMMA WeightAdded ==
  ASSUME NEW S, NEW w \in [S -> Nat], NEW b \in BagsOf(S), NEW x \in S
  PROVE  SumOf(Weighted(With(b, x), w)) = SumOf(Weighted(b, w)) + w[x]
<1>. DEFINE B == With(b, x)
            U == DOMAIN b \cup {x}
            f == [m \in U |-> Copies(b, m) * w[m]]
            g == [m \in U |-> Copies(B, m) * w[m]]
<1>1. /\ B \in BagsOf(S) /\ DOMAIN B = U /\ Copies(B, x) = Copies(b, x) + 1
      /\ \A m \in S : m # x => Copies(B, m) = Copies(b, m)
  BY CopiesAdded
<1>2. U \in SUBSET S /\ IsFiniteSet(U) BY WeightedType, FS_AddElement
<1>. HIDE DEF B
<1>3. f \in [U -> Nat] /\ SumOf(f) = SumOf(Weighted(b, w)) BY <1>2, WeightedOver
<1>4. g \in [U -> Nat] /\ SumOf(g) = SumOf(Weighted(B, w)) BY <1>1, <1>2, WeightedOver
<1>5. \A m \in U : m # x => g[m] = f[m] BY <1>1, <1>2
<1>6. g[x] = f[x] + w[x]
  <2>1. Copies(b, x) \in Nat /\ w[x] \in Nat BY WeightedType DEF Copies
  <2>2. \A n, k \in Nat : (n + 1) * k = n * k + k OBVIOUS
  <2>3. f[x] = Copies(b, x) * w[x] /\ g[x] = (Copies(b, x) + 1) * w[x] BY <1>1
  <2>. QED BY ONLY <2>1, <2>2, <2>3
<1>. HIDE DEF f, g, U
<1>7. x \in U /\ w[x] \in Nat BY DEF U
<1>8. g = [f EXCEPT ![x] = g[x]] BY <1>3, <1>4, <1>5
<1>9. f \in [U -> Int] /\ f[x] \in Int /\ g[x] \in Int BY <1>3, <1>4, <1>7
<1>10. SumOf(g) = (SumOf(f) - f[x]) + g[x]
  <2>1. SumOf([f EXCEPT ![x] = g[x]]) = (SumOf(f) - f[x]) + g[x]
    BY ONLY <1>2, <1>7, <1>9, SumOfUpdate
  <2>. QED BY ONLY <1>8, <2>1
<1>11. SumOf(f) \in Int BY <1>2, <1>9, SumOfType
<1>12. SumOf(Weighted(B, w)) = SumOf(Weighted(b, w)) + w[x]
  BY ONLY <1>3, <1>4, <1>6, <1>7, <1>9, <1>10, <1>11
<1>. QED BY <1>12 DEF B

\* The weight of a bag with one element less.
LEMMA WeightRemoved ==
  ASSUME NEW S, NEW w \in [S -> Nat], NEW b \in BagsOf(S), NEW x \in DOMAIN b
  PROVE  SumOf(Weighted(Without(b, x), w)) = SumOf(Weighted(b, w)) - w[x]
<1>. DEFINE B == Without(b, x)
            U == DOMAIN b
            f == [m \in U |-> Copies(b, m) * w[m]]
            g == [m \in U |-> Copies(B, m) * w[m]]
<1>1. /\ B \in BagsOf(S) /\ DOMAIN B \subseteq U /\ Copies(B, x) = Copies(b, x) - 1
      /\ \A m \in S : m # x => Copies(B, m) = Copies(b, m)
  BY CopiesRemoved
<1>2. U \in SUBSET S /\ IsFiniteSet(U) BY WeightedType
<1>. HIDE DEF B
<1>3. f \in [U -> Nat] /\ SumOf(f) = SumOf(Weighted(b, w)) BY <1>2, WeightedOver
<1>4. g \in [U -> Nat] /\ SumOf(g) = SumOf(Weighted(B, w)) BY <1>1, <1>2, WeightedOver
<1>5. \A m \in U : m # x => g[m] = f[m] BY <1>1, <1>2
<1>6. g[x] = f[x] - w[x]
  <2>1. Copies(b, x) \in Nat /\ w[x] \in Nat BY <1>2, WeightedType DEF Copies
  <2>2. \A n, k \in Nat : (n - 1) * k = n * k - k OBVIOUS
  <2>3. f[x] = Copies(b, x) * w[x] /\ g[x] = (Copies(b, x) - 1) * w[x] BY <1>1
  <2>. QED BY ONLY <2>1, <2>2, <2>3
<1>. HIDE DEF f, g, U
<1>7. x \in U /\ w[x] \in Nat BY <1>2 DEF U
<1>8. g = [f EXCEPT ![x] = g[x]] BY <1>3, <1>4, <1>5
<1>9. f \in [U -> Int] /\ f[x] \in Int /\ g[x] \in Int BY <1>3, <1>4, <1>7
<1>10. SumOf(g) = (SumOf(f) - f[x]) + g[x]
  <2>1. SumOf([f EXCEPT ![x] = g[x]]) = (SumOf(f) - f[x]) + g[x]
    BY ONLY <1>2, <1>7, <1>9, SumOfUpdate
  <2>. QED BY ONLY <1>8, <2>1
<1>11. SumOf(f) \in Int BY <1>2, <1>9, SumOfType
<1>12. SumOf(Weighted(B, w)) = SumOf(Weighted(b, w)) - w[x]
  BY ONLY <1>3, <1>4, <1>6, <1>7, <1>9, <1>10, <1>11
<1>. QED BY <1>12 DEF B

\* The weight of the union of two bags.
LEMMA WeightUnited ==
  ASSUME NEW S, NEW w \in [S -> Nat], NEW b \in BagsOf(S), NEW c \in BagsOf(S),
         NEW B, B = b (+) c
  PROVE  SumOf(Weighted(B, w)) = SumOf(Weighted(b, w)) + SumOf(Weighted(c, w))
<1>. DEFINE U == DOMAIN b \cup DOMAIN c
            f == [m \in U |-> Copies(b, m) * w[m]]
            g == [m \in U |-> Copies(c, m) * w[m]]
            h == [m \in U |-> Copies(B, m) * w[m]]
<1>1. /\ B \in BagsOf(S) /\ DOMAIN B = U
      /\ \A m \in S : Copies(B, m) = Copies(b, m) + Copies(c, m)
  <2>1. B \in BagsOf(S) /\ DOMAIN B = DOMAIN b \cup DOMAIN c BY UnitedIs
  <2>3. ASSUME NEW m \in S PROVE Copies(B, m) = Copies(b, m) + Copies(c, m)
    BY WeightedType, B = b (+) c DEF (+), Copies
  <2>. QED BY ONLY <2>1, <2>3
<1>2. U \in SUBSET S /\ IsFiniteSet(U) BY WeightedType, FS_Union
<1>3. f \in [U -> Nat] /\ SumOf(f) = SumOf(Weighted(b, w)) BY <1>2, WeightedOver
<1>4. g \in [U -> Nat] /\ SumOf(g) = SumOf(Weighted(c, w)) BY <1>2, WeightedOver
<1>5. h \in [U -> Nat] /\ SumOf(h) = SumOf(Weighted(B, w)) BY <1>1, <1>2, WeightedOver
<1>6. ASSUME NEW m \in U PROVE h[m] = f[m] + g[m]
  <2>1. Copies(b, m) \in Nat /\ Copies(c, m) \in Nat /\ w[m] \in Nat
    BY <1>2, WeightedType DEF Copies
  <2>2. \A n, k, v \in Nat : (n + k) * v = n * v + k * v OBVIOUS
  <2>3. f[m] = Copies(b, m) * w[m] /\ g[m] = Copies(c, m) * w[m] OBVIOUS
  <2>4. h[m] = (Copies(b, m) + Copies(c, m)) * w[m] BY <1>1, <1>2
  <2>. QED BY ONLY <2>1, <2>2, <2>3, <2>4
<1>. HIDE DEF f, g, h, U
<1>7. f \in [U -> Int] /\ g \in [U -> Int] /\ h \in [U -> Int] BY <1>3, <1>4, <1>5
<1>8. SumOf(h) = SumOf(f) + SumOf(g) BY <1>2, <1>6, <1>7, SumOfPlus
<1>. QED BY <1>3, <1>4, <1>5, <1>8

-----------------------------------------------------------------------------
(* Bags of transfers *)

\* The sum of the library is the one the sum lemmas are about.
LEMMA SumFunctionIs == ASSUME NEW f PROVE SumFunction(f) = SumOf(f)
BY Zenon DEF SumFunction, SumFunctionOnSet, FoldFunctionOnSet, SumOf, MapThenSumSet, MapThenFoldSet

\* What a transfer adds to the two sums.
GasWeight == [m \in Transfers |-> CountedGas(m)]
AnswerWeight == [m \in Transfers |-> Answers(m)]

\* What a transfer weighs is a natural number.
LEMMA WeightsType ==
  /\ GasWeight \in [Transfers -> Nat] /\ AnswerWeight \in [Transfers -> Nat]
  /\ \A m \in Transfers : GasWeight[m] = CountedGas(m) /\ AnswerWeight[m] = Answers(m)
BY AsyncAssumption DEF GasWeight, AnswerWeight, CountedGas, Answers, GasOf, Transfers

\* A bag of transfers is a bag over Transfers,
LEMMA TransfersBag ==
  ASSUME NEW bag, AreTransfers(bag)
  PROVE  bag \in BagsOf(Transfers)
BY DEF AreTransfers, IsABag, BagToSet, BagsOf

\* and the other way round.
LEMMA BagTransfers ==
  ASSUME NEW bag \in BagsOf(Transfers)
  PROVE  AreTransfers(bag)
<1>1. \A n : n \in {k \in Nat : k > 0} <=> n \in Nat \ {0} OBVIOUS
<1>2. {k \in Nat : k > 0} = Nat \ {0} BY <1>1
<1>. QED BY <1>2 DEF AreTransfers, IsABag, BagToSet, BagsOf

\* The gas of a bag of transfers as a sum of weights,
LEMMA GasIs ==
  ASSUME NEW bag, AreTransfers(bag)
  PROVE  Gas(bag) = SumOf(Weighted(bag, GasWeight))
<1>1. DOMAIN bag \subseteq Transfers BY DEF AreTransfers, BagToSet
<1>2. [m \in DOMAIN bag |-> bag[m] * CountedGas(m)] = Weighted(bag, GasWeight)
  BY <1>1, WeightsType DEF Weighted
<1>3. Gas(bag) = SumFunction([m \in DOMAIN bag |-> bag[m] * CountedGas(m)])
  BY Zenon DEF Gas, Total, BagToSet
<1>. QED BY <1>2, <1>3, SumFunctionIs

\* and the answers in it.
LEMMA AnswersInIs ==
  ASSUME NEW bag, AreTransfers(bag)
  PROVE  AnswersIn(bag) = SumOf(Weighted(bag, AnswerWeight))
<1>1. DOMAIN bag \subseteq Transfers BY DEF AreTransfers, BagToSet
<1>2. [m \in DOMAIN bag |-> bag[m] * Answers(m)] = Weighted(bag, AnswerWeight)
  BY <1>1, WeightsType DEF Weighted
<1>3. AnswersIn(bag) = SumFunction([m \in DOMAIN bag |-> bag[m] * Answers(m)])
  BY Zenon DEF AnswersIn, Total, BagToSet
<1>. QED BY <1>2, <1>3, SumFunctionIs

\* The gas and the answers of a bag are natural numbers, and no transfer in
\* it carries more gas than the bag.
LEMMA BagOfTransfers ==
  ASSUME NEW bag, AreTransfers(bag)
  PROVE  /\ Gas(bag) \in Nat /\ AnswersIn(bag) \in Nat
         /\ \A m \in BagToSet(bag) : /\ m \in Transfers /\ bag[m] \in Nat \ {0}
                                     /\ CountedGas(m) \in Nat /\ CountedGas(m) <= Gas(bag)
<1>1. bag \in BagsOf(Transfers) BY TransfersBag
<1>2. Gas(bag) \in Nat BY <1>1, GasIs, WeightsType, WeightedType
<1>3. AnswersIn(bag) \in Nat BY <1>1, AnswersInIs, WeightsType, WeightedType
<1>4. ASSUME NEW m \in BagToSet(bag)
      PROVE  /\ m \in Transfers /\ bag[m] \in Nat \ {0}
             /\ CountedGas(m) \in Nat /\ CountedGas(m) <= Gas(bag)
  <2>1. m \in DOMAIN bag BY DEF BagToSet
  <2>2. m \in Transfers /\ bag[m] \in Nat \ {0} BY <1>1, <2>1, WeightsType, WeightedType
  <2>3. GasWeight[m] = CountedGas(m) /\ CountedGas(m) \in Nat BY <2>2, WeightsType
  <2>4. Weighted(bag, GasWeight)[m] <= Gas(bag)
    BY <1>1, <2>1, GasIs, WeightsType, WeightedType
  <2>5. Weighted(bag, GasWeight)[m] = bag[m] * CountedGas(m) BY <2>1, <2>3 DEF Weighted
  <2>6. \A n \in Nat \ {0}, k \in Nat : k <= n * k OBVIOUS
  <2>7. CountedGas(m) <= bag[m] * CountedGas(m) BY <2>2, <2>3, <2>6
  <2>8. \A n \in Nat \ {0}, k \in Nat : n * k \in Nat OBVIOUS
  <2>9. bag[m] * CountedGas(m) \in Nat BY <2>2, <2>3, <2>8
  <2>. QED BY ONLY <1>2, <2>2, <2>3, <2>4, <2>5, <2>7, <2>9
<1>. QED BY <1>2, <1>3, <1>4

\* The empty bag holds no gas and no answers.
LEMMA EmptyBagTotals ==
  AreTransfers(EmptyBag) /\ Gas(EmptyBag) = 0 /\ AnswersIn(EmptyBag) = 0 /\ BagToSet(EmptyBag) = {}
<1>1. DOMAIN EmptyBag = {} /\ EmptyBag \in [{} -> Nat \ {0}] BY DEF EmptyBag, SetToBag
<1>2. EmptyBag \in BagsOf(Transfers) BY <1>1, FS_EmptySet DEF BagsOf
<1>3. AreTransfers(EmptyBag) BY <1>2, BagTransfers
<1>4. Weighted(EmptyBag, GasWeight) \in [{} -> Int]
  BY <1>1, <1>2, WeightsType, WeightedType
<1>5. Weighted(EmptyBag, AnswerWeight) \in [{} -> Int]
  BY <1>1, <1>2, WeightsType, WeightedType
<1>6. SumOf(Weighted(EmptyBag, GasWeight)) = 0 BY <1>4, SumOfZero, FS_EmptySet
<1>7. SumOf(Weighted(EmptyBag, AnswerWeight)) = 0 BY <1>5, SumOfZero, FS_EmptySet
<1>. QED BY <1>1, <1>3, <1>6, <1>7, GasIs, AnswersInIs DEF BagToSet

\* What sending one more transfer changes.
LEMMA WithTransfer ==
  ASSUME NEW bag, AreTransfers(bag), NEW m \in Transfers
  PROVE  /\ AreTransfers(With(bag, m)) /\ BagToSet(With(bag, m)) = BagToSet(bag) \cup {m}
         /\ Gas(With(bag, m)) = Gas(bag) + CountedGas(m)
         /\ AnswersIn(With(bag, m)) = AnswersIn(bag) + Answers(m)
         /\ m \notin BagToSet(bag) => With(bag, m)[m] = 1
         /\ \A n \in BagToSet(bag) : n # m => With(bag, m)[n] = bag[n]
<1>1. bag \in BagsOf(Transfers) BY TransfersBag
<1>2. AreTransfers(With(bag, m)) /\ DOMAIN With(bag, m) = DOMAIN bag \cup {m}
  <2>. DEFINE S == Transfers
  <2>1. bag \in BagsOf(S) /\ m \in S BY <1>1
  <2>. HIDE DEF S
  <2>2. With(bag, m) \in BagsOf(S) /\ DOMAIN With(bag, m) = DOMAIN bag \cup {m}
    BY ONLY <2>1, CopiesAdded
  <2>. QED BY <2>2, BagTransfers DEF S
<1>3. Gas(With(bag, m)) = Gas(bag) + CountedGas(m)
  <2>1. SumOf(Weighted(With(bag, m), GasWeight)) = SumOf(Weighted(bag, GasWeight)) + GasWeight[m]
    BY <1>1, WeightsType, WeightAdded
  <2>2. Gas(With(bag, m)) = SumOf(Weighted(With(bag, m), GasWeight)) BY <1>2, GasIs
  <2>3. Gas(bag) = SumOf(Weighted(bag, GasWeight)) BY GasIs
  <2>. QED BY <2>1, <2>2, <2>3, WeightsType
<1>4. AnswersIn(With(bag, m)) = AnswersIn(bag) + Answers(m)
  <2>1. SumOf(Weighted(With(bag, m), AnswerWeight))
            = SumOf(Weighted(bag, AnswerWeight)) + AnswerWeight[m]
    BY <1>1, WeightsType, WeightAdded
  <2>2. AnswersIn(With(bag, m)) = SumOf(Weighted(With(bag, m), AnswerWeight)) BY <1>2, AnswersInIs
  <2>3. AnswersIn(bag) = SumOf(Weighted(bag, AnswerWeight)) BY AnswersInIs
  <2>. QED BY <2>1, <2>2, <2>3, WeightsType
<1>5. /\ m \notin BagToSet(bag) => With(bag, m)[m] = 1
      /\ \A n \in BagToSet(bag) : n # m => With(bag, m)[n] = bag[n]
  <2>1. DOMAIN bag \subseteq Transfers /\ \A n \in DOMAIN bag : bag[n] \in Nat
    BY <1>1 DEF BagsOf
  <2>. QED BY <2>1 DEF With, SetToBag, (+), BagToSet
<1>. QED BY <1>2, <1>3, <1>4, <1>5 DEF BagToSet

\* What taking a transfer off the network changes.
LEMMA WithoutTransfer ==
  ASSUME NEW bag, AreTransfers(bag), NEW m \in BagToSet(bag)
  PROVE  /\ AreTransfers(Without(bag, m))
         /\ BagToSet(Without(bag, m)) = IF bag[m] = 1 THEN BagToSet(bag) \ {m} ELSE BagToSet(bag)
         /\ Gas(Without(bag, m)) = Gas(bag) - CountedGas(m)
         /\ \A n \in BagToSet(bag) : n # m => Without(bag, m)[n] = bag[n]
<1>1. bag \in BagsOf(Transfers) /\ m \in DOMAIN bag /\ m \in Transfers
  BY TransfersBag, BagOfTransfers DEF BagToSet
<1>2. AreTransfers(Without(bag, m))
  <2>1. Without(bag, m) \in BagsOf(Transfers) BY <1>1, CopiesRemoved
  <2>. QED BY <2>1, BagTransfers
<1>3. Gas(Without(bag, m)) = Gas(bag) - CountedGas(m)
  <2>1. SumOf(Weighted(Without(bag, m), GasWeight)) = SumOf(Weighted(bag, GasWeight)) - GasWeight[m]
    BY <1>1, WeightsType, WeightRemoved
  <2>2. Gas(Without(bag, m)) = SumOf(Weighted(Without(bag, m), GasWeight)) BY <1>2, GasIs
  <2>3. Gas(bag) = SumOf(Weighted(bag, GasWeight)) BY GasIs
  <2>. QED BY <1>1, <2>1, <2>2, <2>3, WeightsType
<1>4. /\ DOMAIN Without(bag, m) = IF bag[m] = 1 THEN DOMAIN bag \ {m} ELSE DOMAIN bag
      /\ \A n \in DOMAIN bag : n # m => Without(bag, m)[n] = bag[n]
  <2>1. /\ DOMAIN Without(bag, m) = IF bag[m] = 1 THEN DOMAIN bag \ {m} ELSE DOMAIN bag
        /\ Without(bag, m) = [n \in DOMAIN Without(bag, m) |->
                                 IF n = m THEN bag[m] - 1 ELSE bag[n]]
    BY <1>1, RemovedIs
  <2>. QED BY ONLY <2>1
<1>. QED BY <1>2, <1>3, <1>4 DEF BagToSet

\* What the transfers of an execution add to the network (Commit).
LEMMA UnitedTransfers ==
  ASSUME NEW bag, AreTransfers(bag), NEW more, AreTransfers(more), NEW all, all = bag (+) more
  PROVE  /\ AreTransfers(all) /\ BagToSet(all) = BagToSet(bag) \cup BagToSet(more)
         /\ Gas(all) = Gas(bag) + Gas(more)
         /\ \A m \in BagToSet(more) : m \notin BagToSet(bag) => all[m] = more[m]
         /\ \A m \in BagToSet(bag) : m \notin BagToSet(more) => all[m] = bag[m]
<1>1. bag \in BagsOf(Transfers) /\ more \in BagsOf(Transfers) BY TransfersBag
<1>2. all \in BagsOf(Transfers) /\ DOMAIN all = DOMAIN bag \cup DOMAIN more
  BY <1>1, UnitedIs
<1>3. AreTransfers(all) BY <1>2, BagTransfers
<1>4. Gas(all) = Gas(bag) + Gas(more)
  <2>1. SumOf(Weighted(all, GasWeight))
            = SumOf(Weighted(bag, GasWeight)) + SumOf(Weighted(more, GasWeight))
    BY <1>1, WeightsType, WeightUnited
  <2>. QED BY <1>3, <2>1, GasIs
<1>5. /\ \A m \in BagToSet(more) : m \notin BagToSet(bag) => all[m] = more[m]
      /\ \A m \in BagToSet(bag) : m \notin BagToSet(more) => all[m] = bag[m]
  <2>1. /\ \A n \in DOMAIN bag : bag[n] \in Nat
        /\ \A n \in DOMAIN more : more[n] \in Nat
    BY <1>1 DEF BagsOf
  <2>. QED BY <2>1 DEF (+), BagToSet
<1>. QED BY <1>2, <1>3, <1>4, <1>5 DEF BagToSet

-----------------------------------------------------------------------------
(* The gas of the calls *)

\* There are finitely many calls.
LEMMA CallsType ==
  ASSUME NEW calls, AreCalls(calls)
  PROVE  /\ IsFiniteSet(DOMAIN calls) /\ DOMAIN calls \subseteq 1 .. MaxCalls
         /\ \A i \in DOMAIN calls : calls[i] \in Call
<1>1. IsFiniteSet(1 .. MaxCalls) BY AsyncAssumption, FS_Interval
<1>. QED BY <1>1, FS_Subset DEF AreCalls

\* The gas that is owed is a natural number.
LEMMA LimitsType ==
  ASSUME NEW calls, AreCalls(calls), NEW done
  PROVE  /\ Limits(calls, done) \in [DOMAIN calls \ done -> Nat]
         /\ IsFiniteSet(DOMAIN calls \ done)
         /\ SumFunction(Limits(calls, done)) \in Nat
<1>1. IsFiniteSet(DOMAIN calls \ done) BY CallsType, FS_Subset
<1>2. Limits(calls, done) \in [DOMAIN calls \ done -> Nat] BY CallsType DEF Limits, Call
<1>. QED BY <1>1, <1>2, SumOfNatural, SumFunctionIs

\* The gas of a call that is sent is no longer owed.
LEMMA LimitsSent ==
  ASSUME NEW calls, AreCalls(calls), NEW done, NEW i \in DOMAIN calls, i \notin done
  PROVE  SumFunction(Limits(calls, done))
             = calls[i].limit + SumFunction(Limits(calls, done \cup {i}))
<1>. DEFINE f == Limits(calls, done)  S == DOMAIN calls \ done
<1>1. f \in [S -> Int] /\ IsFiniteSet(S) BY LimitsType
<1>2. i \in S OBVIOUS
<1>3. f[i] = calls[i].limit BY DEF Limits
<1>4. [j \in S \ {i} |-> f[j]] = Limits(calls, done \cup {i}) BY DEF Limits
<1>. HIDE DEF f, S
<1>5. SumOf(f) = f[i] + SumOf([j \in S \ {i} |-> f[j]]) BY <1>1, <1>2, SumOfRemove
<1>6. SumOf(f) = calls[i].limit + SumOf(Limits(calls, done \cup {i})) BY ONLY <1>3, <1>4, <1>5
<1>. QED BY <1>6, SumFunctionIs DEF f

\* setupAsyncCallsGas gives away no more than there is.
LEMMA SetupFits ==
  ASSUME NEW calls, AreCalls(calls), NEW left \in Nat, HasGasFor(calls, left),
         NEW new, new = setupAsyncCallsGas(calls, left)
  PROVE  /\ AreCalls(new) /\ DOMAIN new = DOMAIN calls
         /\ \A i \in DOMAIN calls : new[i].dest = calls[i].dest
         /\ SumFunction(Limits(new, {})) <= left
         /\ \A i \in DOMAIN calls : new[i].limit <= left
<1>. DEFINE S == DOMAIN calls
            Z == {i \in S : calls[i].provided = 0}
            f == [i \in S |-> calls[i].provided]
            share == GasShare(calls, left)
            g == [i \in S |-> IF i \in Z THEN share ELSE 0]
            need == GasNeeded(calls)
<1>1. IsFiniteSet(S) /\ IsFiniteSet(Z) /\ S \subseteq 1 .. MaxCalls BY CallsType, FS_Subset
<1>2. \A i \in S : calls[i] \in Call /\ calls[i].provided \in Nat
  BY CallsType, AsyncAssumption DEF Call
<1>3. f \in [S -> Nat] BY <1>2
<1>4. need = SumOf(f) /\ need \in Nat BY <1>1, <1>3, SumOfNatural, SumFunctionIs DEF GasNeeded
<1>5. need <= left /\ (WithZeroGas(calls) > 0 => left > need) BY DEF HasGasFor
<1>6. WithZeroGas(calls) = Cardinality(Z) /\ Cardinality(Z) \in Nat
  BY <1>1, FS_CardinalityType DEF WithZeroGas
<1>7. Z # {} => Cardinality(Z) > 0
  BY <1>1, <1>6, FS_EmptySet
<1>8. Z # {} => share \in Nat /\ share * Cardinality(Z) <= left - need
  <2>. SUFFICES ASSUME Z # {} PROVE share \in Nat /\ share * Cardinality(Z) <= left - need
    OBVIOUS
  <2>1. share = (left - need) \div Cardinality(Z) BY <1>6 DEF GasShare
  <2>2. Cardinality(Z) \in Nat /\ Cardinality(Z) > 0 /\ left - need \in Nat
    BY <1>4, <1>5, <1>6, <1>7
  <2>3. \A n \in Nat, k \in Nat : k > 0 => n \div k \in Nat /\ (n \div k) * k <= n
    OBVIOUS
  <2>. QED BY ONLY <2>1, <2>2, <2>3
<1>. HIDE DEF share, need
<1>9. \A i \in S : g[i] \in Nat BY <1>8
<1>10. SumOf(g) <= left - need /\ SumOf(g) \in Nat
  <2>1. g \in [S -> Nat] BY <1>9
  <2>2. SumOf(g) \in Nat BY <1>1, <2>1, SumOfNatural
  <2>3. SumOf([i \in Z |-> g[i]]) = SumOf(g)
    <3>1. \A i \in S \ Z : g[i] = 0 OBVIOUS
    <3>2. g \in [S -> Int] BY <2>1
    <3>3. Z \in SUBSET S OBVIOUS
    <3>. HIDE DEF g, Z
    <3>. QED BY <1>1, <3>1, <3>2, <3>3, SumOfPart
  <2>4. CASE Z = {}
    <3>1. \A i \in S : g[i] = 0 BY <2>4
    <3>2. g \in [S -> Int] BY <2>1
    <3>. HIDE DEF g
    <3>3. SumOf(g) = 0 BY <1>1, <3>1, <3>2, SumOfZero
    <3>. QED BY <1>4, <1>5, <3>3
  <2>5. CASE Z # {}
    <3>1. [i \in Z |-> g[i]] = [i \in Z |-> share] OBVIOUS
    <3>2. share \in Nat /\ share * Cardinality(Z) <= left - need BY <1>8, <2>5
    <3>. HIDE DEF g, Z
    <3>3. SumOf([i \in Z |-> share]) = share * Cardinality(Z) BY <1>1, <3>2, SumOfConstant
    <3>. QED BY ONLY <2>2, <2>3, <3>1, <3>2, <3>3
  <2>. QED BY <2>4, <2>5
<1>11. /\ DOMAIN new = S /\ new = [i \in S |-> new[i]]
       /\ \A i \in S : new[i] = [calls[i] EXCEPT !.limit = f[i] + g[i]]
  <2>1. \A i \in S : (IF calls[i].provided = 0 THEN share ELSE calls[i].provided) = f[i] + g[i]
    BY <1>2, <1>8
  <2>. QED BY <2>1 DEF setupAsyncCallsGas, share
<1>12. \A i \in S : f[i] \in Nat /\ g[i] \in Nat BY <1>3, <1>9
<1>. HIDE DEF f, g, Z
<1>13. ASSUME NEW i \in S
       PROVE  /\ new[i] \in Call /\ new[i].limit = f[i] + g[i]
              /\ new[i].dest = calls[i].dest
  <2>. DEFINE c == calls[i]  n == f[i] + g[i]
  <2>1. c \in Call /\ new[i] = [c EXCEPT !.limit = n] BY <1>2, <1>11
  <2>2. n \in Nat BY <1>12
  <2>. HIDE DEF c, n
  <2>3. [c EXCEPT !.limit = n] \in Call /\ [c EXCEPT !.limit = n].limit = n
        /\ [c EXCEPT !.limit = n].dest = c.dest
    BY ONLY <2>1, <2>2 DEF Call
  <2>. QED BY <2>1, <2>3 DEF c, n
<1>14. AreCalls(new)
  <2>1. new \in [S -> Call] BY ONLY <1>11, <1>13
  <2>. QED BY <1>1, <1>11, <2>1 DEF AreCalls
<1>15. SumFunction(Limits(new, {})) = need + SumOf(g)
  <2>. DEFINE h == Limits(new, {})
  <2>1. h \in [S -> Int] /\ \A i \in S : h[i] = f[i] + g[i]
    BY <1>11, <1>12, <1>13 DEF Limits
  <2>2. f \in [S -> Int] BY <1>3
  <2>3. g \in [S -> Int] BY <1>9 DEF g
  <2>. HIDE DEF h
  <2>4. SumOf(h) = SumOf(f) + SumOf(g) BY <1>1, <2>1, <2>2, <2>3, SumOfPlus
  <2>. QED BY <1>4, <2>4, SumFunctionIs DEF h
<1>16. SumFunction(Limits(new, {})) <= left
  BY ONLY <1>4, <1>10, <1>15, left \in Nat
<1>17. ASSUME NEW i \in S PROVE new[i].limit <= left
  <2>1. Limits(new, {}) \in [S -> Nat] /\ Limits(new, {})[i] = new[i].limit
    <3>1. Limits(new, {}) \in [S \ {} -> Nat] BY <1>11, <1>14, LimitsType
    <3>2. Limits(new, {})[i] = new[i].limit BY <1>11 DEF Limits
    <3>. QED BY <3>1, <3>2
  <2>2. SumOf(Limits(new, {})) \in Nat /\ new[i].limit <= SumOf(Limits(new, {}))
    BY <1>1, <2>1, SumOfNatural
  <2>3. new[i].limit \in Nat BY <1>12, <1>13
  <2>4. SumOf(Limits(new, {})) <= left BY <1>16, SumFunctionIs
  <2>. QED BY ONLY <2>2, <2>3, <2>4, left \in Nat
<1>. QED BY <1>11, <1>13, <1>14, <1>16, <1>17

-----------------------------------------------------------------------------
(* Steps that send nothing *)

\* What TypeOK says of the amounts.
LEMMA Amounts ==
  ASSUME TypeOK
  PROVE  /\ Gas(exec.out) \in Nat /\ Gas(network) \in Nat /\ AnswersIn(exec.out) \in Nat
         /\ GasProvided \in Nat /\ Owed \in Nat
BY BagOfTransfers, LimitsType, AsyncAssumption DEF TypeOK, Owed

\* What TypeOK says of the fields of the execution.
LEMMA ExecFields ==
  ASSUME TypeOK
  PROVE  /\ exec.pc \in Steps /\ exec.left \in 0 .. GasProvided
         /\ exec.done \in SUBSET (1 .. MaxCalls) /\ AreCalls(exec.calls) /\ IsInfo(exec.saved)
         /\ exec.info \in AsyncCallInfos /\ exec.output \in Outputs
         /\ exec.info.locked \in Nat /\ exec.info.limit \in Nat /\ exec.left \in Nat
         /\ exec.output.remaining \in Nat /\ exec.output.data \in Nat /\ GasProvided \in Nat
BY AsyncAssumption DEF TypeOK, AsyncCallInfos, Outputs

\* The gas that asyncCall locks is a natural number.
LEMMA LockType == Lock \in Nat
BY AsyncAssumption DEF Lock, ComputeGasLockedForAsync

\* A step of the execution that sends nothing.
Quiet ==
    /\ UNCHANGED <<stored, network, answers, failures>> /\ legacy \subseteq legacy'
    /\ exec'.type = exec.type /\ exec'.caller = exec.caller /\ exec'.out = exec.out
    /\ exec.pc \notin {"none", "commit", "fail"} /\ exec'.pc # "none"
    /\ At("send") =>
         /\ exec'.calls = exec.calls /\ exec'.done = exec.done /\ exec'.saved = exec.saved
         /\ exec'.pc \in {"commit", "fail"}
    /\ exec'.pc = "async" => exec'.info.locked = Lock /\ exec'.info.dest \in legacy'
    /\ exec.type = "callback" =>
         exec'.saved = exec.saved /\ exec'.pc \notin {"setup", "process", "save", "send"}
    /\ First => /\ exec'.pc # "stack"
                /\ exec'.pc \notin {"send", "commit", "fail"} => exec'.saved = exec.saved
                                                       /\ ~At("send")
                /\ exec'.pc \in {"send", "commit"} =>
                    /\ DOMAIN exec'.saved.calls = DOMAIN exec'.calls
                    /\ \A i \in DOMAIN exec'.calls : exec'.saved.calls[i].dest = exec'.calls[i].dest

\* A quiet step keeps what the invariant says of transfers, storage and answers:
\* only its types and its gas are to be shown.
LEMMA QuietStep ==
  ASSUME IndInv, TypeOK', GasInv', Quiet
  PROVE  IndInv'
<1>. USE DEF Quiet, IndInv, At
<1>1. LegacyInv' BY DEF LegacyInv, LegacyCall, IsCall, Lock, ShouldLockGas, ComputeGasLockedForAsync
<1>2. FirstInv' BY DEF FirstInv, First
<1>3. SentInv' BY DEF SentInv, First, PendingTransfer
<1>4. CallbackInv' BY DEF CallbackInv, Resolves, InFlight
<1>5. ExpectedInv' BY DEF ExpectedInv, InFlight
<1>6. AnswerInv' BY Amounts DEF AnswerInv
<1>7. TypesInv' BY DEF TypesInv
<1>. QED BY <1>1, <1>2, <1>3, <1>4, <1>5, <1>6, <1>7

\* Running code takes gas.
LEMMA UseGasKeeps ==
  ASSUME IndInv, UseGas
  PROVE  IndInv'
<1>. USE AsyncAssumption DEF IndInv, At, Goto, UnchangedButExec, UseGas
<1>1. TypeOK' BY DEF TypeOK, Steps
<1>2. GasInv' BY ExecFields, Amounts DEF GasInv, TypeOK
<1>3. Quiet BY DEF Quiet, TypeOK, First, FirstInv, CallbackInv
<1>. QED BY <1>1, <1>2, <1>3, QuietStep

\* The contract returns.
LEMMA ReturnKeeps ==
  ASSUME IndInv, Return
  PROVE  IndInv'
<1>. USE AsyncAssumption DEF IndInv, At, Goto, UnchangedButExec, Return
<1>1. TypeOK' BY DEF TypeOK, Steps
<1>2. GasInv' BY ExecFields, Amounts DEF GasInv, TypeOK
<1>3. Quiet BY DEF Quiet, TypeOK, First, FirstInv, CallbackInv
<1>. QED BY <1>1, <1>2, <1>3, QuietStep

\* The contract fails.
LEMMA SignalErrorKeeps ==
  ASSUME IndInv, SignalError
  PROVE  IndInv'
<1>. USE AsyncAssumption DEF IndInv, At, Goto, UnchangedButExec, SignalError
<1>1. TypeOK' BY DEF TypeOK, Steps
<1>2. GasInv' BY ExecFields, Amounts DEF GasInv, TypeOK
<1>3. Quiet BY DEF Quiet, TypeOK, First, FirstInv, CallbackInv
<1>. QED BY <1>1, <1>2, <1>3, QuietStep

\* The breakpoint fails.
LEMMA FailBreakpointKeeps ==
  ASSUME IndInv, FailBreakpoint
  PROVE  IndInv'
<1>. USE AsyncAssumption DEF IndInv, At, Goto, UnchangedButExec, FailBreakpoint
<1>1. TypeOK' BY DEF TypeOK, Steps
<1>2. GasInv' BY ExecFields, Amounts DEF GasInv, TypeOK
<1>3. Quiet BY DEF Quiet, TypeOK, First, FirstInv, CallbackInv
<1>. QED BY <1>1, <1>2, <1>3, QuietStep

\* createAsyncCall only adds a call that no transfer is about.
LEMMA CreateAsyncCallKeeps ==
  ASSUME IndInv, NEW x \in Contexts, NEW d \in Local \cup Remote, NEW g \in ProvidedGas,
         CreateAsyncCall(x, d, g)
  PROVE  IndInv'
<1>. USE AsyncAssumption DEF IndInv, At
<1>. DEFINE call == [context |-> x, dest |-> d, provided |-> g, limit |-> 0, status |-> "pending"]
            new == [id \in DOMAIN exec.calls \cup {created'} |->
                      IF id \in DOMAIN exec.calls THEN exec.calls[id] ELSE call]
<1>1. /\ exec.pc = "run" /\ created < MaxCalls /\ created' = created + 1
      /\ exec' = [exec EXCEPT !.calls = new]
      /\ UNCHANGED <<stored, network, legacy, answers, failures>>
  BY DEF CreateAsyncCall
<1>2. created' \in 1 .. MaxCalls BY <1>1 DEF TypeOK
<1>3. AreCalls(new)
  <2>1. call \in Call BY DEF Call
  <2>. HIDE DEF call
  <2>2. \A i \in DOMAIN exec.calls : exec.calls[i] \in Call BY CallsType DEF TypeOK
  <2>3. DOMAIN exec.calls \subseteq 1 .. MaxCalls BY CallsType DEF TypeOK
  <2>. QED BY ONLY <1>2, <2>1, <2>2, <2>3 DEF AreCalls
<1>. HIDE DEF call, new
<1>4. TypeOK' BY <1>1, <1>2, <1>3 DEF TypeOK
<1>5. GasInv' BY <1>1, ExecFields, Amounts DEF GasInv, TypeOK
<1>6. Quiet BY <1>1 DEF Quiet, TypeOK, First, FirstInv, CallbackInv
<1>. QED BY <1>4, <1>5, <1>6, QuietStep

\* An execution that fails.
LEMMA FailKeeps ==
  ASSUME IndInv, Goto("fail"), exec.pc \notin {"none", "commit", "fail"},
         UNCHANGED <<stored, network, created, answers, failures>>,
         legacy \subseteq legacy', legacy' \subseteq Local \cup Remote
  PROVE  IndInv'
<1>. USE DEF IndInv, At, Goto
<1>1. TypeOK' BY DEF TypeOK, Steps
<1>2. GasInv' BY ExecFields, Amounts DEF GasInv, TypeOK
<1>3. Quiet BY DEF Quiet, TypeOK, First, FirstInv, CallbackInv
<1>. QED BY <1>1, <1>2, <1>3, QuietStep

\* An asynchronous call that reaches the breakpoint.
LEMMA BreakpointKeeps ==
  ASSUME IndInv, NEW d \in Local \cup Remote,
         NEW data \in {"bad", "transfer", "builtin", "function"},
         NEW left \in Nat, left + Lock <= exec.left, exec.pc = "run",
         exec' = [exec EXCEPT !.pc = "async", !.left = left,
                    !.info = [dest |-> d, data |-> data, limit |-> left, locked |-> Lock]],
         legacy' = legacy \cup {d},
         UNCHANGED <<stored, network, created, answers, failures>>
  PROVE  IndInv'
<1>. USE AsyncAssumption DEF IndInv, At
<1>. DEFINE info == [dest |-> d, data |-> data, limit |-> left, locked |-> Lock]
<1>1. Lock \in Nat /\ exec.left \in Nat /\ exec.left <= GasProvided BY LockType DEF TypeOK
<1>2. left \in 0 .. GasProvided /\ Lock \in 0 .. GasProvided BY <1>1
<1>3. info \in AsyncCallInfos
  BY <1>2 DEF AsyncCallInfos
<1>4. exec'.info.locked = Lock /\ exec'.info.dest = d /\ exec'.info.limit = left
      /\ exec'.left = left
  BY DEF TypeOK
<1>5. exec' = [exec EXCEPT !.pc = "async", !.left = left, !.info = info] OBVIOUS
<1>. HIDE DEF info
<1>6. TypeOK' BY ONLY TypeOK, <1>2, <1>3, <1>5, d \in Local \cup Remote, legacy' = legacy \cup {d},
         UNCHANGED <<stored, network, created, answers, failures>> DEF TypeOK, Steps
<1>7. GasInv' BY <1>1, <1>4, <1>5, ExecFields, Amounts DEF GasInv, TypeOK
<1>8. Quiet BY <1>4, <1>5 DEF Quiet, TypeOK, First, FirstInv, CallbackInv
<1>. QED BY <1>6, <1>7, <1>8, QuietStep

\* asyncCall locks gas that it takes from the contract.
LEMMA AsyncCallKeeps ==
  ASSUME IndInv, NEW d \in Local \cup Remote,
         NEW data \in {"bad", "transfer", "builtin", "function"}, AsyncCall(d, data)
  PROVE  IndInv'
<1>1. Lock \in Nat /\ exec.left \in Nat BY LockType DEF IndInv, TypeOK
<1>2. /\ exec.pc = "run" /\ legacy' = legacy \cup {d}
      /\ UNCHANGED <<stored, network, created, answers, failures>>
  BY DEF AsyncCall, At
<1>3. CASE exec.left <= 2 * AsyncCallStep + Lock
  <2>1. Goto("fail") BY <1>3 DEF AsyncCall, Lock
  <2>. QED BY <1>2, <2>1, FailKeeps DEF IndInv, TypeOK
<1>4. CASE exec.left > 2 * AsyncCallStep + Lock
  <2>. DEFINE left == exec.left - 2 * AsyncCallStep - Lock
  <2>1. left \in Nat /\ left + Lock <= exec.left BY <1>1, <1>4, AsyncAssumption
  <2>2. exec' = [exec EXCEPT !.pc = "async", !.left = left,
                   !.info = [dest |-> d, data |-> data, limit |-> left, locked |-> Lock]]
    BY <1>1, <1>4, AsyncAssumption DEF AsyncCall, Lock
  <2>. HIDE DEF left
  <2>. QED BY <1>2, <2>1, <2>2, BreakpointKeeps
<1>. QED BY <1>1, <1>3, <1>4, AsyncAssumption

\* So does upgradeContract, when the gas suffices.
LEMMA UpgradeContractKeeps ==
  ASSUME IndInv, NEW d \in Local \cup Remote, NEW g \in {0, GasProvided},
         UpgradeContract(d, g)
  PROVE  IndInv'
<1>. DEFINE Break == \E left :
              /\ left = exec.left - AsyncCallStep - Lock
              /\ exec' = [exec EXCEPT !.pc = "async", !.left = left,
                   !.info = [dest |-> d, data |-> "function", limit |-> left, locked |-> Lock]]
<1>1. Lock \in Nat /\ exec.left \in Nat BY LockType DEF IndInv, TypeOK
<1>2. /\ exec.pc = "run" /\ legacy' = legacy \cup {d}
      /\ UNCHANGED <<stored, network, created, answers, failures>>
  BY DEF UpgradeContract, At
<1>3. CASE Goto("fail") BY <1>2, <1>3, FailKeeps DEF IndInv, TypeOK
<1>4. CASE \/ UNCHANGED exec
           \/ exec.left > AsyncCallStep /\ exec' = [exec EXCEPT !.left = @ - AsyncCallStep]
  <2>1. TypeOK' BY <1>1, <1>2, <1>4, AsyncAssumption DEF IndInv, TypeOK
  <2>2. GasInv' BY <1>1, <1>2, <1>4, ExecFields, Amounts, AsyncAssumption DEF IndInv, GasInv, TypeOK, At
  <2>3. Quiet BY <1>2, <1>4 DEF IndInv, Quiet, TypeOK, First, FirstInv, CallbackInv, At
  <2>. QED BY <2>1, <2>2, <2>3, QuietStep
<1>5. CASE /\ exec.left > AsyncCallStep /\ exec.left - AsyncCallStep > Lock
           /\ Break
  <2>1. PICK left : /\ left = exec.left - AsyncCallStep - Lock
                    /\ exec' = [exec EXCEPT !.pc = "async", !.left = left,
                             !.info = [dest |-> d, data |-> "function", limit |-> left,
                                       locked |-> Lock]]
    BY <1>5
  <2>2. left \in Nat /\ left + Lock <= exec.left BY <1>1, <1>5, <2>1, AsyncAssumption
  <2>. QED BY <1>2, <2>1, <2>2, BreakpointKeeps
<1>6. \/ Goto("fail") \/ UNCHANGED exec
      \/ /\ ~(exec.left <= AsyncCallStep)
         /\ \/ exec' = [exec EXCEPT !.left = @ - AsyncCallStep]
            \/ /\ ~(exec.left - AsyncCallStep <= Lock)
               /\ Break
  BY Zenon DEF UpgradeContract, Lock
<1>7. /\ ~(exec.left <= AsyncCallStep) => exec.left > AsyncCallStep
      /\ ~(exec.left - AsyncCallStep <= Lock) => exec.left - AsyncCallStep > Lock
  BY <1>1, AsyncAssumption
<1>. HIDE DEF Break
<1>. QED BY ONLY <1>3, <1>4, <1>5, <1>6, <1>7

\* An execution gives back or spends no more than it was provided.
LEMMA Outcome ==
  ASSUME NEW provided \in Nat, NEW o \in ExecuteOnDestContext(provided)
  PROVE  /\ o.ok \in BOOLEAN /\ o.data \in DataGas /\ o.data \in Nat
         /\ o.remaining \in Nat /\ o.spent \in Nat /\ o.remaining + o.spent <= provided
<1>1. CASE \E r \in {0, provided}, d \in DataGas :
             o = [ok |-> TRUE, remaining |-> r, spent |-> provided - r, data |-> d]
  <2>1. PICK r \in {0, provided}, d \in DataGas :
          o = [ok |-> TRUE, remaining |-> r, spent |-> provided - r, data |-> d]
    BY <1>1
  <2>. QED BY <2>1, AsyncAssumption
<1>2. CASE \E s \in {0, provided}, d \in DataGas :
             o = [ok |-> FALSE, remaining |-> 0, spent |-> s, data |-> d]
  <2>1. PICK s \in {0, provided}, d \in DataGas :
          o = [ok |-> FALSE, remaining |-> 0, spent |-> s, data |-> d]
    BY <1>2
  <2>. QED BY <2>1, AsyncAssumption
<1>. QED BY <1>1, <1>2 DEF ExecuteOnDestContext

\* What an execution may change without touching its calls.
LEMMA AmountsChange ==
  ASSUME TypeOK, UNCHANGED <<stored, network, created, legacy, answers, failures>>,
         NEW pc \in Steps,
         NEW left \in 0 .. GasProvided,
         NEW info \in AsyncCallInfos,
         NEW output \in Outputs,
         exec' = [exec EXCEPT !.pc = pc, !.left = left, !.info = info, !.output = output]
  PROVE  TypeOK'
<1>1. exec' \in [pc : Steps, type : {"none", "direct", "async", "nested", "callback"},
                 caller : Local \cup Remote,
                 provided : 0 .. GasProvided, left : 0 .. GasProvided,
                 info : AsyncCallInfos, output : Outputs, done : SUBSET (1 .. MaxCalls),
                 calls : {exec'.calls}, saved : {exec'.saved}, out : {exec'.out}]
  BY DEF TypeOK
<1>2. exec'.calls = exec.calls /\ exec'.saved = exec.saved /\ exec'.out = exec.out
  BY DEF TypeOK
<1>. QED BY <1>1, <1>2 DEF TypeOK

\* The breakpoint is over: the information on the call goes.
LEMMA NoAsyncCallType ==
  /\ NoAsyncCall \in AsyncCallInfos
  /\ NoAsyncCall.locked = 0
BY AsyncAssumption DEF NoAsyncCall, AsyncCallInfos

\* The locked gas goes back to the contract.
LEMMA RestoreLockedGasKeeps ==
  ASSUME IndInv, RestoreLockedGas
  PROVE  IndInv'
<1>. USE DEF IndInv, At
<1>1. /\ exec.pc = "async" /\ UnchangedButExec
      /\ exec' = [exec EXCEPT !.pc = "returned", !.left = exec.left + exec.info.locked,
                              !.info = NoAsyncCall]
  BY DEF RestoreLockedGas
<1>2. exec.left + exec.info.locked \in 0 .. GasProvided BY ExecFields, Amounts DEF GasInv
<1>3. TypeOK'
  <2>. DEFINE left == exec.left + exec.info.locked  output == exec.output
  <2>1. exec' = [exec EXCEPT !.pc = "returned", !.left = left,
                             !.info = NoAsyncCall, !.output = output]
    BY <1>1 DEF TypeOK
  <2>2. output \in Outputs
    BY DEF TypeOK
  <2>3. left \in 0 .. GasProvided BY <1>2
  <2>. HIDE DEF left, output
  <2>4. TypeOK /\ UNCHANGED <<stored, network, created, legacy, answers, failures>>
    BY <1>1 DEF UnchangedButExec
  <2>5. "returned" \in Steps BY DEF Steps
  <2>. QED BY ONLY <2>1, <2>2, <2>3, <2>4, <2>5, NoAsyncCallType, AmountsChange
<1>4. GasInv' BY <1>1, <1>2, NoAsyncCallType, ExecFields, Amounts DEF GasInv, TypeOK, UnchangedButExec
<1>5. Quiet BY <1>1 DEF Quiet, TypeOK, First, FirstInv, CallbackInv, UnchangedButExec
<1>. QED BY <1>3, <1>4, <1>5, QuietStep

\* The destination gives back no more than it was given.
LEMMA ExecuteSyncDestinationCallKeeps ==
  ASSUME IndInv, ExecuteSyncDestinationCall
  PROVE  IndInv'
<1>. USE DEF IndInv, At
<1>1. PICK o \in ExecuteOnDestContext(exec.left) :
        exec' = [exec EXCEPT !.pc = "callback", !.left = exec.left - o.spent,
           !.output = [ok |-> o.ok, remaining |-> o.remaining, data |-> o.data]]
  BY DEF ExecuteSyncDestinationCall, DestinationGas
<1>2. exec.pc = "async" /\ UnchangedButExec BY DEF ExecuteSyncDestinationCall
<1>3. /\ o.ok \in BOOLEAN /\ o.data \in DataGas
      /\ o.remaining \in 0 .. GasProvided /\ exec.left - o.spent \in 0 .. GasProvided
      /\ o.remaining <= exec.left - o.spent /\ exec.left - o.spent <= exec.left
  <2>1. exec.left \in Nat /\ exec.left <= GasProvided /\ GasProvided \in Nat
    BY AsyncAssumption DEF TypeOK
  <2>2. /\ o.ok \in BOOLEAN /\ o.data \in DataGas /\ o.remaining \in Nat
        /\ o.spent \in Nat /\ o.remaining + o.spent <= exec.left
    BY <1>1, <2>1, Outcome
  <2>. QED BY ONLY <2>1, <2>2
<1>4. TypeOK'
  <2>. DEFINE left == exec.left - o.spent  info == exec.info
              output == [ok |-> o.ok, remaining |-> o.remaining, data |-> o.data]
  <2>1. exec' = [exec EXCEPT !.pc = "callback", !.left = left, !.info = info,
                             !.output = output]
    BY <1>1 DEF TypeOK
  <2>2. left \in 0 .. GasProvided /\ output \in Outputs BY <1>3 DEF Outputs
  <2>3. info \in AsyncCallInfos /\ "callback" \in Steps BY DEF TypeOK, Steps
  <2>4. TypeOK /\ UNCHANGED <<stored, network, created, legacy, answers, failures>>
    BY <1>2 DEF UnchangedButExec
  <2>. HIDE DEF left, info, output
  <2>. QED BY ONLY <2>1, <2>2, <2>3, <2>4, AmountsChange
<1>5. GasInv' BY <1>1, <1>2, <1>3, ExecFields, Amounts DEF GasInv, TypeOK, UnchangedButExec
<1>6. Quiet BY <1>1, <1>2 DEF Quiet, TypeOK, First, FirstInv, CallbackInv, UnchangedButExec
<1>. QED BY <1>4, <1>5, <1>6, QuietStep

\* The callback spends at most what is left and what was locked.
LEMMA ExecuteSyncCallbackCallKeeps ==
  ASSUME IndInv, ExecuteSyncCallbackCall
  PROVE  IndInv'
<1>. USE DEF IndInv, At
<1>1. exec.pc = "callback" /\ UnchangedButExec BY DEF ExecuteSyncCallbackCall
<1>2. /\ exec.left \in Nat /\ exec.info.locked \in Nat /\ exec.output.remaining \in Nat
      /\ exec.output.data \in Nat /\ exec.output.remaining <= exec.left
      /\ exec.left + exec.info.locked <= GasProvided
  BY <1>1, ExecFields, Amounts DEF GasInv
<1>3. \E left \in Nat : /\ left <= exec.left + exec.info.locked
                        /\ exec' = [exec EXCEPT !.pc = "returned", !.left = left,
                              !.info = NoAsyncCall, !.output = NoOutput]
  <2>1. CASE ~HasCallbackGas(exec.output, exec.info.locked)
    <3>1. exec' = [exec EXCEPT !.pc = "returned", !.info = NoAsyncCall, !.output = NoOutput]
      BY <2>1 DEF ExecuteSyncCallbackCall
    <3>2. exec' = [exec EXCEPT !.pc = "returned", !.left = exec.left,
                              !.info = NoAsyncCall, !.output = NoOutput]
      BY <3>1 DEF TypeOK
    <3>3. exec.left <= exec.left + exec.info.locked BY <1>2
    <3>. QED BY <1>2, <3>2, <3>3
  <2>2. CASE HasCallbackGas(exec.output, exec.info.locked)
    <3>. DEFINE limit == CallbackGasLimit(exec.output, exec.info.locked)
    <3>1. limit \in Nat /\ limit <= exec.left + exec.info.locked
      BY <1>2, <2>2, AsyncAssumption DEF HasCallbackGas, CallbackGasLimit
    <3>2. PICK o \in ExecuteOnDestContext(limit) :
            exec' = [exec EXCEPT !.pc = "returned", !.info = NoAsyncCall,
                !.output = NoOutput, !.left = exec.left + exec.info.locked - o.spent]
      BY <2>2 DEF ExecuteSyncCallbackCall
    <3>. HIDE DEF limit
    <3>3. o.spent \in Nat /\ o.spent <= limit BY <3>1, <3>2, Outcome
    <3>. DEFINE left == exec.left + exec.info.locked - o.spent
    <3>4. left \in Nat /\ left <= exec.left + exec.info.locked BY <1>2, <3>1, <3>3
    <3>5. exec' = [exec EXCEPT !.pc = "returned", !.left = left,
                              !.info = NoAsyncCall, !.output = NoOutput]
      BY <3>2 DEF TypeOK
    <3>. HIDE DEF left
    <3>. QED BY <3>4, <3>5
  <2>. QED BY <2>1, <2>2
<1>4. PICK left \in Nat : /\ left <= exec.left + exec.info.locked
                          /\ exec' = [exec EXCEPT !.pc = "returned", !.left = left,
                              !.info = NoAsyncCall, !.output = NoOutput]
  BY <1>3
<1>5. NoOutput \in Outputs
  BY AsyncAssumption DEF NoOutput, Outputs
<1>6. left \in 0 .. GasProvided BY <1>2, <1>4, AsyncAssumption
<1>7. TypeOK' BY <1>1, <1>4, <1>5, <1>6, NoAsyncCallType, AmountsChange DEF UnchangedButExec, Steps
<1>8. GasInv' BY <1>1, <1>2, <1>4, NoAsyncCallType, ExecFields, Amounts DEF GasInv, TypeOK, UnchangedButExec
<1>9. Quiet BY <1>1, <1>4 DEF Quiet, TypeOK, First, FirstInv, CallbackInv, UnchangedButExec
<1>. QED BY <1>7, <1>8, <1>9, QuietStep

\* Without calls nothing is owed.
LEMMA AfterFunctionKeeps ==
  ASSUME IndInv, AfterFunction
  PROVE  IndInv'
<1>. USE DEF IndInv, At
<1>1. PICK pc \in {"stack", "send", "setup"} :
        /\ exec' = [exec EXCEPT !.pc = pc]
        /\ exec.type = "callback" <=> pc = "stack"
        /\ pc = "send" => DOMAIN exec.calls = {}
  BY DEF AfterFunction, Goto
<1>2. exec.pc = "returned" /\ UnchangedButExec BY DEF AfterFunction
<1>3. TypeOK' BY <1>1, <1>2 DEF TypeOK, Steps, UnchangedButExec
<1>4. Owed' = 0 \/ pc # "send"
  <2>. SUFFICES ASSUME pc = "send" PROVE Owed' = 0 OBVIOUS
  <2>1. Limits(exec'.calls, exec'.done) = [i \in {} |-> 0]
    BY <1>1 DEF Limits, TypeOK
  <2>2. SumOf([i \in {} |-> 0]) = 0
    <3>1. [i \in {} |-> 0] \in [{} -> Int] /\ IsFiniteSet({}) BY FS_EmptySet
    <3>. QED BY <3>1, SumOfZero
  <2>. QED BY <2>1, <2>2, SumFunctionIs DEF Owed
<1>5. GasInv' BY <1>1, <1>2, <1>4, ExecFields, Amounts DEF GasInv, TypeOK, UnchangedButExec
<1>6. Quiet
  <2>1. /\ exec'.pc = pc /\ exec'.type = exec.type /\ exec'.caller = exec.caller
        /\ exec'.out = exec.out /\ exec'.saved = exec.saved /\ exec'.calls = exec.calls
    BY <1>1 DEF TypeOK
  <2>2. First => exec.saved = NoInfo BY <1>2 DEF FirstInv
  <2>3. DOMAIN NoInfo.calls = {} BY DEF NoInfo, NoCalls
  <2>. QED BY <1>1, <1>2, <2>1, <2>2, <2>3 DEF Quiet, First, UnchangedButExec
<1>. QED BY <1>3, <1>5, <1>6, QuietStep

\* What an execution may change with its calls.
LEMMA CallsChange ==
  ASSUME TypeOK, UNCHANGED <<stored, network, created, legacy, answers, failures>>,
         NEW pc \in Steps, NEW left \in 0 .. GasProvided,
         NEW calls, AreCalls(calls), NEW done \in SUBSET (1 .. MaxCalls),
         NEW saved, IsInfo(saved),
         exec' = [exec EXCEPT !.pc = pc, !.left = left, !.calls = calls, !.done = done,
                              !.saved = saved]
  PROVE  TypeOK'
<1>1. exec' \in [pc : Steps, type : {"none", "direct", "async", "nested", "callback"},
                 caller : Local \cup Remote,
                 provided : 0 .. GasProvided, left : 0 .. GasProvided,
                 info : AsyncCallInfos, output : Outputs, done : SUBSET (1 .. MaxCalls),
                 calls : {exec'.calls}, saved : {exec'.saved}, out : {exec'.out}]
  BY DEF TypeOK
<1>2. exec'.calls = calls /\ exec'.saved = saved /\ exec'.out = exec.out
  BY DEF TypeOK
<1>. QED BY <1>1, <1>2 DEF TypeOK

\* The fields that a change of the calls leaves and those it sets.
LEMMA CallsChanged ==
  ASSUME TypeOK, NEW pc, NEW left, NEW calls, NEW done, NEW saved,
         exec' = [exec EXCEPT !.pc = pc, !.left = left, !.calls = calls, !.done = done,
                              !.saved = saved]
  PROVE  /\ exec'.pc = pc /\ exec'.left = left /\ exec'.calls = calls /\ exec'.done = done
         /\ exec'.saved = saved /\ exec'.type = exec.type /\ exec'.caller = exec.caller
         /\ exec'.info = exec.info /\ exec'.out = exec.out
BY DEF TypeOK

\* Nothing is owed when there are no calls.
LEMMA NothingOwed ==
  ASSUME NEW calls, DOMAIN calls = {}, NEW done
  PROVE  SumFunction(Limits(calls, done)) = 0
<1>1. Limits(calls, done) = [i \in {} |-> 0] BY DEF Limits
<1>2. [i \in {} |-> 0] \in [{} -> Int] /\ IsFiniteSet({}) BY FS_EmptySet
<1>. QED BY <1>1, <1>2, SumOfZero, SumFunctionIs

\* Nothing is saved in NoInfo.
LEMMA NoInfoType == IsInfo(NoInfo) /\ DOMAIN NoInfo.calls = {}
<1>1. DOMAIN NoCalls = {} /\ NoCalls \in [{} -> Call] BY DEF NoCalls
<1>2. AreCalls(NoCalls) BY <1>1 DEF AreCalls
<1>. QED BY <1>1, <1>2 DEF NoInfo, IsInfo

\* The first round of setupAsyncCallsGas.
LEMMA SetupGasKeeps ==
  ASSUME IndInv, SetupGas
  PROVE  IndInv'
<1>. USE DEF IndInv, At
<1>1. exec.pc = "setup" /\ UNCHANGED <<stored, network, created, legacy, answers, failures>>
  BY DEF SetupGas, UnchangedButExec
<1>2. CASE ~HasGasFor(exec.calls, exec.left)
  <2>1. Goto("fail") BY <1>2 DEF SetupGas, Goto
  <2>. QED BY <1>1, <2>1, FailKeeps DEF TypeOK
<1>3. CASE HasGasFor(exec.calls, exec.left)
  <2>. DEFINE new == setupAsyncCallsGas(exec.calls, exec.left)
              left == exec.left  done == exec.done  saved == exec.saved
  <2>1. exec' = [exec EXCEPT !.pc = "process", !.left = left, !.calls = new, !.done = done,
                             !.saved = saved]
    BY <1>3 DEF SetupGas, TypeOK
  <2>2. AreCalls(new) BY <1>3, ExecFields, SetupFits
  <2>. HIDE DEF new
  <2>3. /\ "process" \in Steps /\ left \in 0 .. GasProvided
        /\ done \in SUBSET (1 .. MaxCalls) /\ IsInfo(saved)
    BY ExecFields DEF Steps
  <2>. HIDE DEF left, done, saved
  <2>4. TypeOK' BY <1>1, <2>1, <2>2, <2>3, CallsChange
  <2>5. /\ exec'.pc = "process" /\ exec'.left = left /\ exec'.calls = new
        /\ exec'.saved = saved /\ exec'.type = exec.type /\ exec'.caller = exec.caller
        /\ exec'.info = exec.info /\ exec'.out = exec.out
    BY ONLY TypeOK, <2>1 DEF TypeOK
  <2>. USE DEF left, saved
  <2>6. GasInv' BY <1>1, <2>5 DEF GasInv
  <2>7. Quiet BY <1>1, <2>5 DEF Quiet, First, FirstInv, CallbackInv
  <2>. QED BY <2>4, <2>6, <2>7, QuietStep
<1>. QED BY <1>2, <1>3

\* Only the pending calls are kept; when there are none nothing is owed.
LEMMA ProcessedAllKeeps ==
  ASSUME IndInv, ProcessedAll
  PROVE  IndInv'
<1>. USE DEF IndInv, At
<1>1. exec.pc = "process" /\ UNCHANGED <<stored, network, created, legacy, answers, failures>>
  BY DEF ProcessedAll, UnchangedButExec
<1>. DEFINE new == getPendingAsyncCalls(exec.calls)
            pc == IF DOMAIN new = {} THEN "send" ELSE "save"
            left == exec.left  saved == exec.saved
<1>2. exec' = [exec EXCEPT !.pc = pc, !.left = left, !.calls = new, !.done = {},
                           !.saved = saved]
  BY DEF ProcessedAll, TypeOK
<1>3. AreCalls(new)
  <2>1. /\ \A i \in DOMAIN exec.calls : exec.calls[i] \in Call
        /\ DOMAIN exec.calls \subseteq 1 .. MaxCalls
    BY ExecFields, CallsType
  <2>. QED BY <2>1 DEF AreCalls, getPendingAsyncCalls
<1>. HIDE DEF new
<1>4. /\ pc \in Steps /\ left \in 0 .. GasProvided /\ {} \in SUBSET (1 .. MaxCalls)
      /\ IsInfo(saved) /\ pc \in {"send", "save"} /\ (pc = "send" => DOMAIN new = {})
  BY ExecFields DEF Steps
<1>. HIDE DEF pc, left, saved
<1>5. TypeOK' BY <1>1, <1>2, <1>3, <1>4, CallsChange
<1>6. /\ exec'.pc = pc /\ exec'.left = exec.left /\ exec'.calls = new /\ exec'.done = {}
      /\ exec'.saved = exec.saved /\ exec'.type = exec.type /\ exec'.caller = exec.caller
      /\ exec'.info = exec.info /\ exec'.out = exec.out
  BY <1>2, CallsChanged DEF left, saved
<1>7. pc = "send" => Owed' = 0 BY <1>4, <1>6, NothingOwed DEF Owed
<1>8. GasInv'
  <2>1. exec.left + exec.info.locked + Gas(exec.out) + Gas(network) <= GasProvided
    BY DEF GasInv
  <2>2. /\ exec.left \in Nat /\ exec.info.locked \in Nat /\ Gas(exec.out) \in Nat
        /\ Gas(network) \in Nat /\ GasProvided \in Nat
    BY ExecFields, Amounts
  <2>3. pc = "send" => /\ Owed' <= exec.left
                       /\ Owed' + exec.info.locked + Gas(exec.out) + Gas(network) <= GasProvided
    BY ONLY <1>7, <2>1, <2>2
  <2>. QED BY <1>1, <1>4, <1>6, <2>1, <2>3 DEF GasInv
<1>9. Quiet
  <2>1. First => exec.saved = NoInfo BY <1>1 DEF FirstInv
  <2>2. DOMAIN NoInfo.calls = {} BY DEF NoInfo, NoCalls
  <2>3. exec.type # "callback" BY <1>1 DEF CallbackInv
  <2>. QED BY <1>1, <1>4, <1>6, <2>1, <2>2, <2>3 DEF Quiet, First
<1>. QED BY <1>5, <1>8, <1>9, QuietStep

\* The second round of setupAsyncCallsGas: what is owed is there, and the calls
\* that will be sent are saved.
LEMMA SavePendingKeeps ==
  ASSUME IndInv, SavePending
  PROVE  IndInv'
<1>. USE DEF IndInv, At
<1>1. exec.pc = "save" /\ UNCHANGED <<stored, network, created, legacy, answers, failures>>
  BY DEF SavePending, UnchangedButExec
<1>. DEFINE left == IF exec.left > StoreGas THEN exec.left - StoreGas ELSE 0
<1>2. left \in 0 .. GasProvided /\ left <= exec.left /\ left \in Nat
  BY ExecFields, AsyncAssumption
<1>3. exec' = IF HasGasFor(exec.calls, left)
              THEN [exec EXCEPT !.pc = "send", !.left = left,
                      !.saved = savePendingAsyncCalls(exec.calls),
                      !.calls = setupAsyncCallsGas(exec.calls, left)]
              ELSE [exec EXCEPT !.pc = "fail"]
  BY DEF SavePending
<1>. HIDE DEF left
<1>4. CASE ~HasGasFor(exec.calls, left)
  <2>1. Goto("fail") BY <1>3, <1>4 DEF Goto
  <2>. QED BY <1>1, <2>1, FailKeeps DEF TypeOK
<1>5. CASE HasGasFor(exec.calls, left)
  <2>. DEFINE new == setupAsyncCallsGas(exec.calls, left)
              saved == savePendingAsyncCalls(exec.calls)  done == exec.done
  <2>1. exec' = [exec EXCEPT !.pc = "send", !.left = left, !.calls = new, !.done = done,
                             !.saved = saved]
    BY <1>3, <1>5 DEF TypeOK
  <2>2. /\ AreCalls(new) /\ DOMAIN new = DOMAIN exec.calls
        /\ \A i \in DOMAIN exec.calls : new[i].dest = exec.calls[i].dest
        /\ SumFunction(Limits(new, {})) <= left
    BY <1>2, <1>5, ExecFields, SetupFits
  <2>3. exec.type \notin {"callback", "none"} BY <1>1 DEF CallbackInv, TypesInv
  <2>4. First BY <2>3 DEF First, TypeOK
  <2>5. IsInfo(saved) /\ saved.calls = exec.calls
    <3>1. exec.caller \in {LocalCaller, RemoteCaller} BY <2>4 DEF FirstInv
    <3>2. saved = [caller |-> exec.caller, calls |-> exec.calls] BY DEF savePendingAsyncCalls
    <3>. QED BY <3>1, <3>2, ExecFields DEF IsInfo
  <2>6. "send" \in Steps /\ done \in SUBSET (1 .. MaxCalls) /\ done = {}
    BY <1>1, ExecFields DEF Steps, GasInv
  <2>. HIDE DEF new, saved, done
  <2>7. TypeOK' BY <1>1, <1>2, <2>1, <2>2, <2>5, <2>6, CallsChange
  <2>8. /\ exec'.pc = "send" /\ exec'.left = left /\ exec'.calls = new /\ exec'.done = done
        /\ exec'.saved = saved /\ exec'.type = exec.type /\ exec'.caller = exec.caller
        /\ exec'.info = exec.info /\ exec'.out = exec.out
    BY <2>1, CallsChanged
  <2>9. Owed' <= left /\ Owed' \in Nat
    <3>1. Owed' = SumFunction(Limits(new, {})) BY <2>6, <2>8 DEF Owed
    <3>. QED BY <2>2, <3>1, LimitsType
  <2>10. GasInv'
    BY <1>1, <1>2, <2>6, <2>8, <2>9, ExecFields, Amounts DEF GasInv
  <2>11. Quiet BY <1>1, <2>2, <2>3, <2>5, <2>8 DEF Quiet, First
  <2>. QED BY <2>7, <2>10, <2>11, QuietStep
<1>. QED BY <1>4, <1>5

\* A call within the shard and its callback spend what there is.
LEMMA ProcessAsyncCallKeeps ==
  ASSUME IndInv, NEW i \in 1 .. MaxCalls, ProcessAsyncCall(i)
  PROVE  IndInv'
<1>. USE DEF IndInv, At
<1>1. /\ exec.pc = "process" /\ i \in DOMAIN exec.calls
      /\ UNCHANGED <<stored, network, created, legacy, answers, failures>>
  BY DEF ProcessAsyncCall, UnchangedButExec, NextCalls
<1>2. CASE Goto("fail") BY <1>1, <1>2, FailKeeps DEF TypeOK
<1>. DEFINE done == exec.done \cup {i}
            saved == exec.saved
            resolved == [exec.calls EXCEPT ![i] = [exec.calls[i] EXCEPT !.status = "resolved"]]
<1>3. ASSUME NEW left \in Nat, left <= exec.left, NEW calls \in {exec.calls, resolved},
             exec' = [exec EXCEPT !.pc = "process", !.left = left, !.calls = calls,
                                  !.done = done, !.saved = saved]
      PROVE  IndInv'
  <2>1. AreCalls(resolved)
    <3>1. /\ \A j \in DOMAIN exec.calls : exec.calls[j] \in Call
          /\ DOMAIN exec.calls \subseteq 1 .. MaxCalls
      BY ExecFields, CallsType
    <3>2. [exec.calls[i] EXCEPT !.status = "resolved"] \in Call BY <1>1, <3>1 DEF Call
    <3>. QED BY <3>1, <3>2, ExecFields DEF AreCalls
  <2>2. AreCalls(calls) BY <2>1, ExecFields
  <2>. HIDE DEF resolved
  <2>3. /\ "process" \in Steps /\ left \in 0 .. GasProvided
        /\ done \in SUBSET (1 .. MaxCalls) /\ IsInfo(saved)
    <3>1. left \in 0 .. GasProvided BY <1>3, ExecFields
    <3>2. "process" \in Steps BY DEF Steps
    <3>. QED BY <3>1, <3>2, ExecFields
  <2>. HIDE DEF done, saved
  <2>4. TypeOK' BY <1>1, <1>3, <2>2, <2>3, CallsChange
  <2>5. /\ exec'.pc = "process" /\ exec'.left = left
        /\ exec'.saved = saved /\ exec'.type = exec.type /\ exec'.caller = exec.caller
        /\ exec'.info = exec.info /\ exec'.out = exec.out
    BY ONLY TypeOK, <1>3 DEF TypeOK
  <2>. USE DEF saved
  <2>6. GasInv' BY <1>1, <1>3, <2>5, ExecFields, Amounts DEF GasInv
  <2>7. Quiet BY <1>1, <2>5 DEF Quiet, First, FirstInv, CallbackInv
  <2>. QED BY <2>4, <2>6, <2>7, QuietStep
<1>4. CASE ~Goto("fail")
  <2>1. PICK o \in ExecuteOnDestContext(exec.left), pending \in BOOLEAN :
          IF pending
          THEN exec' = [exec EXCEPT !.done = done, !.left = exec.left - o.spent]
          ELSE /\ HasCallbackGas(o, 0)
               /\ \E cb \in ExecuteOnDestContext(CallbackGasLimit(o, 0)) :
                    exec' = [exec EXCEPT !.done = done, !.calls[i].status = "resolved",
                              !.left = exec.left - o.spent - cb.spent]
    BY <1>4, Zenon DEF ProcessAsyncCall, DestinationGas
  <2>2. /\ o.data \in Nat /\ o.remaining \in Nat /\ o.spent \in Nat
        /\ o.remaining + o.spent <= exec.left
    BY <2>1, ExecFields, Outcome
  <2>3. CASE pending
    <3>. DEFINE left == exec.left - o.spent  calls == exec.calls
    <3>1. left \in Nat /\ left <= exec.left BY <2>2, ExecFields
    <3>2. exec' = [exec EXCEPT !.pc = "process", !.left = left, !.calls = calls,
                               !.done = done, !.saved = saved]
      BY <1>1, <2>1, <2>3 DEF TypeOK
    <3>. HIDE DEF left
    <3>. QED BY <1>3, <3>1, <3>2
  <2>4. CASE ~pending
    <3>1. PICK cb \in ExecuteOnDestContext(CallbackGasLimit(o, 0)) :
            exec' = [exec EXCEPT !.done = done, !.calls[i].status = "resolved",
                              !.left = exec.left - o.spent - cb.spent]
      BY <2>1, <2>4
    <3>. DEFINE limit == CallbackGasLimit(o, 0)
    <3>2. limit \in Nat /\ limit <= o.remaining
      <4>1. HasCallbackGas(o, 0) BY <2>1, <2>4
      <4>. QED BY ONLY <2>2, <4>1, AsyncAssumption DEF CallbackGasLimit, HasCallbackGas
    <3>3. cb.spent \in Nat /\ cb.spent <= o.remaining
      <4>1. cb \in ExecuteOnDestContext(limit) BY <3>1
      <4>. HIDE DEF limit
      <4>2. cb.spent \in Nat /\ cb.remaining \in Nat /\ cb.remaining + cb.spent <= limit
        BY ONLY <3>2, <4>1, Outcome
      <4>. QED BY ONLY <2>2, <3>2, <4>2
    <3>. DEFINE left == exec.left - o.spent - cb.spent
    <3>4. left \in Nat /\ left <= exec.left BY <2>2, <3>3, ExecFields
    <3>5. exec' = [exec EXCEPT !.pc = "process", !.left = left, !.calls = resolved,
                               !.done = done, !.saved = saved]
      BY <1>1, <3>1 DEF TypeOK
    <3>. HIDE DEF left, resolved
    <3>. QED BY <1>3, <3>4, <3>5
  <2>. QED BY <2>3, <2>4
<1>. QED BY <1>2, <1>4

-----------------------------------------------------------------------------
(* Steps that send *)

\* What an execution may change when it sends a transfer.
LEMMA OutChange ==
  ASSUME TypeOK, UNCHANGED <<stored, network, created, legacy, answers, failures>>,
         NEW pc \in Steps, NEW left \in 0 .. GasProvided, NEW info \in AsyncCallInfos,
         NEW done \in SUBSET (1 .. MaxCalls), NEW saved, IsInfo(saved),
         NEW out, AreTransfers(out),
         exec' = [exec EXCEPT !.pc = pc, !.left = left, !.info = info, !.done = done,
                              !.saved = saved, !.out = out]
  PROVE  TypeOK'
<1>1. exec' \in [pc : Steps, type : {"none", "direct", "async", "nested", "callback"},
                 caller : Local \cup Remote,
                 provided : 0 .. GasProvided, left : 0 .. GasProvided,
                 info : AsyncCallInfos, output : Outputs, done : SUBSET (1 .. MaxCalls),
                 calls : {exec'.calls}, saved : {exec'.saved}, out : {exec'.out}]
  BY DEF TypeOK
<1>2. exec'.calls = exec.calls /\ exec'.saved = saved /\ exec'.out = out
  BY DEF TypeOK
<1>. QED BY <1>1, <1>2 DEF TypeOK

\* The fields that sending leaves and those it sets.
LEMMA OutChanged ==
  ASSUME TypeOK, NEW pc, NEW left, NEW info, NEW done, NEW saved, NEW out,
         exec' = [exec EXCEPT !.pc = pc, !.left = left, !.info = info, !.done = done,
                              !.saved = saved, !.out = out]
  PROVE  /\ exec'.pc = pc /\ exec'.left = left /\ exec'.info = info /\ exec'.done = done
         /\ exec'.saved = saved /\ exec'.out = out /\ exec'.calls = exec.calls
         /\ exec'.type = exec.type /\ exec'.caller = exec.caller
BY DEF TypeOK

\* A transfer of the breakpoint, which carries no more than the gas it takes.
LEMMA BreakpointSends ==
  ASSUME IndInv, exec.pc = "async", UnchangedButExec,
         NEW left \in Nat, NEW limit \in Nat, left + limit <= exec.left,
         exec' = [exec EXCEPT !.pc = "returned", !.left = left, !.info = NoAsyncCall,
                              !.out = With(exec.out, CallTransfer(exec.info, limit))]
  PROVE  IndInv'
<1>. DEFINE m == CallTransfer(exec.info, limit)
            out == With(exec.out, m)  done == exec.done  saved == exec.saved
            pc == "returned"  info == NoAsyncCall
<1>. USE DEF IndInv, At
<1>1. UNCHANGED <<stored, network, created, legacy, answers, failures>> BY DEF UnchangedButExec
<1>2. /\ exec.info.dest \in Local \cup Remote /\ exec.info.locked \in 0 .. GasProvided
      /\ exec.info.dest \in legacy /\ exec.info.locked = Lock
  BY DEF TypeOK, AsyncCallInfos, LegacyInv
<1>3. left \in 0 .. GasProvided /\ limit \in 0 .. GasProvided BY ExecFields
<1>4. /\ m = [kind |-> "call", id |-> 0, dest |-> exec.info.dest, limit |-> limit,
              locked |-> exec.info.locked]
      /\ CountedGas(m) = limit + exec.info.locked /\ Answers(m) = 0
  BY DEF CallTransfer, CountedGas, GasOf, Answers
<1>5. m \in Transfers BY <1>2, <1>3, <1>4, AsyncAssumption DEF Transfers
<1>. HIDE DEF m
<1>6. /\ AreTransfers(out) /\ BagToSet(out) = BagToSet(exec.out) \cup {m}
      /\ Gas(out) = Gas(exec.out) + limit + exec.info.locked
      /\ AnswersIn(out) = AnswersIn(exec.out)
  <2>1. AreTransfers(exec.out) BY DEF TypeOK
  <2>2. /\ Gas(out) = Gas(exec.out) + (limit + exec.info.locked)
        /\ AnswersIn(out) = AnswersIn(exec.out) + 0
    BY ONLY <1>4, <1>5, <2>1, WithTransfer
  <2>. QED BY <1>5, <2>1, <2>2, <1>2, WithTransfer, Amounts
<1>7. exec' = [exec EXCEPT !.pc = pc, !.left = left, !.info = info, !.done = done,
                           !.saved = saved, !.out = out]
  BY DEF TypeOK, m
<1>8. /\ done \in SUBSET (1 .. MaxCalls) /\ IsInfo(saved)
      /\ pc \in Steps /\ info \in AsyncCallInfos
  BY ExecFields, NoAsyncCallType DEF Steps
<1>. HIDE DEF out, done, saved, pc, info
<1>9. TypeOK' BY ONLY TypeOK, <1>1, <1>3, <1>6, <1>7, <1>8, OutChange
<1>10. /\ exec'.pc = pc /\ exec'.left = left /\ exec'.info = info /\ exec'.done = done
       /\ exec'.saved = saved /\ exec'.out = out /\ exec'.calls = exec.calls
       /\ exec'.type = exec.type /\ exec'.caller = exec.caller
  BY ONLY TypeOK, <1>7, OutChanged
<1>11. /\ exec'.pc = "returned" /\ exec'.info = NoAsyncCall /\ exec'.done = exec.done
       /\ exec'.saved = exec.saved
  BY <1>10 DEF pc, info, done, saved
<1>12. GasInv'
  BY <1>1, <1>2, <1>6, <1>10, <1>11, NoAsyncCallType, ExecFields, Amounts DEF GasInv
<1>13. LegacyInv'
  <2>1. LegacyCall(m) BY <1>2, <1>4, LockType DEF LegacyCall
  <2>2. \A n : LegacyCall(n) => LegacyCall(n)'
    BY <1>1 DEF LegacyCall, IsCall, Lock, ShouldLockGas, ComputeGasLockedForAsync
  <2>. QED BY <1>1, <1>6, <1>10, <1>11, <2>1, <2>2 DEF LegacyInv
<1>14. FirstInv' BY <1>1, <1>10, <1>11 DEF FirstInv, First
<1>15. SentInv' BY <1>4, <1>6, <1>10 DEF SentInv
<1>16. CallbackInv' BY <1>1, <1>10, <1>11 DEF CallbackInv, Resolves, InFlight
<1>17. ExpectedInv' BY <1>1 DEF ExpectedInv, InFlight
<1>18. AnswerInv' BY <1>1, <1>6, <1>10, Amounts DEF AnswerInv
<1>19. TypesInv' BY <1>10, <1>11 DEF TypesInv
<1>. QED BY <1>9, <1>12, <1>13, <1>14, <1>15, <1>16, <1>17, <1>18, <1>19

\* asyncCall to another shard.
LEMMA SendAsyncCallToDestinationKeeps ==
  ASSUME IndInv, SendAsyncCallToDestination
  PROVE  IndInv'
<1>. DEFINE limit == exec.info.limit  left == 0
<1>1. /\ exec.pc = "async" /\ UnchangedButExec
      /\ exec' = [exec EXCEPT !.pc = "returned", !.left = left, !.info = NoAsyncCall,
                              !.out = With(exec.out, CallTransfer(exec.info, limit))]
  BY DEF SendAsyncCallToDestination, At
<1>2. left \in Nat /\ limit \in Nat /\ left + limit <= exec.left
  BY <1>1, ExecFields DEF IndInv, TypeOK, AsyncCallInfos, GasInv, At
<1>. HIDE DEF limit, left
<1>. QED BY <1>1, <1>2, BreakpointSends

\* A builtin function that goes on in another shard.
LEMMA ExecuteBuiltinCrossShardKeeps ==
  ASSUME IndInv, ExecuteBuiltinCrossShard
  PROVE  IndInv'
<1>1. exec.pc = "async" /\ UnchangedButExec BY DEF ExecuteBuiltinCrossShard, At
<1>2. CASE Goto("fail")
  BY <1>1, <1>2, FailKeeps DEF IndInv, TypeOK, UnchangedButExec
<1>3. CASE ~Goto("fail")
  <2>0. PICK o \in ExecuteOnDestContext(exec.left) : \E limit \in {0, o.spent} :
          exec' = [exec EXCEPT !.pc = "returned", !.left = o.remaining,
                !.info = NoAsyncCall, !.out = With(exec.out, CallTransfer(exec.info, limit))]
    BY <1>3 DEF ExecuteBuiltinCrossShard, DestinationGas
  <2>1. PICK limit \in {0, o.spent} :
          exec' = [exec EXCEPT !.pc = "returned", !.left = o.remaining,
                !.info = NoAsyncCall, !.out = With(exec.out, CallTransfer(exec.info, limit))]
    BY <2>0
  <2>. DEFINE left == o.remaining
  <2>2. left \in Nat /\ limit \in Nat /\ left + limit <= exec.left
    <3>1. exec.left \in Nat BY ExecFields DEF IndInv
    <3>2. /\ o.remaining \in Nat /\ o.spent \in Nat /\ o.remaining + o.spent <= exec.left
      BY <2>0, <3>1, Outcome
    <3>. QED BY <2>1, <3>1, <3>2
  <2>3. exec' = [exec EXCEPT !.pc = "returned", !.left = left,
                !.info = NoAsyncCall, !.out = With(exec.out, CallTransfer(exec.info, limit))]
    BY <2>1
  <2>. HIDE DEF left
  <2>. QED BY <1>1, <2>2, <2>3, BreakpointSends
<1>. QED BY <1>2, <1>3

\* A step to the end of an execution, which sends nothing.
LEMMA CommitKeeps ==
  ASSUME IndInv, exec.pc \in {"send", "stack"}, Goto("commit"), UnchangedButExec
  PROVE  IndInv'
<1>. USE DEF IndInv, At, Goto, UnchangedButExec
<1>1. TypeOK' BY DEF TypeOK, Steps, Steps
<1>2. GasInv' BY ExecFields, Amounts DEF GasInv, TypeOK, AsyncCallInfos
<1>3. Quiet BY DEF Quiet, TypeOK, First, FirstInv, CallbackInv
<1>. QED BY <1>1, <1>2, <1>3, QuietStep

\* The execution of the transaction is the only one that sends calls.
LEMMA SendIsFirst ==
  ASSUME IndInv, exec.pc = "send"
  PROVE  First
BY DEF IndInv, CallbackInv, TypesInv, At, First, TypeOK

\* A pending call is sent: its gas is no longer owed, and it is sent once.
LEMMA SendPendingKeeps ==
  ASSUME IndInv, NEW i \in 1 .. MaxCalls, SendPending(i)
  PROVE  IndInv'
<1>. DEFINE m == PendingTransfer(i, exec.calls[i])
            out == With(exec.out, m)  done == exec.done \cup {i}  saved == exec.saved
            pc == "send"  info == exec.info  left == 0
<1>. USE DEF IndInv, At
<1>1. /\ exec.pc = "send" /\ UNCHANGED <<stored, network, created, legacy, answers, failures>>
      /\ i \in DOMAIN exec.calls /\ i \notin exec.done
  BY DEF SendPending, UnchangedButExec, Unsent
<1>2. CASE Goto("fail") BY <1>1, <1>2, FailKeeps DEF TypeOK
<1>3. CASE ~Goto("fail")
  <2>1. First BY <1>1, SendIsFirst
  <2>2. exec.calls[i] \in Call BY <1>1, ExecFields, CallsType
  <2>3. /\ exec.calls[i].dest \in Local \cup Remote /\ exec.calls[i].limit \in Nat
        /\ Owed = exec.calls[i].limit + SumFunction(Limits(exec.calls, done))
        /\ SumFunction(Limits(exec.calls, done)) \in Nat
    <3>1. exec.calls[i].dest \in Local \cup Remote /\ exec.calls[i].limit \in Nat
      BY <2>2 DEF Call
    <3>2. Owed = exec.calls[i].limit + SumFunction(Limits(exec.calls, done))
      <4>1. AreCalls(exec.calls) BY ExecFields
      <4>. QED BY ONLY <1>1, <4>1, LimitsSent DEF Owed
    <3>. QED BY <3>1, <3>2, ExecFields, LimitsType
  <2>4. exec.calls[i].limit \in 0 .. GasProvided
    BY <1>1, <2>3, ExecFields, Amounts DEF GasInv
  <2>5. /\ m = [kind |-> "call", id |-> i, dest |-> exec.calls[i].dest,
                limit |-> exec.calls[i].limit, locked |-> 0]
        /\ CountedGas(m) = exec.calls[i].limit /\ Answers(m) = 0
    BY <2>3 DEF PendingTransfer, CountedGas, GasOf, Answers
  <2>6. m \in Transfers BY <2>3, <2>4, <2>5, AsyncAssumption DEF Transfers
  <2>7. m \notin BagToSet(exec.out) BY <1>1, <2>5 DEF SentInv
  <2>8. exec' = [exec EXCEPT !.pc = pc, !.left = left, !.info = info, !.done = done,
                             !.saved = saved, !.out = out]
    <3>1. exec' = [exec EXCEPT !.left = left, !.done = done, !.out = out]
      BY <1>3 DEF SendPending
    <3>. HIDE DEF m, out, done
    <3>. QED BY ONLY TypeOK, <1>1, <3>1 DEF TypeOK, pc, info, saved
  <2>. HIDE DEF m
  <2>9. /\ AreTransfers(out) /\ BagToSet(out) = BagToSet(exec.out) \cup {m}
        /\ Gas(out) = Gas(exec.out) + exec.calls[i].limit
        /\ AnswersIn(out) = AnswersIn(exec.out)
        /\ out[m] = 1 /\ \A n \in BagToSet(exec.out) : out[n] = exec.out[n]
    <3>1. AreTransfers(exec.out) BY DEF TypeOK
    <3>2. /\ Gas(out) = Gas(exec.out) + exec.calls[i].limit
          /\ AnswersIn(out) = AnswersIn(exec.out) + 0
      BY ONLY <2>5, <2>6, <3>1, WithTransfer
    <3>3. out[m] = 1 /\ \A n \in BagToSet(exec.out) : out[n] = exec.out[n]
      BY <2>6, <2>7, <3>1, WithTransfer
    <3>. QED BY <2>6, <3>1, <3>2, <3>3, WithTransfer, Amounts
  <2>10. /\ done \in SUBSET (1 .. MaxCalls) /\ IsInfo(saved) /\ pc \in Steps
         /\ info \in AsyncCallInfos /\ left \in 0 .. GasProvided /\ i \in done
    <3>1. info \in AsyncCallInfos BY DEF TypeOK
    <3>2. left \in 0 .. GasProvided BY ExecFields
    <3>. QED BY <3>1, <3>2, ExecFields DEF Steps
  <2>. HIDE DEF out, saved, pc, info, left
  <2>11. TypeOK' BY ONLY TypeOK, <1>1, <2>8, <2>9, <2>10, OutChange
  <2>12. /\ exec'.pc = pc /\ exec'.left = left /\ exec'.info = info /\ exec'.done = done
         /\ exec'.saved = saved /\ exec'.out = out /\ exec'.calls = exec.calls
         /\ exec'.type = exec.type /\ exec'.caller = exec.caller
    BY ONLY TypeOK, <2>8, OutChanged
  <2>13. /\ exec'.pc = "send" /\ exec'.info = exec.info /\ exec'.left = 0
         /\ exec'.saved = exec.saved
    BY <2>12 DEF pc, info, left, saved
  <2>14. GasInv'
    <3>1. Owed' = SumFunction(Limits(exec.calls, done)) BY <2>12 DEF Owed
    <3>2. exec'.done # {} BY <2>10, <2>12
    <3>. QED BY <1>1, <2>3, <2>9, <2>12, <2>13, <3>1, <3>2, ExecFields, Amounts DEF GasInv
  <2>15. LegacyInv'
    <3>1. LegacyCall(m) BY <2>5 DEF LegacyCall
    <3>2. \A n : LegacyCall(n) => LegacyCall(n)'
      BY <1>1 DEF LegacyCall, IsCall, Lock, ShouldLockGas, ComputeGasLockedForAsync
    <3>. QED BY <1>1, <2>9, <2>12, <2>13, <3>1, <3>2 DEF LegacyInv
  <2>16. FirstInv' BY <1>1, <2>12, <2>13 DEF FirstInv, First
  <2>17. SentInv'
    <3>1. First' BY <2>1, <2>12 DEF First
    <3>2. m.kind = "call" /\ m.id = i BY <2>5
    <3>. QED BY <1>1, <2>9, <2>10, <2>12, <2>13, <3>1, <3>2 DEF SentInv, m, PendingTransfer
  <2>18. CallbackInv' BY <2>1, <2>12 DEF CallbackInv, First
  <2>19. ExpectedInv' BY <1>1 DEF ExpectedInv, InFlight
  <2>20. AnswerInv' BY <1>1, <2>9, <2>12, Amounts DEF AnswerInv
  <2>21. TypesInv' BY <1>1, <2>12, <2>13 DEF TypesInv
  <2>. QED BY <2>11, <2>14, <2>15, <2>16, <2>17, <2>18, <2>19, <2>20, <2>21
<1>. QED BY <1>2, <1>3

\* What an execution saves when it answers its caller: nothing is pending.
SavesLast(saved) ==
    /\ IsInfo(saved) /\ DOMAIN saved.calls = {}
    /\ \/ exec.pc = "send" /\ First /\ saved = exec.saved
       \/ /\ exec.pc = "stack" /\ exec.type = "callback" /\ saved = NoInfo
          /\ \E i \in 1 .. MaxCalls : DOMAIN stored.calls = {i} /\ Resolves(i)

\* The answer to the caller of the contract, which is the last thing that an
\* execution sends.
LEMMA AnswerSent ==
  ASSUME IndInv, UnchangedButExec,
         NEW m \in Transfers, m.kind \in {"answer", "storageAnswer"},
         NEW left \in Nat, left + CountedGas(m) <= exec.left,
         NEW saved, SavesLast(saved), answers = 0,
         exec' = [exec EXCEPT !.pc = "commit", !.left = left, !.saved = saved,
                              !.out = With(exec.out, m)]
  PROVE  IndInv'
<1>. DEFINE out == With(exec.out, m)  done == exec.done
            pc == "commit"  info == exec.info
<1>. USE DEF IndInv, At, SavesLast
<1>1. UNCHANGED <<stored, network, created, legacy, answers, failures>> BY DEF UnchangedButExec
<1>2. CountedGas(m) \in Nat /\ Answers(m) = 1
  BY AsyncAssumption DEF CountedGas, GasOf, Answers, Transfers
<1>3. left \in 0 .. GasProvided BY <1>2, ExecFields
<1>4. /\ AreTransfers(out) /\ BagToSet(out) = BagToSet(exec.out) \cup {m}
      /\ Gas(out) = Gas(exec.out) + CountedGas(m)
      /\ AnswersIn(out) = 1
      /\ \A n \in BagToSet(exec.out) : n # m => out[n] = exec.out[n]
  <2>1. AreTransfers(exec.out) BY DEF TypeOK
  <2>2. AnswersIn(out) = AnswersIn(exec.out) + 1 BY <1>2, <2>1, WithTransfer
  <2>3. AnswersIn(exec.out) = 0 BY Amounts DEF AnswerInv
  <2>. QED BY <2>1, <2>2, <2>3, WithTransfer
<1>5. exec' = [exec EXCEPT !.pc = pc, !.left = left, !.info = info, !.done = done,
                           !.saved = saved, !.out = out]
  BY DEF TypeOK
<1>6. done \in SUBSET (1 .. MaxCalls) /\ pc \in Steps /\ info \in AsyncCallInfos
  BY ExecFields DEF Steps, TypeOK
<1>. HIDE DEF out, done, pc, info
<1>7. TypeOK' BY ONLY TypeOK, SavesLast(saved), <1>1, <1>3, <1>4, <1>5, <1>6, OutChange
<1>8. /\ exec'.pc = pc /\ exec'.left = left /\ exec'.info = info /\ exec'.done = done
      /\ exec'.saved = saved /\ exec'.out = out /\ exec'.calls = exec.calls
      /\ exec'.type = exec.type /\ exec'.caller = exec.caller
  BY ONLY TypeOK, <1>5, OutChanged
<1>9. exec'.pc = "commit" /\ exec'.info = exec.info /\ exec'.done = exec.done
  BY <1>8 DEF pc, info, done
<1>10. GasInv' BY <1>1, <1>2, <1>4, <1>8, <1>9, ExecFields, Amounts DEF GasInv
<1>11. LegacyInv'
  <2>1. LegacyCall(m) BY DEF LegacyCall, IsCall
  <2>2. \A n : LegacyCall(n) => LegacyCall(n)'
    BY <1>1 DEF LegacyCall, IsCall, Lock, ShouldLockGas, ComputeGasLockedForAsync
  <2>. QED BY <1>1, <1>4, <1>8, <1>9, <2>1, <2>2 DEF LegacyInv
<1>12. FirstInv' BY <1>1, <1>8, <1>9 DEF FirstInv, First
<1>13. SentInv' BY <1>4, <1>8, <1>9 DEF SentInv, First, PendingTransfer
<1>14. CallbackInv'
  <2>. SUFFICES ASSUME exec.type = "callback" PROVE CallbackInv' BY <1>8 DEF CallbackInv
  <2>1. exec.pc = "stack" BY DEF First
  <2>. QED BY <1>1, <1>8, <1>9, <2>1 DEF CallbackInv, Resolves, InFlight
<1>15. ExpectedInv' BY <1>1 DEF ExpectedInv, InFlight
<1>16. AnswerInv' BY <1>1, <1>4, <1>8, <1>9 DEF AnswerInv
<1>17. TypesInv' BY <1>8, <1>9 DEF TypesInv
<1>. QED BY <1>7, <1>10, <1>11, <1>12, <1>13, <1>14, <1>15, <1>16, <1>17

\* The caller is answered when nothing is pending.
LEMMA SentAllKeeps ==
  ASSUME IndInv, SentAll
  PROVE  IndInv'
<1>1. exec.pc = "send" /\ UnchangedButExec BY DEF SentAll, At
<1>2. CASE Goto("fail") BY <1>1, <1>2, FailKeeps DEF IndInv, TypeOK, UnchangedButExec
<1>3. CASE Goto("commit") BY <1>1, <1>3, CommitKeeps
<1>4. CASE /\ MustAnswer
           /\ exec' = [exec EXCEPT !.pc = "commit", !.left = 0,
                         !.out = With(exec.out, CallbackToCurrentCaller)]
  <2>. DEFINE m == CallbackToCurrentCaller  left == 0  saved == exec.saved
  <2>1. First BY <1>1, SendIsFirst
  <2>2. answers = 0 /\ DOMAIN saved.calls = {}
    BY <1>1, <1>4, <2>1 DEF IndInv, FirstInv, At, MustAnswer
  <2>3. m \in Transfers /\ m.kind = "answer" /\ CountedGas(m) = exec.left
    <3>1. exec.caller \in Local \cup Remote /\ exec.left \in 0 .. GasProvided
      BY DEF IndInv, TypeOK
    <3>2. m = [kind |-> "answer", id |-> 0, dest |-> exec.caller, limit |-> exec.left,
               locked |-> 0]
      BY DEF CallbackToCurrentCaller
    <3>. QED BY <3>1, <3>2, AsyncAssumption DEF Transfers, CountedGas, GasOf
  <2>4. exec' = [exec EXCEPT !.pc = "commit", !.left = left, !.saved = saved,
                             !.out = With(exec.out, m)]
    BY <1>4 DEF IndInv, TypeOK
  <2>5. left \in Nat /\ left + CountedGas(m) <= exec.left /\ IsInfo(saved)
    BY <2>3, ExecFields DEF IndInv
  <2>6. SavesLast(saved) BY <1>1, <2>1, <2>2, <2>5 DEF SavesLast
  <2>7. m.kind \in {"answer", "storageAnswer"} BY <2>3
  <2>. HIDE DEF m, left, saved
  <2>. QED BY ONLY IndInv, <1>1, <2>2, <2>3, <2>4, <2>5, <2>6, <2>7, AnswerSent
<1>. QED BY <1>2, <1>3, <1>4 DEF SentAll

\* The callback that leaves no context clears the storage and answers the
\* caller.
LEMMA ProcessCallbackStackKeeps ==
  ASSUME IndInv, ProcessCallbackStack
  PROVE  IndInv'
<1>1. exec.pc = "stack" /\ UnchangedButExec BY DEF ProcessCallbackStack, At
<1>2. CASE Goto("fail") BY <1>1, <1>2, FailKeeps DEF IndInv, TypeOK, UnchangedButExec
<1>3. CASE Goto("commit") BY <1>1, <1>3, CommitKeeps
<1>4. CASE ~Goto("fail") /\ ~Goto("commit")
  <2>. DEFINE m == StorageCallback  left == exec.left  saved == NoInfo
  <2>1. PICK i \in CallsTo(exec.caller) :
          /\ LastCallback(i)
          /\ exec' = [exec EXCEPT !.pc = "commit", !.saved = saved,
                        !.out = With(exec.out, m)]
    BY <1>4, Zenon DEF ProcessCallbackStack
  <2>2. /\ DOMAIN stored.calls = {i} /\ Resolves(i) /\ i \in 1 .. MaxCalls
    BY <2>1 DEF LastCallback, CallsTo, Resolves, IndInv, TypeOK, IsInfo, AreCalls
  <2>3. answers = 0 BY <2>2 DEF IndInv, AnswerInv, TypeOK
  <2>4. exec.type = "callback"
    BY <1>1 DEF IndInv, TypeOK, FirstInv, First, TypesInv, At
  <2>5. m \in Transfers /\ m.kind = "storageAnswer" /\ CountedGas(m) = 0
    <3>1. stored.caller \in Local \cup Remote /\ exec.left \in 0 .. GasProvided
      BY AsyncAssumption DEF IndInv, TypeOK, IsInfo
    <3>2. m = [kind |-> "storageAnswer", id |-> 0, dest |-> stored.caller,
               limit |-> exec.left, locked |-> 0]
      BY DEF StorageCallback
    <3>. QED BY <3>1, <3>2, AsyncAssumption DEF Transfers, CountedGas
  <2>6. exec' = [exec EXCEPT !.pc = "commit", !.left = left, !.saved = saved,
                             !.out = With(exec.out, m)]
    BY <2>1 DEF IndInv, TypeOK
  <2>7. left \in Nat /\ left + CountedGas(m) <= exec.left BY <2>5, ExecFields DEF IndInv
  <2>8. IsInfo(saved) /\ DOMAIN saved.calls = {}
    BY NoInfoType
  <2>9. SavesLast(saved) BY <1>1, <2>2, <2>4, <2>8 DEF SavesLast
  <2>10. m.kind \in {"answer", "storageAnswer"} BY <2>5
  <2>. HIDE DEF m, left, saved
  <2>. QED BY ONLY IndInv, <1>1, <2>3, <2>5, <2>6, <2>7, <2>9, <2>10, AnswerSent
<1>. QED BY <1>2, <1>3, <1>4

-----------------------------------------------------------------------------
(* Other shards, and the end of an execution *)

\* Nothing is in flight while the transaction is executed.
LEMMA NetworkIsLater ==
  ASSUME IndInv, NEW m \in BagToSet(network)
  PROVE  ~First
BY EmptyBagTotals DEF IndInv, FirstInv

\* Another shard answers a call: the callback takes its place.
LEMMA ExecuteElsewhereKeeps ==
  ASSUME IndInv, NEW m \in BagToSet(network), ExecuteElsewhere(m)
  PROVE  IndInv'
<1>. USE DEF IndInv, At
<1>1. PICK limit \in {0, m.limit} :
        network' = With(Without(network, m), [m EXCEPT !.kind = "callback", !.limit = limit])
  BY DEF ExecuteElsewhere
<1>2. /\ m.kind = "call" /\ UNCHANGED <<exec, stored, created, legacy, answers, failures>>
  BY DEF ExecuteElsewhere
<1>. DEFINE cb == [m EXCEPT !.kind = "callback", !.limit = limit]
            rest == Without(network, m)
<1>3. AreTransfers(network) /\ m \in Transfers BY BagOfTransfers DEF TypeOK
<1>4. /\ cb \in Transfers /\ cb.kind = "callback" /\ cb.id = m.id /\ cb.dest = m.dest
      /\ cb.locked = m.locked /\ CountedGas(cb) <= CountedGas(m)
      /\ CountedGas(cb) \in Nat /\ CountedGas(m) \in Nat
  <2>1. /\ m.limit \in Nat /\ m.locked \in Nat /\ m.limit \in 0 .. GasProvided
        /\ limit \in 0 .. GasProvided /\ limit \in Nat /\ limit <= m.limit
    BY <1>1, <1>3, AsyncAssumption DEF Transfers
  <2>2. /\ cb \in Transfers /\ cb.kind = "callback" /\ cb.id = m.id /\ cb.dest = m.dest
        /\ cb.locked = m.locked /\ cb.limit = limit
    BY <1>3, <2>1 DEF Transfers
  <2>. HIDE DEF cb
  <2>3. CountedGas(m) = m.limit + m.locked /\ CountedGas(cb) = limit + m.locked
    BY <1>2, <2>2 DEF CountedGas, GasOf
  <2>. QED BY <2>1, <2>2, <2>3
<1>5. network' = With(rest, cb) BY <1>1
<1>. HIDE DEF cb, rest
<1>6. /\ AreTransfers(rest) /\ Gas(rest) = Gas(network) - CountedGas(m)
      /\ BagToSet(rest) \subseteq BagToSet(network)
      /\ network[m] = 1 => BagToSet(rest) = BagToSet(network) \ {m}
      /\ \A n \in BagToSet(network) : n # m => rest[n] = network[n]
  BY <1>3, WithoutTransfer DEF rest
<1>7. /\ AreTransfers(network') /\ Gas(network') = Gas(rest) + CountedGas(cb)
      /\ BagToSet(network') = BagToSet(rest) \cup {cb}
      /\ cb \notin BagToSet(rest) => network'[cb] = 1
      /\ \A n \in BagToSet(rest) : n # cb => network'[n] = rest[n]
  BY ONLY <1>4, <1>5, <1>6, WithTransfer
<1>8. TypeOK' BY <1>2, <1>7 DEF TypeOK
<1>9. GasInv'
  <2>1. Gas(network') <= Gas(network) /\ Gas(network') \in Nat
    <3>1. Gas(network') = Gas(network) - CountedGas(m) + CountedGas(cb) BY <1>6, <1>7
    <3>2. Gas(network') \in Nat BY <1>7, BagOfTransfers
    <3>. QED BY ONLY <3>1, <3>2, <1>4, Amounts, TypeOK
  <2>2. Owed' = Owed BY <1>2 DEF Owed
  <2>. QED BY <1>2, <2>1, <2>2, ExecFields, Amounts DEF GasInv
<1>10. LegacyInv'
  <2>1. LegacyCall(cb) BY <1>2, <1>4 DEF LegacyCall, IsCall, LegacyInv
  <2>2. \A n : LegacyCall(n) => LegacyCall(n)'
    BY <1>2 DEF LegacyCall, IsCall, Lock, ShouldLockGas, ComputeGasLockedForAsync
  <2>. QED BY <1>2, <1>6, <1>7, <2>1, <2>2 DEF LegacyInv
<1>11. FirstInv'
  <2>1. ~First BY NetworkIsLater
  <2>. QED BY <1>2, <2>1 DEF FirstInv, First
<1>12. SentInv' BY <1>2 DEF SentInv, First
<1>13. m \in InFlight /\ \A n \in InFlight' : n = cb \/ n \in InFlight
  BY <1>2, <1>6, <1>7 DEF InFlight
<1>14. CallbackInv' BY <1>2, <1>4, <1>13 DEF CallbackInv, Resolves
<1>15. ExpectedInv'
  <2>. SUFFICES ASSUME NEW n \in InFlight', n.id > 0
                PROVE  /\ network'[n] = 1 /\ \A k \in InFlight' : k.id = n.id => k = n
                       /\ \/ n.id \in DOMAIN stored'.calls /\ stored'.calls[n.id].dest = n.dest
                          \/ n.dest \in legacy'
    BY DEF ExpectedInv
  <2>1. CASE m.id > 0
    <3>1. network[m] = 1 /\ (\A k \in InFlight : k.id = m.id => k = m) BY <1>13, <2>1 DEF ExpectedInv
    <3>2. BagToSet(network') = (BagToSet(network) \ {m}) \cup {cb} BY <1>6, <1>7, <3>1
    <3>3. cb \notin BagToSet(rest) BY <1>2, <1>4, <1>6, <3>1 DEF InFlight
    <3>4. \A k \in InFlight' : k = cb \/ (k \in InFlight /\ k.id # m.id /\ k \in BagToSet(rest))
      BY <1>6, <1>13, <3>1, <3>2 DEF InFlight
    <3>5. CASE n = cb BY <1>2, <1>4, <1>7, <1>13, <2>1, <3>3, <3>4, <3>5 DEF ExpectedInv
    <3>6. CASE n # cb
      <4>1. n \in InFlight /\ n.id # m.id /\ n \in BagToSet(rest) BY <3>4, <3>6
      <4>2. network'[n] = network[n]
        BY <1>6, <1>7, <3>6, <4>1 DEF InFlight
      <4>. QED BY <1>2, <1>4, <3>4, <4>1, <4>2 DEF ExpectedInv
    <3>. QED BY <3>5, <3>6
  <2>2. CASE ~(m.id > 0)
    <3>1. n # cb /\ n # m BY <1>4, <2>2
    <3>2. n \in InFlight BY <1>13, <3>1
    <3>3. n \in BagToSet(rest) BY <1>7, <3>1 DEF InFlight
    <3>4. network'[n] = network[n] BY <1>6, <1>7, <3>1, <3>2, <3>3 DEF InFlight
    <3>5. \A k \in InFlight' : k.id = n.id => k \in InFlight BY <1>4, <1>13, <2>2
    <3>. QED BY <1>2, <3>2, <3>4, <3>5 DEF ExpectedInv
  <2>. QED BY <2>1, <2>2
<1>16. AnswerInv' BY <1>2 DEF AnswerInv
<1>17. TypesInv' BY <1>2 DEF TypesInv
<1>. QED BY <1>8, <1>9, <1>10, <1>11, <1>12, <1>14, <1>15, <1>16, <1>17

\* An execution that has just begun, or has not.
Begin(pc, type, caller, provided, left, saved) ==
    [pc |-> pc, type |-> type, caller |-> caller, provided |-> provided, left |-> left,
     info |-> NoAsyncCall, output |-> NoOutput, calls |-> NoCalls, done |-> {},
     saved |-> saved, out |-> EmptyBag]

\* The part of TypeOK that is about the execution.
IsExecution(e) ==
    /\ e \in [pc : Steps, type : {"none", "direct", "async", "nested", "callback"},
              caller : Local \cup Remote,
              provided : 0 .. GasProvided, left : 0 .. GasProvided,
              info : AsyncCallInfos, output : Outputs, done : SUBSET (1 .. MaxCalls),
              calls : {e.calls}, saved : {e.saved}, out : {e.out}]
    /\ AreCalls(e.calls) /\ IsInfo(e.saved) /\ AreTransfers(e.out)

\* The type and the fields of an execution that begins.
LEMMA BeginType ==
  ASSUME NEW pc \in Steps, NEW type \in {"none", "direct", "async", "nested", "callback"},
         NEW caller \in Local \cup Remote, NEW provided \in 0 .. GasProvided,
         NEW left \in 0 .. GasProvided, NEW saved, IsInfo(saved)
  PROVE  IsExecution(Begin(pc, type, caller, provided, left, saved))
<1>. DEFINE info == NoAsyncCall  output == NoOutput  calls == NoCalls
            e == Begin(pc, type, caller, provided, left, saved)
<1>1. info \in AsyncCallInfos BY NoAsyncCallType
<1>2. output \in Outputs BY AsyncAssumption DEF NoOutput, Outputs
<1>3. AreCalls(calls)
  <2>1. NoInfo.calls = NoCalls BY DEF NoInfo
  <2>. QED BY <2>1, NoInfoType DEF IsInfo
<1>4. e = [pc |-> pc, type |-> type, caller |-> caller, provided |-> provided,
           left |-> left, info |-> info, output |-> output, calls |-> calls,
           done |-> {}, saved |-> saved, out |-> EmptyBag]
  BY DEF Begin
<1>. HIDE DEF info, output, calls, e
<1>5. AreTransfers(EmptyBag) BY EmptyBagTotals
<1>6. IsExecution(e)
  BY ONLY <1>1, <1>2, <1>3, <1>4, <1>5, pc \in Steps,
       type \in {"none", "direct", "async", "nested", "callback"},
       caller \in Local \cup Remote, provided \in 0 .. GasProvided,
       left \in 0 .. GasProvided, IsInfo(saved) DEF IsExecution
<1>. QED BY <1>6 DEF e

\* The fields of an execution that begins.
LEMMA BeginFields ==
  ASSUME NEW pc, NEW type, NEW caller, NEW provided, NEW left, NEW saved,
         NEW e, e = Begin(pc, type, caller, provided, left, saved)
  PROVE  /\ e.pc = pc /\ e.type = type /\ e.caller = caller /\ e.left = left
         /\ e.saved = saved /\ e.info.locked = 0 /\ e.done = {} /\ e.out = EmptyBag
BY DEF Begin, NoAsyncCall

\* A callback takes its gas off the network.  With a call of createAsyncCall it
\* was the only one of its number, so that call is no longer in flight.
LEMMA ReceiveCallbackKeeps ==
  ASSUME IndInv, NEW m \in BagToSet(network), ReceiveCallback(m)
  PROVE  IndInv'
<1>. USE DEF IndInv, At
<1>. DEFINE gas == m.limit + m.locked
            left == IF gas < CompileGas THEN 0 ELSE gas - CompileGas
            type == "callback"  caller == m.dest  saved == stored
<1>1. /\ exec.pc = "none" /\ m.kind = "callback" /\ network' = Without(network, m)
      /\ UNCHANGED <<stored, created, legacy, answers, failures>>
  BY DEF ReceiveCallback
<1>2. PICK pc \in {"fail", "run", "stack"} :
        exec' = Begin(pc, type, caller, gas, left, saved)
  <2>. DEFINE custom == CallsTo(m.dest) # {}
              function == IF custom THEN "success" ELSE "callBack"
              next == IF gas < CompileGas THEN "fail"
                      ELSE IF function \in Exports THEN "run"
                      ELSE IF custom THEN "fail" ELSE "stack"
  <2>1. exec' = [NoExecution EXCEPT !.type = "callback", !.caller = m.dest,
                   !.provided = gas, !.saved = stored, !.left = left, !.pc = next]
    BY DEF ReceiveCallback, unlockGasIfAsyncCallback
  <2>2. next \in {"fail", "run", "stack"} OBVIOUS
  <2>. HIDE DEF next, left, gas
  <2>3. exec' = Begin(next, type, caller, gas, left, saved)
    BY ONLY <2>1 DEF Begin, NoExecution, type, caller, saved
  <2>. QED BY <2>2, <2>3
<1>3. /\ AreTransfers(network) /\ m \in Transfers /\ CountedGas(m) <= Gas(network)
      /\ Gas(network) \in Nat /\ Gas(network) <= GasProvided
  <2>1. AreTransfers(network) BY DEF TypeOK
  <2>2. Gas(network) <= GasProvided BY ExecFields, Amounts DEF GasInv
  <2>. QED BY <2>1, <2>2, BagOfTransfers
<1>4. /\ m.limit \in Nat /\ m.locked \in Nat /\ m.dest \in Local \cup Remote
      /\ CountedGas(m) = gas
  BY <1>1, <1>3, AsyncAssumption DEF Transfers, CountedGas, GasOf
<1>5. /\ gas \in Nat /\ left \in Nat /\ left <= gas /\ gas <= GasProvided
      /\ gas \in 0 .. GasProvided /\ left \in 0 .. GasProvided
  BY <1>3, <1>4, AsyncAssumption
<1>6. type \in {"none", "direct", "async", "nested", "callback"} /\ caller \in Local \cup Remote
      /\ IsInfo(saved) /\ pc \in Steps
  BY <1>2, <1>4 DEF TypeOK, Steps
<1>7. /\ AreTransfers(network') /\ Gas(network') = Gas(network) - gas
      /\ BagToSet(network') \subseteq BagToSet(network)
      /\ network[m] = 1 => BagToSet(network') = BagToSet(network) \ {m}
      /\ \A n \in BagToSet(network) : n # m => network'[n] = network[n]
  BY <1>1, <1>3, <1>4, WithoutTransfer
<1>8. type = "callback" /\ caller = m.dest /\ saved = stored OBVIOUS
<1>. HIDE DEF gas, left, type, caller, saved
<1>9. /\ IsExecution(exec')
      /\ exec'.pc = pc /\ exec'.type = type /\ exec'.caller = caller /\ exec'.left = left
      /\ exec'.saved = saved /\ exec'.info.locked = 0 /\ exec'.done = {}
      /\ exec'.out = EmptyBag
  BY ONLY <1>2, <1>5, <1>6, BeginType, BeginFields
<1>10. TypeOK' BY <1>1, <1>7, <1>9 DEF TypeOK, IsExecution
<1>11. GasInv'
  <2>1. Gas(exec'.out) = 0 BY <1>9, EmptyBagTotals
  <2>2. exec'.left + exec'.info.locked + Gas(exec'.out) + Gas(network') <= GasProvided
    BY ONLY <1>3, <1>5, <1>7, <1>9, <2>1, AsyncAssumption
  <2>. QED BY <1>2, <1>9, <2>2 DEF GasInv
<1>12. LegacyInv'
  <2>1. BagToSet(exec'.out) = {} BY <1>9, EmptyBagTotals
  <2>2. \A n : LegacyCall(n) => LegacyCall(n)'
    BY <1>1 DEF LegacyCall, IsCall, Lock, ShouldLockGas, ComputeGasLockedForAsync
  <2>. QED BY <1>2, <1>7, <1>9, <2>1, <2>2 DEF LegacyInv
<1>13. FirstInv' BY <1>8, <1>9 DEF FirstInv, First
<1>14. SentInv'
  <2>1. BagToSet(exec'.out) = {} BY <1>9, EmptyBagTotals
  <2>. QED BY <2>1 DEF SentInv
<1>15. m \in InFlight /\ \A n \in InFlight' : n \in InFlight /\ n \in BagToSet(network')
  BY <1>1, <1>7 DEF InFlight
<1>16. CallbackInv'
  <2>1. \/ m.dest \in legacy
        \/ /\ m.id \in 1 .. MaxCalls /\ m.id \in DOMAIN stored.calls
           /\ stored.calls[m.id].dest = m.dest
           /\ \A n \in InFlight' : n.id # m.id
    <3>1. m.id \in 0 .. MaxCalls BY <1>3 DEF Transfers
    <3>2. CASE m.id = 0 BY <1>1, <3>2 DEF LegacyInv, LegacyCall, IsCall
    <3>3. CASE m.id > 0
      <4>1. /\ network[m] = 1 /\ (\A n \in InFlight : n.id = m.id => n = m)
            /\ \/ m.id \in DOMAIN stored.calls /\ stored.calls[m.id].dest = m.dest
               \/ m.dest \in legacy
        BY <1>15, <3>3 DEF ExpectedInv
      <4>2. m \notin BagToSet(network') BY <1>7, <4>1
      <4>3. \A n \in InFlight' : n.id # m.id BY <1>15, <4>1, <4>2
      <4>4. m.id \in 1 .. MaxCalls BY <3>1, <3>3
      <4>. QED BY <4>1, <4>3, <4>4
    <3>. QED BY <3>1, <3>2, <3>3
  <2>. QED BY <1>1, <1>2, <1>8, <1>9, <2>1 DEF CallbackInv, Resolves
<1>17. ExpectedInv'
  <2>. SUFFICES ASSUME NEW n \in InFlight', n.id > 0
                PROVE  /\ network'[n] = 1 /\ \A k \in InFlight' : k.id = n.id => k = n
                       /\ \/ n.id \in DOMAIN stored'.calls /\ stored'.calls[n.id].dest = n.dest
                          \/ n.dest \in legacy'
    BY DEF ExpectedInv
  <2>1. n \in InFlight /\ n \in BagToSet(network') BY <1>15
  <2>2. network[n] = 1 BY <2>1 DEF ExpectedInv
  <2>3. n # m BY <1>7, <2>1, <2>2
  <2>4. network'[n] = network[n] BY <1>7, <2>1, <2>3 DEF InFlight
  <2>. QED BY <1>1, <1>15, <2>1, <2>2, <2>4 DEF ExpectedInv
<1>18. AnswerInv'
  <2>1. AnswersIn(exec'.out) = 0 BY <1>9, EmptyBagTotals
  <2>. QED BY <1>1, <2>1 DEF AnswerInv
<1>19. TypesInv' BY <1>2, <1>8, <1>9 DEF TypesInv
<1>. QED BY <1>10, <1>11, <1>12, <1>13, <1>14, <1>16, <1>17, <1>18, <1>19

\* Nothing is known of an execution that has not begun: what is stored and in
\* flight satisfies the invariant by itself.
LEMMA EndKeeps ==
  ASSUME exec' = NoExecution, IsInfo(stored'), AreTransfers(network'),
         created' \in 0 .. MaxCalls, legacy' \subseteq Local \cup Remote,
         answers' \in Nat, failures' \in Nat,
         Gas(network') <= GasProvided,
         \A m \in BagToSet(network') : LegacyCall(m)', ExpectedInv',
         answers' <= 1, answers' > 0 => DOMAIN stored'.calls = {}
  PROVE  IndInv'
<1>. USE DEF At
<1>. DEFINE pc == "none"  type == "none"  caller == RemoteCaller  left == 0  saved == NoInfo
<1>1. exec' = Begin(pc, type, caller, left, left, saved) BY DEF NoExecution, Begin
<1>2. /\ pc \in Steps /\ type \in {"none", "direct", "async", "nested", "callback"}
      /\ caller \in Local \cup Remote /\ left \in 0 .. GasProvided /\ IsInfo(saved)
      /\ pc = "none" /\ type = "none" /\ left = 0
  BY AsyncAssumption, NoInfoType DEF Steps
<1>. HIDE DEF pc, type, caller, left, saved
<1>3. /\ IsExecution(exec')
      /\ exec'.pc = pc /\ exec'.type = type /\ exec'.caller = caller /\ exec'.left = left
      /\ exec'.saved = saved /\ exec'.info.locked = 0 /\ exec'.done = {}
      /\ exec'.out = EmptyBag
  BY ONLY <1>1, <1>2, BeginType, BeginFields
<1>4. TypeOK' BY <1>3 DEF TypeOK, IsExecution
<1>5. /\ Gas(exec'.out) = 0 /\ AnswersIn(exec'.out) = 0 /\ BagToSet(exec'.out) = {}
      /\ Gas(network') \in Nat
  BY <1>3, EmptyBagTotals, BagOfTransfers
<1>6. GasInv' BY <1>2, <1>3, <1>5 DEF GasInv
<1>7. LegacyInv' BY <1>2, <1>3, <1>5 DEF LegacyInv
<1>8. FirstInv' BY <1>2, <1>3 DEF FirstInv, First
<1>9. SentInv' BY <1>5 DEF SentInv
<1>10. CallbackInv' BY <1>2, <1>3 DEF CallbackInv
<1>11. AnswerInv' BY <1>5 DEF AnswerInv
<1>12. TypesInv' BY <1>2, <1>3 DEF TypesInv
<1>. QED BY <1>4, <1>6, <1>7, <1>8, <1>9, <1>10, <1>11, <1>12 DEF IndInv

\* Nothing of a failed execution is kept.
LEMMA FailStepKeeps ==
  ASSUME IndInv, Fail
  PROVE  IndInv'
<1>. USE DEF IndInv
<1>1. /\ exec' = NoExecution /\ UNCHANGED <<stored, network, created, legacy, answers>>
      /\ failures' \in {failures, failures + 1}
  BY DEF Fail
<1>2. /\ IsInfo(stored') /\ AreTransfers(network') /\ created' \in 0 .. MaxCalls
      /\ legacy' \subseteq Local \cup Remote /\ answers' \in Nat /\ failures' \in Nat
  BY <1>1 DEF TypeOK
<1>3. Gas(network') <= GasProvided
  <2>1. Gas(network) <= GasProvided BY ExecFields, Amounts DEF GasInv
  <2>. QED BY <1>1, <2>1
<1>4. \A m \in BagToSet(network') : LegacyCall(m)'
  <2>1. \A n : LegacyCall(n) => LegacyCall(n)'
    BY <1>1 DEF LegacyCall, IsCall, Lock, ShouldLockGas, ComputeGasLockedForAsync
  <2>. QED BY <1>1, <2>1 DEF LegacyInv
<1>5. ExpectedInv' BY <1>1 DEF ExpectedInv, InFlight
<1>6. answers' <= 1 /\ (answers' > 0 => DOMAIN stored'.calls = {}) BY <1>1 DEF AnswerInv
<1>. QED BY <1>1, <1>2, <1>3, <1>4, <1>5, <1>6, EndKeeps

\* The transfers leave and the storage is written.  When a callback clears the
\* storage, the one call in it is not in flight any more.
LEMMA CommitStepKeeps ==
  ASSUME IndInv, Commit
  PROVE  IndInv'
<1>. USE DEF IndInv, At
<1>1. /\ exec' = NoExecution /\ stored' = exec.saved /\ exec.pc = "commit"
      /\ network' = network (+) exec.out
      /\ UNCHANGED <<created, legacy, failures>>
  BY DEF Commit
<1>2. answers' = answers + AnswersIn(exec.out) BY Zenon DEF Commit, AnswersIn
<1>3. AreTransfers(network) /\ AreTransfers(exec.out) BY DEF TypeOK
<1>4. /\ AreTransfers(network') /\ BagToSet(network') = BagToSet(network) \cup BagToSet(exec.out)
      /\ Gas(network') = Gas(network) + Gas(exec.out)
      /\ \A m \in BagToSet(exec.out) : m \notin BagToSet(network) => network'[m] = exec.out[m]
      /\ \A m \in BagToSet(network) : m \notin BagToSet(exec.out) => network'[m] = network[m]
  BY <1>1, <1>3, UnitedTransfers
<1>5. /\ IsInfo(stored') /\ created' \in 0 .. MaxCalls
      /\ legacy' \subseteq Local \cup Remote /\ answers' \in Nat /\ failures' \in Nat
  BY <1>1, <1>2, Amounts DEF TypeOK
<1>6. Gas(network') <= GasProvided BY <1>4, ExecFields, Amounts DEF GasInv
<1>7. \A m \in BagToSet(network') : LegacyCall(m)'
  <2>1. \A n : LegacyCall(n) => LegacyCall(n)'
    BY <1>1 DEF LegacyCall, IsCall, Lock, ShouldLockGas, ComputeGasLockedForAsync
  <2>. QED BY <1>4, <2>1 DEF LegacyInv
<1>8. First \/ exec.type = "callback" BY <1>1 DEF First, TypesInv, TypeOK
<1>9. answers' <= 1 /\ (answers' > 0 => DOMAIN stored'.calls = {})
  <2>1. CASE AnswersIn(exec.out) > 0 BY <1>1, <1>2, <2>1, Amounts DEF AnswerInv
  <2>2. CASE AnswersIn(exec.out) = 0
    <3>1. answers' = answers BY <1>2, <2>2 DEF TypeOK
    <3>2. First => answers = 0 BY DEF FirstInv
    <3>3. exec.type = "callback" => exec.saved \in {stored, NoInfo} BY DEF CallbackInv
    <3>. QED BY <1>1, <1>8, <3>1, <3>2, <3>3, NoInfoType DEF AnswerInv
  <2>. QED BY <2>1, <2>2, Amounts
<1>10. ExpectedInv'
  <2>. SUFFICES ASSUME NEW n \in InFlight', n.id > 0
                PROVE  /\ network'[n] = 1 /\ \A k \in InFlight' : k.id = n.id => k = n
                       /\ \/ n.id \in DOMAIN stored'.calls /\ stored'.calls[n.id].dest = n.dest
                          \/ n.dest \in legacy'
    BY DEF ExpectedInv
  <2>1. CASE First
    <3>1. BagToSet(network) = {} BY <2>1, EmptyBagTotals DEF FirstInv
    <3>2. \A k \in InFlight' : k \in BagToSet(exec.out) /\ k.kind = "call"
      BY <1>4, <3>1 DEF InFlight, SentInv
    <3>3. \A k \in InFlight' : k.id > 0 =>
            /\ k.id \in DOMAIN exec.calls /\ exec.out[k] = 1
            /\ k = PendingTransfer(k.id, exec.calls[k.id])
      BY <3>2 DEF SentInv
    <3>4. network'[n] = 1 BY <1>4, <3>1, <3>2, <3>3
    <3>5. \A k \in InFlight' : k.id = n.id => k = n BY <3>3
    <3>6. n.dest = exec.calls[n.id].dest BY <3>3 DEF PendingTransfer
    <3>7. n.id \in DOMAIN stored'.calls /\ stored'.calls[n.id].dest = n.dest
      BY <1>1, <2>1, <3>3, <3>6 DEF FirstInv
    <3>. QED BY <3>4, <3>5, <3>7
  <2>2. CASE exec.type = "callback"
    <3>1. ~First BY <2>2 DEF First
    <3>2. \A k \in InFlight' : k.id > 0 => k \in InFlight /\ k \notin BagToSet(exec.out)
      BY <1>4, <3>1 DEF InFlight, SentInv
    <3>3. /\ network[n] = 1 /\ (\A k \in InFlight : k.id = n.id => k = n)
          /\ \/ n.id \in DOMAIN stored.calls /\ stored.calls[n.id].dest = n.dest
             \/ n.dest \in legacy
      BY <3>2 DEF ExpectedInv
    <3>4. network'[n] = 1 BY <1>4, <3>2, <3>3 DEF InFlight
    <3>5. \A k \in InFlight' : k.id = n.id => k = n BY <3>2, <3>3
    <3>6. CASE exec.saved = stored BY <1>1, <3>3, <3>4, <3>5, <3>6
    <3>7. CASE exec.saved # stored
      <4>1. PICK i \in 1 .. MaxCalls : DOMAIN stored.calls = {i} /\ Resolves(i)
        BY <2>2, <3>7 DEF CallbackInv
      <4>2. \/ exec.caller \in legacy
            \/ \E j \in 1 .. MaxCalls : Resolves(j) /\ \A m \in InFlight : m.id # j
        BY <2>2 DEF CallbackInv
      <4>3. \/ exec.caller \in legacy
            \/ \A m \in InFlight : m.id # i
        BY <4>1, <4>2 DEF Resolves
      <4>4. n \in InFlight BY <3>2
      <4>5. n.dest \in legacy BY <3>3, <4>1, <4>3, <4>4 DEF Resolves
      <4>. QED BY <1>1, <3>4, <3>5, <4>5
    <3>. QED BY <3>6, <3>7
  <2>. QED BY <1>8, <2>1, <2>2
<1>. QED BY <1>1, <1>4, <1>5, <1>6, <1>7, <1>9, <1>10, EndKeeps

-----------------------------------------------------------------------------
(* The invariant and the theorems *)

\* The transaction begins with all its gas.
LEMMA InitKeeps == Init => IndInv
<1>. SUFFICES ASSUME Init PROVE IndInv OBVIOUS
<1>. USE DEF At
<1>1. PICK type \in {"direct", "async", "nested"} :
        exec = [NoExecution EXCEPT !.pc = "run", !.type = type, !.left = GasProvided,
                    !.provided = GasProvided,
                    !.caller = IF type = "nested" THEN LocalCaller ELSE RemoteCaller]
  BY DEF Init
<1>2. /\ stored = NoInfo /\ network = EmptyBag
      /\ created = 0 /\ legacy = {} /\ answers = 0 /\ failures = 0
  BY DEF Init
<1>. DEFINE caller == IF type = "nested" THEN LocalCaller ELSE RemoteCaller
            pc == "run"  left == GasProvided  saved == NoInfo
<1>3. exec = Begin(pc, type, caller, left, left, saved) BY <1>1 DEF NoExecution, Begin
<1>4. /\ caller \in {LocalCaller, RemoteCaller} /\ caller \in Local \cup Remote
      /\ pc \in Steps /\ left \in 0 .. GasProvided /\ IsInfo(saved)
      /\ pc = "run" /\ left = GasProvided /\ saved = NoInfo
      /\ type \in {"none", "direct", "async", "nested", "callback"}
  BY <1>1, AsyncAssumption, NoInfoType DEF Steps
<1>. HIDE DEF caller, pc, left, saved
<1>5. /\ IsExecution(exec)
      /\ exec.pc = pc /\ exec.type = type /\ exec.caller = caller /\ exec.left = left
      /\ exec.saved = saved /\ exec.info.locked = 0 /\ exec.done = {}
      /\ exec.out = EmptyBag
  BY ONLY <1>3, <1>4, BeginType, BeginFields
<1>9. /\ AreTransfers(EmptyBag) /\ Gas(EmptyBag) = 0 /\ AnswersIn(EmptyBag) = 0
      /\ BagToSet(EmptyBag) = {}
  BY EmptyBagTotals
<1>10. TypeOK
  <2>1. IsInfo(stored) /\ AreTransfers(network) BY <1>2, <1>4, <1>9
  <2>2. created \in 0 .. MaxCalls BY <1>2, AsyncAssumption
  <2>. QED BY <1>2, <1>5, <2>1, <2>2 DEF TypeOK, IsExecution
<1>11. GasInv BY <1>2, <1>4, <1>5, <1>9, AsyncAssumption DEF GasInv
<1>12. LegacyInv BY <1>2, <1>4, <1>5, <1>9 DEF LegacyInv
<1>13. FirstInv BY <1>2, <1>4, <1>5 DEF FirstInv
<1>14. SentInv BY <1>5, <1>9 DEF SentInv
<1>15. CallbackInv BY <1>1, <1>5 DEF CallbackInv
<1>16. ExpectedInv BY <1>2, <1>9 DEF ExpectedInv, InFlight
<1>17. AnswerInv BY <1>2, <1>5, <1>9 DEF AnswerInv
<1>18. TypesInv BY <1>1, <1>4, <1>5 DEF TypesInv
<1>. QED
  BY <1>10, <1>11, <1>12, <1>13, <1>14, <1>15, <1>16, <1>17, <1>18 DEF IndInv

\* A step that changes nothing.
LEMMA StutterKeeps ==
  ASSUME IndInv, UNCHANGED vars
  PROVE  IndInv'
<1>. USE DEF IndInv, vars, At
<1>1. TypeOK' BY DEF TypeOK, Steps
<1>2. GasInv' BY DEF GasInv, Owed
<1>3. LegacyInv' BY DEF LegacyInv, LegacyCall, IsCall, Lock, ShouldLockGas, ComputeGasLockedForAsync
<1>4. FirstInv' BY DEF FirstInv, First
<1>5. SentInv' BY DEF SentInv, First
<1>6. CallbackInv' BY DEF CallbackInv, Resolves, InFlight
<1>7. ExpectedInv' BY DEF ExpectedInv, InFlight
<1>8. AnswerInv' BY DEF AnswerInv
<1>9. TypesInv' BY DEF TypesInv
<1>. QED BY <1>1, <1>2, <1>3, <1>4, <1>5, <1>6, <1>7, <1>8, <1>9

\* Every step keeps the invariant.
LEMMA NextKeeps ==
  ASSUME IndInv, [Next]_vars
  PROVE  IndInv'
<1>1. CASE ContractStep
  <2>1. CASE UseGas BY <2>1, UseGasKeeps
  <2>2. CASE Return BY <2>2, ReturnKeeps
  <2>3. CASE SignalError BY <2>3, SignalErrorKeeps
  <2>4. ASSUME NEW x \in Contexts, NEW d \in Local \cup Remote, NEW g \in ProvidedGas,
               CreateAsyncCall(x, d, g)
        PROVE  IndInv'
    BY <2>4, CreateAsyncCallKeeps
  <2>5. ASSUME NEW d \in Local \cup Remote,
               NEW data \in {"bad", "transfer", "builtin", "function"}, AsyncCall(d, data)
        PROVE  IndInv'
    BY <2>5, AsyncCallKeeps
  <2>6. ASSUME NEW d \in Local \cup Remote, NEW g \in {0, GasProvided}, UpgradeContract(d, g)
        PROVE  IndInv'
    BY <2>6, UpgradeContractKeeps
  <2>. QED BY <1>1, <2>1, <2>2, <2>3, <2>4, <2>5, <2>6 DEF ContractStep
<1>2. CASE HostStep
  <2>1. CASE SendAsyncCallToDestination BY <2>1, SendAsyncCallToDestinationKeeps
  <2>2. CASE FailBreakpoint BY <2>2, FailBreakpointKeeps
  <2>3. CASE ExecuteBuiltinCrossShard BY <2>3, ExecuteBuiltinCrossShardKeeps
  <2>4. CASE RestoreLockedGas BY <2>4, RestoreLockedGasKeeps
  <2>5. CASE ExecuteSyncDestinationCall BY <2>5, ExecuteSyncDestinationCallKeeps
  <2>6. CASE ExecuteSyncCallbackCall BY <2>6, ExecuteSyncCallbackCallKeeps
  <2>7. CASE AfterFunction BY <2>7, AfterFunctionKeeps
  <2>8. CASE SetupGas BY <2>8, SetupGasKeeps
  <2>9. ASSUME NEW i \in 1 .. MaxCalls, ProcessAsyncCall(i) PROVE IndInv'
    BY <2>9, ProcessAsyncCallKeeps
  <2>10. CASE ProcessedAll BY <2>10, ProcessedAllKeeps
  <2>11. CASE SavePending BY <2>11, SavePendingKeeps
  <2>12. ASSUME NEW i \in 1 .. MaxCalls, SendPending(i) PROVE IndInv'
    BY <2>12, SendPendingKeeps
  <2>13. CASE SentAll BY <2>13, SentAllKeeps
  <2>14. CASE ProcessCallbackStack BY <2>14, ProcessCallbackStackKeeps
  <2>15. CASE Commit BY <2>15, CommitStepKeeps
  <2>16. CASE Fail BY <2>16, FailStepKeeps
  <2>. QED
    BY <1>2, <2>1, <2>2, <2>3, <2>4, <2>5, <2>6, <2>7, <2>8, <2>9, <2>10, <2>11, <2>12,
       <2>13, <2>14, <2>15, <2>16 DEF HostStep
<1>3. CASE NetworkStep
  <2>1. PICK m \in BagToSet(network) : ExecuteElsewhere(m) \/ ReceiveCallback(m)
    BY <1>3 DEF NetworkStep
  <2>2. CASE ExecuteElsewhere(m) BY <2>2, ExecuteElsewhereKeeps
  <2>3. CASE ReceiveCallback(m) BY <2>3, ReceiveCallbackKeeps
  <2>. QED BY <2>1, <2>2, <2>3
<1>4. CASE UNCHANGED vars BY <1>4, StutterKeeps
<1>. QED BY <1>1, <1>2, <1>3, <1>4 DEF Next

\* The invariant holds in every behaviour of the host.
LEMMA InvariantHolds == Spec => []IndInv
<1>1. Init => IndInv BY InitKeeps
<1>2. IndInv /\ [Next]_vars => IndInv' BY NextKeeps
<1>. QED BY <1>1, <1>2, PTL DEF Spec

\* Locking, splitting, sending and unlocking gas (ExecuteAsyncCall,
\* setupAsyncCallsGas, sendAsyncCallToDestination, unlockGasIfAsyncCallback)
\* creates none, and the state keeps its types.
THEOREM GasNeverCreatedTheorem == Spec => []GasNeverCreated
<1>1. IndInv => GasNeverCreated
  <2>1. Gas(exec.out) = GasOut /\ Gas(network) = GasInFlight
    BY Zenon DEF Gas, GasOut, GasInFlight
  <2>. QED BY <2>1 DEF IndInv, GasInv, GasNeverCreated
<1>. QED BY <1>1, InvariantHolds, PTL

\* The gas that ExecuteAsyncCall locks reaches the callback and pays for
\* compiling, the step and the callback.
THEOREM LockedGasPaysForCallbackTheorem == Spec => []LockedGasPaysForCallback
<1>1. IndInv => LockedGasPaysForCallback
  <2>. SUFFICES ASSUME IndInv, NEW m \in InFlight, m.id = 0, ShouldLockGas
                PROVE  GasOf(m) >= (IF IsDynamicGasLockingEnabled THEN CompileGas ELSE 0)
                                      + AsyncCallStep + AsyncCallbackGasLock
    BY DEF LockedGasPaysForCallback
  <2>1. m \in BagToSet(network) /\ IsCall(m) BY DEF InFlight, IsCall
  <2>2. m.locked >= Lock BY <2>1 DEF IndInv, LegacyInv, LegacyCall
  <2>3. m.limit \in Nat /\ m.locked \in Nat
    <3>1. m \in Transfers BY <2>1, BagOfTransfers DEF IndInv, TypeOK
    <3>. QED BY <3>1, AsyncAssumption DEF Transfers
  <2>. DEFINE compile == IF IsDynamicGasLockingEnabled THEN CompileGas ELSE 0
  <2>4. Lock = AsyncCallStep + AsyncCallbackGasLock + compile /\ compile \in Nat
    BY AsyncAssumption DEF Lock, ComputeGasLockedForAsync
  <2>5. GasOf(m) = m.limit + m.locked BY DEF GasOf
  <2>. HIDE DEF compile
  <2>6. GasOf(m) >= compile + AsyncCallStep + AsyncCallbackGasLock
    BY ONLY <2>2, <2>3, <2>4, <2>5, AsyncAssumption
  <2>. QED BY <2>6 DEF compile
<1>. QED BY <1>1, InvariantHolds, PTL

\* A call of createAsyncCall in flight is in the storage that
\* savePendingAsyncCalls wrote until its callback has been processed.
THEOREM CallsInFlightAreExpectedTheorem == Spec => []CallsInFlightAreExpected
<1>1. IndInv => CallsInFlightAreExpected BY DEF IndInv, ExpectedInv, CallsInFlightAreExpected
<1>. QED BY <1>1, InvariantHolds, PTL

\* sendCallbackToCurrentCaller and sendStorageCallbackToDestination answer the
\* caller once at most, and when no call of createAsyncCall is in flight.
THEOREM AnsweredOnceAndLastTheorem == Spec => []AnsweredOnceAndLast
<1>1. IndInv => AnsweredOnceAndLast
  <2>. SUFFICES ASSUME IndInv PROVE AnsweredOnceAndLast OBVIOUS
  <2>1. \A m \in InFlight : m.id \in Nat
    <3>1. \A m \in BagToSet(network) : m \in Transfers BY BagOfTransfers DEF IndInv, TypeOK
    <3>. QED BY <3>1 DEF InFlight, Transfers
  <2>. QED BY <2>1 DEF IndInv, ExpectedInv, AnswerInv, AnsweredOnceAndLast
<1>. QED BY <1>1, InvariantHolds, PTL
=============================================================================
