------------------------- MODULE EscrowLedgerProofs -------------------------
(***************************************************************************)
(* Proofs about EscrowLedger, for any finite sets of orders and users, any *)
(* requests, amounts, limit and fee.                                       *)
(*                                                                         *)
(* The sum of a user's held escrows is the cardinality of HeldUnits(u), so *)
(* that a step which opens or closes one escrow adds or removes a block of *)
(* elements, and the library's facts on unions of finite sets say what     *)
(* becomes of the sum.                                                     *)
(***************************************************************************)
EXTENDS EscrowLedger, FiniteSetTheorems, TLAPS

\* The kopecks of one order's escrow of the given amount.
Units(o, amount) == {o} \X (1..amount)

\* An order of amount a holds a units.
LEMMA UnitsSize ==
  ASSUME NEW o, NEW a \in Nat
  PROVE  IsFiniteSet(Units(o, a)) /\ Cardinality(Units(o, a)) = a
<1>1. IsFiniteSet({o}) /\ Cardinality({o}) = 1
  BY FS_Singleton
<1>2. IsFiniteSet(1..a) /\ Cardinality(1..a) = a
  BY FS_Interval
<1>3. /\ IsFiniteSet({o} \X (1..a))
      /\ Cardinality({o} \X (1..a)) = Cardinality({o}) * Cardinality(1..a)
  BY <1>1, <1>2, FS_Product
<1> QED
  BY <1>1, <1>2, <1>3 DEF Units

\* There are finitely many units.
LEMMA UnitsDomainFinite == IsFiniteSet(Orders \X (1..MaxBalance))
<1>1. IsFiniteSet(1..MaxBalance)
  BY FS_Interval, MoneyAssumption
<1> QED
  BY <1>1, RowsAssumption, FS_Product

\* A client's held units are finite,
LEMMA HeldUnitsFinite ==
  ASSUME NEW u PROVE IsFiniteSet(HeldUnits(u))
<1>1. HeldUnits(u) \in SUBSET (Orders \X (1..MaxBalance))
  BY DEF HeldUnits
<1> QED
  BY <1>1, UnitsDomainFinite, FS_Subset

\* so what a client has in escrow is a number.
LEMMA HeldType ==
  ASSUME NEW u PROVE Held(u) \in Nat
BY HeldUnitsFinite, FS_CardinalityType DEF Held

\* Adding a disjoint block of a units to a finite set.
LEMMA DisjointUnits ==
  ASSUME NEW S, IsFiniteSet(S), NEW o, NEW a \in Nat, S \cap Units(o, a) = {}
  PROVE  Cardinality(S \cup Units(o, a)) = Cardinality(S) + a
<1>1. IsFiniteSet(Units(o, a)) /\ Cardinality(Units(o, a)) = a
  BY UnitsSize
<1>2. Cardinality(S \cup Units(o, a))
        = Cardinality(S) + Cardinality(Units(o, a)) - Cardinality(S \cap Units(o, a))
  BY <1>1, FS_Union
<1>3. Cardinality(S \cap Units(o, a)) = 0
  BY FS_EmptySet
<1>4. Cardinality(S) \in Nat
  BY FS_CardinalityType
<1> QED
  BY <1>1, <1>2, <1>3, <1>4

(***************************************************************************)
(* What a change of one escrow row does to the sum of the held ones.       *)
(***************************************************************************)
LEMMA HeldAfterHold ==
  ASSUME TypeOK, NEW o \in Orders, escrow[o].status # "held",
         NEW e \in EscrowRow, e.status = "held",
         escrow' = [escrow EXCEPT ![o] = e], NEW u \in Users
  PROVE  Held(u)' = Held(u) + (IF u = e.client THEN e.amount ELSE 0)
<1>1. e.amount \in 1..MaxBalance /\ e.amount \in Nat /\ e.client \in Users
  BY MoneyAssumption DEF EscrowRow
<1>2. /\ \A p \in Orders : p # o => escrow'[p] = escrow[p]
      /\ escrow'[o] = e
  BY DEF TypeOK
<1>3. CASE u = e.client
  <2>1. HeldUnits(u)' = HeldUnits(u) \cup Units(o, e.amount)
    <3>1. ASSUME NEW p \in Orders, NEW i \in 1..MaxBalance
          PROVE  <<p, i>> \in HeldUnits(u)'
                   <=> <<p, i>> \in HeldUnits(u) \/ <<p, i>> \in Units(o, e.amount)
      <4>1. CASE p = o
        BY <4>1, <1>1, <1>2, <1>3, MoneyAssumption DEF HeldUnits, Units
      <4>2. CASE p # o
        BY <4>2, <1>2 DEF HeldUnits, Units
      <4> QED
        BY <4>1, <4>2
    <3>2. Units(o, e.amount) \subseteq Orders \X (1..MaxBalance)
      BY <1>1, MoneyAssumption DEF Units
    <3> QED
      BY <3>1, <3>2 DEF HeldUnits
  <2>2. HeldUnits(u) \cap Units(o, e.amount) = {}
    BY DEF HeldUnits, Units
  <2> QED
    BY <1>1, <1>3, <2>1, <2>2, HeldUnitsFinite, DisjointUnits DEF Held
<1>4. CASE u # e.client
  <2>1. HeldUnits(u)' = HeldUnits(u)
    BY <1>1, <1>2, <1>4 DEF HeldUnits
  <2> QED
    BY <1>4, <2>1, HeldType DEF Held
<1> QED
  BY <1>3, <1>4

\* Closing a held escrow takes its amount off its client's holds.
LEMMA HeldAfterClose ==
  ASSUME TypeOK, NEW o \in Orders, escrow[o].status = "held",
         NEW e, e.status # "held",
         escrow' = [escrow EXCEPT ![o] = e], NEW u \in Users
  PROVE  Held(u) = Held(u)' + (IF u = escrow[o].client
                               THEN escrow[o].amount ELSE 0)
<1> DEFINE d == escrow[o]
<1>1. /\ d.amount \in 1..MaxBalance /\ d.amount \in Nat
      /\ d.client \in Users
  BY MoneyAssumption DEF TypeOK, EscrowRow, NoEscrow
<1>2. /\ \A p \in Orders : p # o => escrow'[p] = escrow[p]
      /\ escrow'[o] = e
  BY DEF TypeOK
<1>3. HeldUnits(u)' \in SUBSET (Orders \X (1..MaxBalance))
  BY DEF HeldUnits
<1>4. IsFiniteSet(HeldUnits(u)')
  BY <1>3, UnitsDomainFinite, FS_Subset
<1>5. CASE u = d.client
  <2>1. HeldUnits(u) = HeldUnits(u)' \cup Units(o, d.amount)
    <3>1. ASSUME NEW p \in Orders, NEW i \in 1..MaxBalance
          PROVE  <<p, i>> \in HeldUnits(u)
                   <=> <<p, i>> \in HeldUnits(u)' \/ <<p, i>> \in Units(o, d.amount)
      <4>1. CASE p = o
        BY <4>1, <1>1, <1>2, <1>5, MoneyAssumption DEF HeldUnits, Units
      <4>2. CASE p # o
        BY <4>2, <1>2 DEF HeldUnits, Units
      <4> QED
        BY <4>1, <4>2
    <3>2. Units(o, d.amount) \subseteq Orders \X (1..MaxBalance)
      BY <1>1, MoneyAssumption DEF Units
    <3> QED
      BY <3>1, <3>2 DEF HeldUnits
  <2>2. HeldUnits(u)' \cap Units(o, d.amount) = {}
    BY <1>2 DEF HeldUnits, Units
  <2> QED
    BY <1>1, <1>4, <1>5, <2>1, <2>2, DisjointUnits DEF Held
<1>6. CASE u # d.client
  <2>1. HeldUnits(u)' = HeldUnits(u)
    BY <1>1, <1>2, <1>6 DEF HeldUnits
  <2> QED
    BY <1>6, <2>1, HeldType DEF Held
<1> QED
  BY <1>5, <1>6

\* Writing an escrow that was not held takes nothing off.
LEMMA HeldUnchanged ==
  ASSUME TypeOK, NEW o \in Orders, escrow[o].status # "held",
         NEW e, e.status # "held",
         escrow' = [escrow EXCEPT ![o] = e], NEW u \in Users
  PROVE  Held(u)' = Held(u)
<1>1. /\ \A p \in Orders : p # o => escrow'[p] = escrow[p]
      /\ escrow'[o] = e
  BY DEF TypeOK
<1>2. HeldUnits(u)' = HeldUnits(u)
  BY <1>1 DEF HeldUnits
<1> QED
  BY <1>2 DEF Held

\* Rounding: what a column of v kopecks stores after a is added or taken off.
LEMMA ColumnFacts ==
  ASSUME NEW v \in Nat, NEW a \in Nat
  PROVE  /\ Column(a) \in Nat
         /\ Column(10 * v + a) = v + Column(a)
         /\ 10 * v >= a =>
              /\ Column(10 * v - a) \in 0..v
              /\ Column(10 * v - a) + Column(a) = v + (IF IsHalf(a) THEN 1 ELSE 0)
<1> DEFINE q == a \div 10
           r == a % 10
<1>1. q \in Nat /\ r \in 0..9 /\ a = 10 * q + r
  OBVIOUS
<1> HIDE DEF q, r
<1>2. Column(a) = q + (IF r >= 5 THEN 1 ELSE 0)
  BY <1>1 DEF Column
<1>3. Column(10 * v + a) = v + q + (IF r >= 5 THEN 1 ELSE 0)
  BY <1>1 DEF Column
<1>4. IsHalf(a) <=> r = 5
  BY DEF IsHalf, r
<1>5. ASSUME 10 * v >= a
      PROVE  Column(10 * v - a) = v - q - (IF r > 5 THEN 1 ELSE 0)
  BY <1>1, <1>5 DEF Column
<1>6. 10 * v >= a => v >= q + (IF r > 5 THEN 1 ELSE 0)
  BY <1>1
<1> QED
  BY <1>1, <1>2, <1>3, <1>4, <1>5, <1>6

\* What is left in a column after a is taken off, half a kopeck rounding up.
LEMMA ColumnLess ==
  ASSUME NEW v \in Nat, NEW a \in Nat, 10 * v >= a
  PROVE  /\ Column(10 * v - a) \in Nat /\ Column(10 * v - a) <= v
         /\ Column(10 * v - a) + Column(a) = v + (IF IsHalf(a) THEN 1 ELSE 0)
<1>1. /\ Column(10 * v - a) \in 0..v
      /\ Column(10 * v - a) + Column(a) = v + (IF IsHalf(a) THEN 1 ELSE 0)
  BY ColumnFacts
<1> QED
  BY <1>1

\* A float sum is stored like an exact one, but for half a kopeck.
LEMMA FloatColumnFacts ==
  ASSUME NEW v \in Nat, NEW a \in Nat, NEW w \in FloatColumn(10 * v + a)
  PROVE  /\ w \in Nat
         /\ \/ w = v + Column(a)
            \/ IsHalf(a) /\ w = v + Column(a) - 1
<1> DEFINE q == a \div 10
           r == a % 10
<1>1. q \in Nat /\ r \in 0..9 /\ a = 10 * q + r
  OBVIOUS
<1>2. IsHalf(a) <=> r = 5
  BY DEF IsHalf
<1> HIDE DEF q, r
<1>3. Column(a) = q + (IF r >= 5 THEN 1 ELSE 0)
  BY <1>1 DEF Column
<1>4. Column(10 * v + a) = v + q + (IF r >= 5 THEN 1 ELSE 0)
  BY <1>1 DEF Column
<1>5. (10 * v + a) % 10 = r /\ (10 * v + a) \div 10 = v + q
  BY <1>1
<1>6. IsHalf(10 * v + a) <=> r = 5
  BY <1>5 DEF IsHalf
<1> QED
  BY <1>1, <1>2, <1>3, <1>4, <1>5, <1>6 DEF FloatColumn

\* The fields of a deposit in flight.
LEMMA OpenDepositFields ==
  ASSUME NEW d \in OpenDeposit
  PROVE  /\ d.user \in Users
         /\ d.amount \in Amounts /\ d.amount \in Nat
         /\ d.available \in Money /\ d.frozen \in Money
<1>1. d.user \in Users /\ d.amount \in Amounts
      /\ d.available \in Money /\ d.frozen \in Money
  BY DEF OpenDeposit
<1>2. \A a \in Amounts : a \in Nat
  BY MoneyAssumption
<1> QED
  BY <1>1, <1>2

-----------------------------------------------------------------------------
(***************************************************************************)
(* Type correctness, one lemma-sized step per action.                      *)
(***************************************************************************)

\* The columns never leave their range and every row stays well formed: each
\* operation's own guards suffice, without any other invariant.
LEMMA TypeStep == TypeOK /\ [Next]_vars => TypeOK'
<1> SUFFICES ASSUME TypeOK, [Next]_vars PROVE TypeOK'
  OBVIOUS
<1> USE MoneyAssumption DEF TypeOK, Money, TxType
<1>1. ASSUME NEW r \in Requests, NEW u \in Users, NEW a \in Amounts,
             DepositRead(r, u, a)
      PROVE  TypeOK'
  <2>1. deposit' \in [Requests -> {NewDeposit, EndedDeposit} \cup OpenDeposit]
    BY <1>1 DEF DepositRead, OpenDeposit
  <2> QED
    BY <1>1, <2>1 DEF DepositRead, tables, history
<1>2. ASSUME NEW r \in Requests, DepositWrite(r) PROVE TypeOK'
  <2>1. /\ deposit[r] \in OpenDeposit
        /\ deposit[r].user \in Users
        /\ deposit[r].amount \in Nat /\ deposit[r].amount \in Amounts
        /\ deposit[r].available \in Money /\ deposit[r].frozen \in Money
    BY <1>2 DEF DepositWrite, OpenDeposit, NewDeposit, EndedDeposit
  <2>2. deposit' \in [Requests -> {NewDeposit, EndedDeposit} \cup OpenDeposit]
    BY <1>2, <2>1 DEF DepositWrite, OpenDeposit
  <2>3. available' \in [Users -> Money]
    <3>1. PICK v \in FloatColumn(10 * deposit[r].available + deposit[r].amount) :
            /\ v <= MaxBalance
            /\ available' = [available EXCEPT ![deposit[r].user] = v]
      BY <1>2 DEF DepositWrite
    <3>2. v \in Nat
      <4>1. deposit[r].available \in Nat /\ deposit[r].amount \in Nat
        BY <2>1
      <4> QED
        BY <4>1, FloatColumnFacts
    <3>3. v \in Money
      BY <3>1, <3>2
    <3> QED
      BY <3>1, <3>3
  <2>4. /\ frozen' \in [Users -> Money] /\ clobbered' \subseteq Users
        /\ uneven' \in [Users -> Nat]
    BY <1>2, <2>1 DEF DepositWrite, CountUneven
  <2>5. unrecorded' \in [Users -> Int]
    <3>1. Column(deposit[r].amount) \in Nat
      BY <2>1, ColumnFacts
    <3> QED
      BY <1>2, <2>1, <3>1 DEF DepositWrite
  <2> QED
    BY <1>2, <2>2, <2>3, <2>4, <2>5 DEF DepositWrite
<1>3. ASSUME NEW r \in Requests, DepositRecord(r) PROVE TypeOK'
  <2>a. deposit[r].pc = "written"
    BY <1>3 DEF DepositRecord
  <2>b. deposit[r] \in OpenDeposit
    BY <2>a DEF NewDeposit, EndedDeposit
  <2>1. /\ deposit[r].user \in Users
        /\ deposit[r].amount \in Nat
    BY <2>b, OpenDepositFields
  <2>2. /\ deposit' \in [Requests -> {NewDeposit, EndedDeposit} \cup OpenDeposit]
        /\ unrecorded' \in [Users -> Int]
        /\ ledger' \in [Users -> [TxType -> Nat]]
    <3>1. Column(deposit[r].amount) \in Nat
      BY <2>1, ColumnFacts
    <3> QED
      BY <1>3, <2>1, <3>1 DEF DepositRecord, Record
  <2> QED
    BY <1>3, <2>2 DEF DepositRecord
<1>4. ASSUME NEW r \in Requests, DepositAbort(r) PROVE TypeOK'
  BY <1>4 DEF DepositAbort, tables, history
<1>5. ASSUME NEW o \in Orders, NEW c \in Users, NEW f \in Users,
             NEW a \in Amounts, CreateEscrowAtomic(o, c, f, a)
      PROVE  TypeOK'
  <2>a. /\ available[c] \in Money /\ frozen[c] \in Money /\ a \in Nat
        /\ 10 * available[c] >= a /\ Column(10 * frozen[c] + a) <= MaxBalance
        /\ Column(a) > 0
    BY <1>5 DEF CreateEscrowAtomic
  <2>b. /\ Column(a) \in 1..MaxBalance
        /\ Column(10 * available[c] - a) \in Money
        /\ Column(10 * frozen[c] + a) \in Money
    <3>1. /\ available[c] \in Nat /\ frozen[c] \in Nat
          /\ available[c] <= MaxBalance
      BY <2>a
    <3>2. Column(10 * available[c] - a) \in Nat /\ Column(10 * available[c] - a) <= available[c]
      BY <2>a, <3>1, ColumnLess
    <3>3. Column(a) \in Nat /\ Column(10 * frozen[c] + a) = frozen[c] + Column(a)
      BY <2>a, <3>1, ColumnFacts
    <3> QED
      BY <2>a, <3>1, <3>2, <3>3
  <2>1. escrow' \in [Orders -> {NoEscrow} \cup EscrowRow]
    BY <1>5, <2>b DEF CreateEscrowAtomic, EscrowRow
  <2>2. ledger' \in [Users -> [TxType -> Nat]]
    BY <1>5, <2>b DEF CreateEscrowAtomic, Record
  <2>3. available' \in [Users -> Money] /\ frozen' \in [Users -> Money]
    <3>1. /\ available' = [available EXCEPT ![c] = Column(10 * available[c] - a)]
          /\ frozen' = [frozen EXCEPT ![c] = Column(10 * frozen[c] + a)]
      BY <1>5 DEF CreateEscrowAtomic
    <3> QED
      BY <2>b, <3>1
  <2>4. uneven' \in [Users -> Nat]
    BY <1>5 DEF CreateEscrowAtomic, CountUneven
  <2> QED
    BY <1>5, <2>1, <2>2, <2>3, <2>4 DEF CreateEscrowAtomic
<1>6. ASSUME NEW o \in Orders, escrow[o].status = "held",
             NEW p \in 0..escrow[o].amount, PayOut(o, p)
      PROVE  TypeOK'
  <2>1. /\ escrow[o] \in EscrowRow
        /\ escrow[o].client \in Users /\ escrow[o].freelancer \in Users
        /\ escrow[o].amount \in 1..MaxBalance
    BY <1>6 DEF NoEscrow, EscrowRow
  <2>2. escrow' \in [Orders -> {NoEscrow} \cup EscrowRow]
    BY <1>6, <2>1 DEF PayOut, EscrowRow
  <2>3. ledger' \in [Users -> [TxType -> Nat]]
    BY <1>6, <2>1 DEF PayOut, Record
  <2>4. available' \in [Users -> Money] /\ frozen' \in [Users -> Money]
    BY <1>6, <2>1 DEF PayOut
  <2> QED
    BY <1>6, <2>2, <2>3, <2>4 DEF PayOut, history
<1>7. ASSUME NEW o \in Orders, RefundEscrowAtomic(o) PROVE TypeOK'
  <2>1. /\ escrow[o] \in EscrowRow
        /\ escrow[o].client \in Users
        /\ escrow[o].amount \in 1..MaxBalance
    BY <1>7 DEF RefundEscrowAtomic, NoEscrow, EscrowRow
  <2>2. escrow' \in [Orders -> {NoEscrow} \cup EscrowRow]
    BY <1>7, <2>1 DEF RefundEscrowAtomic, EscrowRow
  <2>3. ledger' \in [Users -> [TxType -> Nat]]
    BY <1>7, <2>1 DEF RefundEscrowAtomic, Record
  <2>4. available' \in [Users -> Money] /\ frozen' \in [Users -> Money]
    BY <1>7, <2>1 DEF RefundEscrowAtomic
  <2> QED
    BY <1>7, <2>2, <2>3, <2>4 DEF RefundEscrowAtomic, history
<1>8. ASSUME NEW u \in Users, NEW a \in Amounts, CreateWithdrawal(u, a)
      PROVE  TypeOK'
  <2>1. available[u] \in Money /\ a \in Nat /\ 10 * available[u] >= a
    BY <1>8 DEF CreateWithdrawal
  <2>2. Column(a) \in Nat /\ Column(10 * available[u] - a) \in Money
    <3>1. available[u] \in Nat /\ available[u] <= MaxBalance
      BY <2>1
    <3>2. Column(10 * available[u] - a) \in Nat /\ Column(10 * available[u] - a) <= available[u]
      BY <2>1, <3>1, ColumnLess
    <3>3. Column(a) \in Nat
      BY <2>1, ColumnFacts
    <3> QED
      BY <3>1, <3>2, <3>3
  <2>3. available' \in [Users -> Money] /\ withdrawn' \in [Users -> Nat]
    <3>1. /\ available' = [available EXCEPT ![u] = Column(10 * available[u] - a)]
          /\ withdrawn' = [withdrawn EXCEPT ![u] = withdrawn[u] + Column(a)]
      BY <1>8 DEF CreateWithdrawal
    <3> QED
      BY <2>2, <3>1
  <2>4. uneven' \in [Users -> Nat]
    BY <1>8 DEF CreateWithdrawal, CountUneven
  <2> QED
    BY <1>8, <2>3, <2>4 DEF CreateWithdrawal
<1>9. ASSUME NEW o \in Orders, DeleteOrder(o) PROVE TypeOK'
  <2>1. escrow[o].status = "held" => /\ escrow[o].client \in Users
                                     /\ escrow[o].amount \in Nat
    BY <1>9 DEF NoEscrow, EscrowRow
  <2> QED
    BY <1>9, <2>1 DEF DeleteOrder
<1>10. CASE UNCHANGED vars
  BY <1>10 DEF vars
<1>11. ASSUME NEW o \in Orders, ReleaseEscrowAtomic(o) \/ ReleaseEscrow(o)
       PROVE  TypeOK'
  <2>1. escrow[o].status = "held" => escrow[o].amount \in 0..escrow[o].amount
    BY DEF NoEscrow, EscrowRow
  <2> QED
    BY <1>6, <1>11, <2>1 DEF ReleaseEscrowAtomic, ReleaseEscrow, Payouts
<1> QED
  BY <1>1, <1>2, <1>3, <1>4, <1>5, <1>7, <1>8, <1>9, <1>10, <1>11
  DEF Next, Withdraw, Deposit, Hold, CreateEscrow

\* Every reachable state of the tables and of the requests is well typed: no
\* balance is ever negative or above the limit of its column.
THEOREM TypeCorrect == Spec => []TypeOK
<1>1. Init => TypeOK
  BY MoneyAssumption DEF Init, TypeOK, Money
<1> QED
  BY <1>1, TypeStep, PTL DEF Spec

\* What a hold writes: the guards bound the rounded amount, and only available
\* may end up half a kopeck off.
LEMMA HoldRounds ==
  ASSUME TypeOK, NEW o \in Orders, NEW c \in Users, NEW f \in Users,
         NEW a \in Amounts, CreateEscrowAtomic(o, c, f, a)
  PROVE  /\ Column(a) \in 1..MaxBalance /\ Column(a) \in Nat
         /\ Column(10 * frozen[c] + a) = frozen[c] + Column(a)
         /\ Column(10 * available[c] - a) \in Nat
         /\ Column(10 * available[c] - a) + Column(a)
              = available[c] + (IF IsHalf(a) THEN 1 ELSE 0)
<1>1. /\ a \in Nat /\ available[c] \in Nat /\ frozen[c] \in Nat
      /\ 10 * available[c] >= a /\ Column(10 * frozen[c] + a) <= MaxBalance
      /\ Column(a) > 0
  BY MoneyAssumption DEF TypeOK, Money, CreateEscrowAtomic
<1>2. Column(a) \in Nat /\ Column(10 * frozen[c] + a) = frozen[c] + Column(a)
  BY <1>1, ColumnFacts
<1>3. /\ Column(10 * available[c] - a) \in Nat
      /\ Column(10 * available[c] - a) + Column(a)
           = available[c] + (IF IsHalf(a) THEN 1 ELSE 0)
  BY <1>1, ColumnLess
<1> QED
  BY <1>1, <1>2, <1>3, MoneyAssumption

-----------------------------------------------------------------------------
(***************************************************************************)
(* Frozen funds and held escrows.                                          *)
(*                                                                         *)
(* FrozenIsBacked is not inductive by itself: that CreateEscrowAtomic adds *)
(* a held row, and does not replace one, follows from its guard, but that  *)
(* DeleteOrder finds the row it accounts for needs the type invariant, and *)
(* the write of a deposit needs that an unclobbered row is left with the   *)
(* frozen value it had.  TypeOK /\ FrozenIsBacked is inductive.            *)
(***************************************************************************)
LEMMA FrozenStep ==
  TypeOK /\ FrozenIsBacked /\ [Next]_vars => FrozenIsBacked'
<1> SUFFICES ASSUME TypeOK, FrozenIsBacked, [Next]_vars,
                    NEW u \in Users, u \notin clobbered'
             PROVE  frozen'[u] = Held(u)' + stranded'[u]
  BY DEF FrozenIsBacked
<1>a. ASSUME u \notin clobbered
      PROVE  frozen[u] = Held(u) + stranded[u]
  BY <1>a DEF FrozenIsBacked
<1>b. Held(u) \in Nat
  BY HeldType
<1>t. /\ available \in [Users -> Int] /\ frozen \in [Users -> Int]
      /\ stranded \in [Users -> Int]
      /\ escrow \in [Orders -> {NoEscrow} \cup EscrowRow]
  BY MoneyAssumption DEF TypeOK, Money
<1>1. CASE \/ UNCHANGED vars
           \/ \E r \in Requests, w \in Users, a \in Amounts : DepositRead(r, w, a)
           \/ \E r \in Requests : DepositRecord(r) \/ DepositAbort(r)
           \/ \E w \in Users, a \in Amounts : CreateWithdrawal(w, a)
  <2>1. UNCHANGED <<frozen, escrow, stranded, clobbered>>
    BY <1>1 DEF vars, DepositRead, DepositRecord, DepositAbort,
                CreateWithdrawal, tables, history
  <2>2. Held(u)' = Held(u)
    BY <2>1 DEF Held, HeldUnits
  <2> QED
    BY <1>a, <2>1, <2>2
<1>2. ASSUME NEW r \in Requests, DepositWrite(r)
      PROVE  frozen'[u] = Held(u)' + stranded'[u]
  <2>1. UNCHANGED <<escrow, stranded>> /\ u \notin clobbered
    BY <1>2 DEF DepositWrite
  <2>2. frozen'[u] = frozen[u]
    BY <1>2, <1>t DEF DepositWrite
  <2>3. Held(u)' = Held(u)
    BY <2>1 DEF Held, HeldUnits
  <2> QED
    BY <1>a, <2>1, <2>2, <2>3
<1>3. ASSUME NEW o \in Orders, NEW c \in Users, NEW f \in Users,
             NEW a \in Amounts, CreateEscrowAtomic(o, c, f, a)
      PROVE  frozen'[u] = Held(u)' + stranded'[u]
  <2> DEFINE b == Column(a)
             e == [status |-> "held", client |-> c, freelancer |-> f,
                   amount |-> b]
  <2>0. b \in 1..MaxBalance /\ b \in Nat /\ Column(10 * frozen[c] + a) = frozen[c] + b
    BY <1>3, HoldRounds
  <2>1. e \in EscrowRow /\ e.status = "held" /\ e.client = c /\ e.amount = b
    BY <2>0 DEF EscrowRow
  <2>2. escrow[o].status # "held" /\ escrow' = [escrow EXCEPT ![o] = e]
    BY <1>3 DEF CreateEscrowAtomic, NoEscrow
  <2>3. Held(u)' = Held(u) + (IF u = c THEN b ELSE 0)
    <3> HIDE DEF e
    <3>1. Held(u)' = Held(u) + (IF u = e.client THEN e.amount ELSE 0)
      BY <2>1, <2>2, HeldAfterHold
    <3> QED
      BY <2>1, <3>1
  <2>4. frozen' = [frozen EXCEPT ![c] = frozen[c] + b] /\ UNCHANGED <<stranded, clobbered>>
    BY <1>3, <2>0 DEF CreateEscrowAtomic
  <2> HIDE DEF b
  <2> QED
    BY <1>a, <1>b, <1>t, <2>0, <2>3, <2>4
<1>4. ASSUME NEW o \in Orders, NEW e, escrow[o].status = "held",
             e.status # "held", escrow' = [escrow EXCEPT ![o] = e],
             frozen' = [frozen EXCEPT ![escrow[o].client] = @ - escrow[o].amount],
             UNCHANGED <<stranded, clobbered>>
      PROVE  frozen'[u] = Held(u)' + stranded'[u]
  <2>1. Held(u) = Held(u)' + (IF u = escrow[o].client
                              THEN escrow[o].amount ELSE 0)
    BY <1>4, HeldAfterClose
  <2>2. escrow[o].amount \in Nat /\ escrow[o].client \in Users
    BY <1>4, MoneyAssumption DEF TypeOK, EscrowRow, NoEscrow
  <2>3. Held(u)' \in Int
    <3>1. HeldUnits(u)' \in SUBSET (Orders \X (1..MaxBalance))
      BY DEF HeldUnits
    <3> QED
      BY <3>1, UnitsDomainFinite, FS_Subset, FS_CardinalityType DEF Held
  <2> QED
    BY <1>4, <1>a, <1>b, <1>t, <2>1, <2>2, <2>3
<1>5. ASSUME NEW o \in Orders, ReleaseEscrowAtomic(o) \/ ReleaseEscrow(o)
      PROVE  frozen'[u] = Held(u)' + stranded'[u]
  <2> DEFINE e == [escrow[o] EXCEPT !.status = "released"]
  <2>1. escrow[o].status = "held" /\ escrow[o] \in EscrowRow
    BY <1>5, <1>t DEF ReleaseEscrowAtomic, ReleaseEscrow, NoEscrow
  <2>2. e.status # "held"
    BY <2>1 DEF EscrowRow
  <2>3. PICK p \in Int : PayOut(o, p)
    BY <1>5, <2>1, MoneyAssumption
    DEF ReleaseEscrowAtomic, ReleaseEscrow, Payouts, EscrowRow
  <2>4. /\ escrow' = [escrow EXCEPT ![o] = e]
        /\ frozen' = [frozen EXCEPT ![escrow[o].client] = @ - escrow[o].amount]
        /\ UNCHANGED <<stranded, clobbered>>
    BY <2>3, <1>t DEF PayOut, history
  <2> HIDE DEF e
  <2> QED
    BY <1>4, <2>1, <2>2, <2>4
<1>6. ASSUME NEW o \in Orders, RefundEscrowAtomic(o)
      PROVE  frozen'[u] = Held(u)' + stranded'[u]
  <2> DEFINE e == [escrow[o] EXCEPT !.status = "refunded"]
  <2>1. escrow[o].status = "held" /\ escrow[o] \in EscrowRow
    BY <1>6, <1>t DEF RefundEscrowAtomic, NoEscrow
  <2>2. e.status # "held"
    BY <2>1 DEF EscrowRow
  <2>3. /\ escrow' = [escrow EXCEPT ![o] = e]
        /\ frozen' = [frozen EXCEPT ![escrow[o].client] = @ - escrow[o].amount]
        /\ UNCHANGED <<stranded, clobbered>>
    BY <1>6, <1>t DEF RefundEscrowAtomic, history
  <2> HIDE DEF e
  <2> QED
    BY <1>4, <2>1, <2>2, <2>3
<1>7. ASSUME NEW o \in Orders, DeleteOrder(o)
      PROVE  frozen'[u] = Held(u)' + stranded'[u]
  <2>1. escrow' = [escrow EXCEPT ![o] = NoEscrow] /\ NoEscrow.status # "held"
    BY <1>7 DEF DeleteOrder, NoEscrow
  <2>2. UNCHANGED <<frozen, clobbered>>
    BY <1>7 DEF DeleteOrder
  <2>3. CASE escrow[o].status = "held"
    <3>1. Held(u) = Held(u)' + (IF u = escrow[o].client
                                THEN escrow[o].amount ELSE 0)
      BY <2>1, <2>3, HeldAfterClose
    <3>2. stranded' = [stranded EXCEPT ![escrow[o].client] = @ + escrow[o].amount]
      BY <1>7, <2>3 DEF DeleteOrder
    <3>3. escrow[o].amount \in Nat /\ escrow[o].client \in Users
      BY <2>3, MoneyAssumption DEF TypeOK, EscrowRow, NoEscrow
    <3>4. Held(u)' \in Int
      <4>1. HeldUnits(u)' \in SUBSET (Orders \X (1..MaxBalance))
        BY DEF HeldUnits
      <4> QED
        BY <4>1, UnitsDomainFinite, FS_Subset, FS_CardinalityType DEF Held
    <3> QED
      BY <1>a, <1>b, <1>t, <2>2, <3>1, <3>2, <3>3, <3>4
  <2>4. CASE escrow[o].status # "held"
    <3>1. Held(u)' = Held(u)
      BY <2>1, <2>4, HeldUnchanged
    <3>2. UNCHANGED stranded
      BY <1>7, <2>4 DEF DeleteOrder
    <3> QED
      BY <1>a, <2>2, <3>1, <3>2
  <2> QED
    BY <2>3, <2>4
<1> QED
  BY <1>1, <1>2, <1>3, <1>5, <1>6, <1>7 DEF Next, Withdraw, Deposit, Hold, CreateEscrow

\* A user's frozen funds are the sum of his held escrows and of what deleted
\* orders left behind, unless a stale deposit overwrote his row.
THEOREM FrozenBacked == Spec => []FrozenIsBacked
<1>1. Init => TypeOK /\ FrozenIsBacked
  <2> SUFFICES ASSUME Init PROVE TypeOK /\ FrozenIsBacked
    OBVIOUS
  <2>1. TypeOK
    BY MoneyAssumption DEF Init, TypeOK, Money
  <2>2. ASSUME NEW u \in Users PROVE Held(u) = 0
    <3>1. HeldUnits(u) = {}
      BY DEF Init, HeldUnits, NoEscrow
    <3> QED
      BY <3>1, FS_EmptySet DEF Held
  <2> QED
    BY <2>1, <2>2 DEF Init, FrozenIsBacked
<1> QED
  BY <1>1, TypeStep, FrozenStep, PTL DEF Spec

\* Release and refund are never refused for lack of frozen funds: a held escrow
\* of an unclobbered client is covered, because the sum counts its kopecks.
THEOREM HeldCovered == Spec => []HeldIsCovered
<1>1. TypeOK /\ FrozenIsBacked => HeldIsCovered
  <2> SUFFICES ASSUME TypeOK, FrozenIsBacked, NEW o \in Orders,
                      escrow[o].status = "held",
                      escrow[o].client \notin clobbered
               PROVE  frozen[escrow[o].client] >= escrow[o].amount
    BY DEF HeldIsCovered
  <2> DEFINE c == escrow[o].client
             a == escrow[o].amount
  <2>1. c \in Users /\ a \in 1..MaxBalance /\ a \in Nat
    BY MoneyAssumption DEF TypeOK, EscrowRow, NoEscrow
  <2>2. Units(o, a) \in SUBSET HeldUnits(c)
    BY <2>1, MoneyAssumption DEF Units, HeldUnits
  <2>3. a <= Held(c)
    BY <2>1, <2>2, UnitsSize, HeldUnitsFinite, FS_Subset DEF Held
  <2>4. frozen[c] = Held(c) + stranded[c]
    BY <2>1 DEF FrozenIsBacked
  <2>5. Held(c) \in Nat /\ stranded[c] \in Nat
    BY <2>1, HeldType DEF TypeOK
  <2> QED
    BY <2>1, <2>3, <2>4, <2>5
<1> QED
  BY <1>1, TypeCorrect, FrozenBacked, PTL

-----------------------------------------------------------------------------
(***************************************************************************)
(* Available funds and the history.                                        *)
(***************************************************************************)
\* What an inserted history row changes: one total.
LEMMA RecordChanges ==
  ASSUME ledger \in [Users -> [TxType -> Int]], NEW w \in Users,
         NEW type \in TxType, NEW p \in Int,
         ledger' = [ledger EXCEPT ![w][type] = @ + p],
         NEW u \in Users, NEW t \in TxType
  PROVE  /\ ledger[u][t] \in Int
         /\ u = w /\ t = type => ledger'[u][t] = ledger[u][t] + p
         /\ u # w \/ t # type => ledger'[u][t] = ledger[u][t]
<1>1. ledger[u] \in [TxType -> Int] /\ ledger[u][t] \in Int
  OBVIOUS
<1>2. u # w => ledger'[u] = ledger[u]
  OBVIOUS
<1>3. u = w => ledger'[u] = [ledger[u] EXCEPT ![type] = ledger[u][type] + p]
  OBVIOUS
<1> QED
  BY <1>1, <1>2, <1>3

\* What an inserted row, with a change of the unrecorded deposits, explains.
LEMMA ExplainedAfterRecord ==
  ASSUME TypeOK, NEW w \in Users, NEW type \in TxType, NEW p \in Int,
         Record(w, type, p), withdrawn' = withdrawn, NEW u \in Users,
         NEW q \in Int, unrecorded'[u] = unrecorded[u] + q
  PROVE  Explained(u)' = Explained(u) + q
           + (IF u # w THEN 0 ELSE IF type = "escrow_hold" THEN -p ELSE p)
<1>1. \A t \in TxType :
        /\ ledger[u][t] \in Int
        /\ ledger'[u][t] = ledger[u][t] + (IF u = w /\ t = type THEN p ELSE 0)
  <2>1. ledger \in [Users -> [TxType -> Int]]
    BY DEF TypeOK
  <2> QED
    BY <2>1, RecordChanges DEF Record
<1>2. unrecorded[u] \in Int /\ withdrawn[u] \in Int
  BY DEF TypeOK
<1> DEFINE add(t) == IF u = w /\ t = type THEN p ELSE 0
<1>3. /\ ledger[u]["deposit"] \in Int /\ ledger[u]["escrow_release"] \in Int
      /\ ledger[u]["escrow_refund"] \in Int /\ ledger[u]["escrow_hold"] \in Int
      /\ ledger'[u]["deposit"] = ledger[u]["deposit"] + add("deposit")
      /\ ledger'[u]["escrow_release"] = ledger[u]["escrow_release"] + add("escrow_release")
      /\ ledger'[u]["escrow_refund"] = ledger[u]["escrow_refund"] + add("escrow_refund")
      /\ ledger'[u]["escrow_hold"] = ledger[u]["escrow_hold"] + add("escrow_hold")
  BY <1>1 DEF TxType
<1>4. /\ add("deposit") \in Int /\ add("escrow_release") \in Int
      /\ add("escrow_refund") \in Int /\ add("escrow_hold") \in Int
      /\ add("deposit") + add("escrow_release") + add("escrow_refund") - add("escrow_hold")
           = (IF u # w THEN 0 ELSE IF type = "escrow_hold" THEN -p ELSE p)
  BY DEF TxType
<1> HIDE DEF add
<1> QED
  BY <1>2, <1>3, <1>4 DEF Explained

\* What an unchanged history explains stays the same.
LEMMA ExplainedUnchanged ==
  ASSUME TypeOK, ledger' = ledger, NEW u \in Users, NEW q \in Int, NEW n \in Int,
         unrecorded'[u] = unrecorded[u] + q, withdrawn'[u] = withdrawn[u] + n
  PROVE  Explained(u)' = Explained(u) + q - n
<1>1. unrecorded[u] \in Int /\ withdrawn[u] \in Int
  BY DEF TypeOK
<1>2. /\ ledger[u]["deposit"] \in Int /\ ledger[u]["escrow_release"] \in Int
      /\ ledger[u]["escrow_refund"] \in Int /\ ledger[u]["escrow_hold"] \in Int
  BY DEF TypeOK, TxType
<1> QED
  BY <1>1, <1>2 DEF Explained

\* The explained money is a number.
LEMMA ExplainedType ==
  ASSUME TypeOK, NEW u \in Users PROVE Explained(u) \in Int
<1>1. unrecorded[u] \in Int /\ withdrawn[u] \in Int
  BY DEF TypeOK
<1>2. /\ ledger[u]["deposit"] \in Int /\ ledger[u]["escrow_release"] \in Int
      /\ ledger[u]["escrow_refund"] \in Int /\ ledger[u]["escrow_hold"] \in Int
  BY DEF TypeOK, TxType
<1> QED
  BY <1>1, <1>2 DEF Explained

\* A step keeps the balance within its margin when what it changes in the
\* balance and in the history differ by no more than the margin grows.
LEMMA StillExplained ==
  ASSUME TypeOK, AvailableIsExplained, NEW u \in Users, u \notin clobbered,
         NEW d \in Int, NEW e \in Int, NEW n \in Nat,
         available'[u] = available[u] + d, Explained(u)' = Explained(u) + e,
         uneven'[u] = uneven[u] + n, d - e \in -n..n
  PROVE  available'[u] - Explained(u)' \in -uneven'[u]..uneven'[u]
<1>1. available[u] \in Int /\ uneven[u] \in Nat
  BY MoneyAssumption DEF TypeOK, Money
<1>2. Explained(u) \in Int
  BY ExplainedType
<1>3. available[u] - Explained(u) \in -uneven[u]..uneven[u]
  BY DEF AvailableIsExplained
<1> DEFINE x == Explained(u)
           y == Explained(u)'
<1>4. x \in Int /\ y = x + e /\ available[u] - x \in -uneven[u]..uneven[u]
  BY <1>2, <1>3
<1> HIDE DEF x, y
<1>5. available'[u] - y \in -uneven'[u]..uneven'[u]
  BY <1>1, <1>4
<1> QED
  BY <1>5 DEF y

\* The margin of a user grows by one with an uneven operation of his.
LEMMA CountUnevenChanges ==
  ASSUME TypeOK, NEW w \in Users, NEW a, CountUneven(w, a), NEW u \in Users
  PROVE  uneven'[u] = uneven[u] + (IF u = w /\ IsHalf(a) THEN 1 ELSE 0)
BY DEF TypeOK, CountUneven

\* Every step keeps each balance within what its history explains.
LEMMA AvailableStep ==
  TypeOK /\ AvailableIsExplained /\ [Next]_vars => AvailableIsExplained'
<1> SUFFICES ASSUME TypeOK, AvailableIsExplained, [Next]_vars,
                    NEW u \in Users, u \notin clobbered'
             PROVE  available'[u] - Explained(u)' \in -uneven'[u]..uneven'[u]
  BY DEF AvailableIsExplained
<1> DEFINE Goal == available'[u] - Explained(u)' \in -uneven'[u]..uneven'[u]
<1> SUFFICES Goal
  OBVIOUS
<1>t. /\ available \in [Users -> Nat] /\ withdrawn \in [Users -> Nat]
      /\ unrecorded \in [Users -> Int] /\ uneven \in [Users -> Nat]
      /\ escrow \in [Orders -> {NoEscrow} \cup EscrowRow]
      /\ deposit \in [Requests -> {NewDeposit, EndedDeposit} \cup OpenDeposit]
  BY MoneyAssumption DEF TypeOK, Money
<1>z. 0 \in Int /\ 0 \in Nat /\ 0 - 0 \in -0..0
  OBVIOUS
<1>1. CASE \/ UNCHANGED vars
           \/ \E r \in Requests, w \in Users, a \in Amounts : DepositRead(r, w, a)
           \/ \E r \in Requests : DepositAbort(r)
           \/ \E o \in Orders : DeleteOrder(o)
  <2>1. UNCHANGED <<available, ledger, withdrawn, unrecorded, clobbered, uneven>>
    BY <1>1 DEF vars, DepositRead, DepositAbort, DeleteOrder, tables, history
  <2>2. available[u] - Explained(u) \in -uneven[u]..uneven[u]
    BY <2>1 DEF AvailableIsExplained
  <2> QED
    BY <2>1, <2>2 DEF Explained
<1>2. ASSUME NEW r \in Requests, DepositWrite(r) PROVE Goal
  <2> DEFINE w == deposit[r].user
             a == deposit[r].amount
             b == Column(a)
             n == IF u = w /\ IsHalf(a) THEN 1 ELSE 0
             q == IF u = w THEN b ELSE 0
  <2>1. deposit[r].pc = "read"
    BY <1>2 DEF DepositWrite
  <2>2. deposit[r] \in OpenDeposit
    BY <2>1, <1>t DEF NewDeposit, EndedDeposit
  <2>3. w \in Users /\ a \in Nat /\ b \in Nat
    BY <2>2, OpenDepositFields, ColumnFacts
  <2>4. /\ u \notin clobbered /\ UNCHANGED <<ledger, withdrawn>>
        /\ unrecorded' = [unrecorded EXCEPT ![w] = @ + b]
        /\ u = w => deposit[r].available = available[u]
        /\ CountUneven(w, a)
    BY <1>2 DEF DepositWrite
  <2>5. PICK v \in FloatColumn(10 * deposit[r].available + a) :
          available' = [available EXCEPT ![w] = v]
    BY <1>2 DEF DepositWrite
  <2>6. uneven'[u] = uneven[u] + n
    BY <2>3, <2>4, CountUnevenChanges
  <2>7. u = w => \/ v = available[u] + b
                 \/ IsHalf(a) /\ v = available[u] + b - 1
    <3>1. available[u] \in Nat
      BY <1>t
    <3> QED
      BY <2>3, <2>4, <3>1, FloatColumnFacts
  <2> HIDE DEF w, a, b
  <2>8. unrecorded'[u] = unrecorded[u] + q /\ q \in Int
    BY <1>t, <2>3, <2>4
  <2>9. withdrawn'[u] = withdrawn[u] + 0
    BY <1>t, <2>4
  <2>10. Explained(u)' = Explained(u) + q
    <3>1. Explained(u)' = Explained(u) + q - 0
      BY <1>z, <2>4, <2>8, <2>9, ExplainedUnchanged
    <3> QED
      BY <2>8, <3>1, ExplainedType
  <2>11. available'[u] = IF u = w THEN v ELSE available[u]
    BY <1>t, <2>5
  <2>12. \E d \in {q, q - n} : available'[u] = available[u] + d
    <3>1. available[u] \in Nat
      BY <1>t
    <3> QED
      BY <2>3, <2>7, <2>11, <3>1
  <2>13. PICK d \in {q, q - n} : available'[u] = available[u] + d
    BY <2>12
  <2>14. n \in Nat /\ d \in Int /\ d - q \in -n..n
    BY <2>8, <2>13
  <2> HIDE DEF n, q
  <2> QED
    BY <2>4, <2>6, <2>8, <2>10, <2>13, <2>14, StillExplained
<1>3. ASSUME NEW r \in Requests, DepositRecord(r) PROVE Goal
  <2> DEFINE w == deposit[r].user
             b == Column(deposit[r].amount)
             q == IF u = w THEN -b ELSE 0
  <2>1. deposit[r].pc = "written"
    BY <1>3 DEF DepositRecord
  <2>2. deposit[r] \in OpenDeposit
    BY <2>1, <1>t DEF NewDeposit, EndedDeposit
  <2>3. w \in Users /\ b \in Nat
    BY <2>2, OpenDepositFields, ColumnFacts
  <2>4. /\ UNCHANGED <<available, withdrawn, clobbered, uneven>>
        /\ unrecorded' = [unrecorded EXCEPT ![w] = @ - b]
        /\ Record(w, "deposit", b)
    BY <1>3 DEF DepositRecord
  <2> HIDE DEF w, b
  <2>5. unrecorded'[u] = unrecorded[u] + q /\ q \in Int
    BY <1>t, <2>3, <2>4
  <2>6. Explained(u)' = Explained(u) + 0
    <3>1. b \in Int /\ "deposit" \in TxType /\ "deposit" # "escrow_hold"
      BY <2>3 DEF TxType
    <3>2. Explained(u)' = Explained(u) + q + (IF u # w THEN 0 ELSE b)
      BY <2>3, <2>4, <2>5, <3>1, ExplainedAfterRecord
    <3> QED
      BY <2>3, <3>2, ExplainedType
  <2>7. /\ available'[u] = available[u] + 0 /\ uneven'[u] = uneven[u] + 0
        /\ u \notin clobbered
    BY <1>t, <2>4
  <2> QED
    BY <1>z, <2>6, <2>7, StillExplained
<1>4. ASSUME NEW o \in Orders, NEW c \in Users, NEW f \in Users,
             NEW a \in Amounts, CreateEscrowAtomic(o, c, f, a)
      PROVE  Goal
  <2> DEFINE b == Column(a)
             n == IF u = c /\ IsHalf(a) THEN 1 ELSE 0
             e == IF u = c THEN -b ELSE 0
  <2>1. /\ b \in Nat /\ Column(10 * available[c] - a) \in Nat
        /\ Column(10 * available[c] - a) + b
             = available[c] + (IF IsHalf(a) THEN 1 ELSE 0)
    BY <1>4, HoldRounds
  <2>2. /\ UNCHANGED <<withdrawn, unrecorded, clobbered>>
        /\ available' = [available EXCEPT ![c] = Column(10 * available[c] - a)]
        /\ Record(c, "escrow_hold", b) /\ CountUneven(c, a)
    BY <1>4 DEF CreateEscrowAtomic
  <2>3. uneven'[u] = uneven[u] + n
    BY <2>2, CountUnevenChanges
  <2>4. available'[u] = available[u] + (e + n)
    <3>1. available[u] \in Nat /\ available[c] \in Nat
      BY <1>t
    <3>2. available'[u] = IF u = c THEN Column(10 * available[c] - a) ELSE available[u]
      BY <1>t, <2>2
    <3> HIDE DEF b
    <3> QED
      BY <2>1, <3>1, <3>2
  <2> HIDE DEF b
  <2>5. Explained(u)' = Explained(u) + e
    <3>1. b \in Int /\ "escrow_hold" \in TxType
      BY <2>1 DEF TxType
    <3>2. unrecorded'[u] = unrecorded[u] + 0
      BY <1>t, <2>2
    <3>3. Explained(u)' = Explained(u) + 0 + (IF u # c THEN 0 ELSE -b)
      <4>1. withdrawn' = withdrawn /\ Record(c, "escrow_hold", b)
        BY <2>2
      <4>2. Explained(u)' = Explained(u) + 0
              + (IF u # c THEN 0 ELSE IF "escrow_hold" = "escrow_hold" THEN -b ELSE b)
        BY <1>z, <3>1, <3>2, <4>1, ExplainedAfterRecord
      <4> QED
        BY <4>2
    <3> QED
      BY <2>1, <3>3, ExplainedType
  <2>6. n \in Nat /\ e \in Int /\ e + n \in Int /\ (e + n) - e \in -n..n
    BY <2>1
  <2> HIDE DEF n, e
  <2> QED
    BY <2>2, <2>3, <2>4, <2>5, <2>6, StillExplained
<1>5. ASSUME NEW w \in Users, NEW p \in Int, NEW type \in {"escrow_release", "escrow_refund"},
             UNCHANGED <<withdrawn, unrecorded, clobbered, uneven>>,
             available' = [available EXCEPT ![w] = @ + p],
             Record(w, type, p)
      PROVE  Goal
  <2> DEFINE d == IF u = w THEN p ELSE 0
  <2>0. type \in TxType /\ type # "escrow_hold"
    BY DEF TxType
  <2>1. available'[u] = available[u] + d
    BY <1>5, <1>t
  <2>2. Explained(u)' = Explained(u) + d
    <3>1. unrecorded'[u] = unrecorded[u] + 0
      BY <1>5, <1>t
    <3>2. Explained(u)' = Explained(u) + 0
            + (IF u # w THEN 0 ELSE IF type = "escrow_hold" THEN -p ELSE p)
      <4>1. withdrawn' = withdrawn /\ type \in TxType /\ Record(w, type, p)
        BY <1>5, <2>0
      <4> QED
        BY <1>z, <3>1, <4>1, ExplainedAfterRecord
    <3> QED
      BY <2>0, <3>2, ExplainedType
  <2>3. uneven'[u] = uneven[u] + 0 /\ u \notin clobbered
    BY <1>5, <1>t
  <2>4. d \in Int /\ d - d \in -0..0
    OBVIOUS
  <2> HIDE DEF d
  <2> QED
    BY <1>z, <2>1, <2>2, <2>3, <2>4, StillExplained
<1>6. ASSUME NEW o \in Orders, escrow[o].status = "held"
      PROVE  /\ escrow[o].client \in Users /\ escrow[o].freelancer \in Users
             /\ escrow[o].amount \in Int
  BY <1>6, <1>t, MoneyAssumption DEF NoEscrow, EscrowRow
<1>7. ASSUME NEW o \in Orders, ReleaseEscrowAtomic(o) \/ ReleaseEscrow(o)
      PROVE  Goal
  <2>1. escrow[o].status = "held"
    BY <1>7 DEF ReleaseEscrowAtomic, ReleaseEscrow
  <2>2. PICK p \in Int : PayOut(o, p)
    BY <1>6, <1>7, <2>1 DEF ReleaseEscrowAtomic, ReleaseEscrow, Payouts
  <2> QED
    BY <1>5, <1>6, <2>1, <2>2 DEF PayOut, history
<1>8. ASSUME NEW o \in Orders, RefundEscrowAtomic(o) PROVE Goal
  <2>1. escrow[o].status = "held"
    BY <1>8 DEF RefundEscrowAtomic
  <2> QED
    BY <1>5, <1>6, <1>8, <2>1 DEF RefundEscrowAtomic, history
<1>9. ASSUME NEW w \in Users, NEW a \in Amounts, CreateWithdrawal(w, a)
      PROVE  Goal
  <2> DEFINE b == Column(a)
             n == IF u = w /\ IsHalf(a) THEN 1 ELSE 0
             e == IF u = w THEN b ELSE 0
  <2>1. /\ b \in Nat /\ Column(10 * available[w] - a) \in Nat
        /\ Column(10 * available[w] - a) + b
             = available[w] + (IF IsHalf(a) THEN 1 ELSE 0)
    <3>1. a \in Nat /\ available[w] \in Nat /\ 10 * available[w] >= a
      BY <1>9, <1>t, MoneyAssumption DEF CreateWithdrawal
    <3>2. Column(a) \in Nat
      BY <3>1, ColumnFacts
    <3> QED
      BY <3>1, <3>2, ColumnLess
  <2>2. /\ UNCHANGED <<ledger, unrecorded, clobbered>>
        /\ available' = [available EXCEPT ![w] = Column(10 * available[w] - a)]
        /\ withdrawn' = [withdrawn EXCEPT ![w] = withdrawn[w] + b]
        /\ CountUneven(w, a)
    BY <1>9 DEF CreateWithdrawal
  <2>3. uneven'[u] = uneven[u] + n
    BY <2>2, CountUnevenChanges
  <2>4. available'[u] = available[u] + (n - e)
    <3>1. available[u] \in Nat /\ available[w] \in Nat
      BY <1>t
    <3>2. available'[u] = IF u = w THEN Column(10 * available[w] - a) ELSE available[u]
      BY <1>t, <2>2
    <3> HIDE DEF b
    <3> QED
      BY <2>1, <3>1, <3>2
  <2> HIDE DEF b
  <2>5. Explained(u)' = Explained(u) + (-e)
    <3>1. unrecorded'[u] = unrecorded[u] + 0 /\ withdrawn'[u] = withdrawn[u] + e /\ e \in Int
      BY <1>t, <2>1, <2>2
    <3> HIDE DEF e
    <3>2. Explained(u)' = Explained(u) + 0 - e
      BY <1>z, <2>2, <3>1, ExplainedUnchanged
    <3> QED
      BY <3>1, <3>2, ExplainedType
  <2>6. n \in Nat /\ -e \in Int /\ n - e \in Int /\ (n - e) - (-e) \in -n..n
    BY <2>1
  <2> HIDE DEF n, e
  <2> QED
    BY <2>2, <2>3, <2>4, <2>5, <2>6, StillExplained
<1> QED
  BY <1>1, <1>2, <1>3, <1>4, <1>7, <1>8, <1>9
  DEF Next, Withdraw, Deposit, Hold, CreateEscrow

\* The available funds are within a kopeck per uneven operation of what
\* transactions, withdrawals and the unrecorded deposits add up to.
THEOREM AvailableExplained == Spec => []AvailableIsExplained
<1>1. Init => TypeOK /\ AvailableIsExplained
  BY MoneyAssumption DEF Init, TypeOK, Money, AvailableIsExplained, Explained, TxType
<1> QED
  BY <1>1, TypeStep, AvailableStep, PTL DEF Spec

-----------------------------------------------------------------------------
(***************************************************************************)
(* The totals over all users.  A step adds to one user's share of a total  *)
(* or takes from it, so that the kopecks of the total gain or lose one     *)
(* block; how many users there are does not matter.                        *)
(***************************************************************************)
LEMMA KopecksFinite ==
  ASSUME NEW f \in [Users -> Nat]
  PROVE  IsFiniteSet(Kopecks(f))
<1> DEFINE share == [u \in Users |-> {u} \X (1..f[u])]
           Shares == {share[u] : u \in Users}
<1>1. share \in Surjection(Users, Shares)
  BY DEF Surjection
<1>2. IsFiniteSet(Shares)
  BY <1>1, RowsAssumption, FS_Surjection
<1>3. ASSUME NEW T \in Shares PROVE IsFiniteSet(T)
  <2>1. PICK u \in Users : T = Units(u, f[u])
    BY DEF Units
  <2> QED
    BY <2>1, UnitsSize
<1>4. Kopecks(f) = UNION Shares
  BY DEF Kopecks
<1> QED
  BY <1>2, <1>3, <1>4, FS_UNION

\* Adding p to one user's share adds p to the total.
LEMMA TotalGrows ==
  ASSUME NEW f \in [Users -> Nat], NEW g \in [Users -> Nat], NEW w \in Users, NEW p \in Nat,
         \A u \in Users : g[u] = f[u] + (IF u = w THEN p ELSE 0)
  PROVE  Total(g) = Total(f) + p /\ Total(f) \in Nat
<1> DEFINE n == f[w]
           New == {w} \X (n + 1 .. n + p)
<1>0. n \in Nat
  OBVIOUS
<1>1. /\ \A x : x \in Kopecks(f) <=> \E u \in Users : \E i \in 1..f[u] : x = <<u, i>>
      /\ \A x : x \in Kopecks(g) <=> \E u \in Users : \E i \in 1..g[u] : x = <<u, i>>
  BY DEF Kopecks
<1>2. Kopecks(g) = Kopecks(f) \cup New
  <2>1. ASSUME NEW u \in Users, NEW i \in 1..g[u] PROVE <<u, i>> \in Kopecks(f) \cup New
    <3>1. CASE i \in 1..f[u]
      BY <1>1, <3>1
    <3>2. CASE i \notin 1..f[u]
      <4>1. u = w /\ i \in n + 1 .. n + p
        BY <2>1, <3>2
      <4> QED
        BY <4>1
    <3> QED
      BY <3>1, <3>2
  <2>2. ASSUME NEW u \in Users, NEW i \in 1..f[u] PROVE <<u, i>> \in Kopecks(g)
    <3>1. i \in 1..g[u]
      OBVIOUS
    <3> QED
      BY <1>1, <3>1
  <2>3. ASSUME NEW i \in n + 1 .. n + p PROVE <<w, i>> \in Kopecks(g)
    <3>1. i \in 1..g[w]
      OBVIOUS
    <3> QED
      BY <1>1, <3>1
  <2>4. New \subseteq Kopecks(g)
    BY <2>3
  <2> QED
    BY <1>1, <2>1, <2>2, <2>4
<1>3. Kopecks(f) \cap New = {}
  BY <1>0, <1>1
<1>4. IsFiniteSet(New) /\ Cardinality(New) = p
  <2>1. IsFiniteSet({w}) /\ Cardinality({w}) = 1
    BY FS_Singleton
  <2> HIDE DEF n
  <2> DEFINE lo == n + 1
             hi == n + p
  <2>2. lo \in Int /\ hi \in Int /\ (IF lo > hi THEN 0 ELSE hi - lo + 1) = p
    BY <1>0
  <2>3. IsFiniteSet(lo .. hi) /\ Cardinality(lo .. hi) = p
    <3> HIDE DEF lo, hi
    <3> QED
      BY <2>2, FS_Interval
  <2>4. IsFiniteSet({w} \X (lo .. hi)) /\ Cardinality({w} \X (lo .. hi)) = 1 * p
    <3> HIDE DEF lo, hi
    <3> QED
      BY <2>1, <2>3, FS_Product
  <2> QED
    BY <2>4
<1>5. IsFiniteSet(Kopecks(f)) /\ Cardinality(Kopecks(f)) \in Nat
  BY KopecksFinite, FS_CardinalityType
<1> HIDE DEF New
<1>6. Cardinality(Kopecks(g)) = Cardinality(Kopecks(f)) + p - Cardinality(Kopecks(f) \cap New)
  BY <1>2, <1>4, <1>5, FS_Union
<1>7. Cardinality(Kopecks(f) \cap New) = 0
  BY <1>3, FS_EmptySet
<1> QED
  BY <1>5, <1>6, <1>7 DEF Total

\* Everyone's holds are numbers.
LEMMA HeldTypes ==
  /\ [u \in Users |-> Held(u)] \in [Users -> Nat]
  /\ [u \in Users |-> Held(u)'] \in [Users -> Nat]
<1>1. ASSUME NEW u PROVE Held(u)' \in Nat
  <2>1. HeldUnits(u)' \in SUBSET (Orders \X (1..MaxBalance))
    BY DEF HeldUnits
  <2> QED
    BY <2>1, UnitsDomainFinite, FS_Subset, FS_CardinalityType DEF Held
<1> QED
  BY <1>1, HeldType

\* One more row in transactions adds to the sum of its type, and to no other.
LEMMA SumsAfterRecord ==
  ASSUME TypeOK, TypeOK', NEW w \in Users, NEW type \in TxType, NEW p \in Nat, Record(w, type, p)
  PROVE  \A t \in TxType : /\ SumOf(t) \in Nat
                           /\ SumOf(t)' = IF t = type THEN SumOf(t) + p ELSE SumOf(t)
<1>1. SUFFICES ASSUME NEW t \in TxType
               PROVE  /\ SumOf(t) \in Nat
                      /\ SumOf(t)' = IF t = type THEN SumOf(t) + p ELSE SumOf(t)
  OBVIOUS
<1> DEFINE f == [u \in Users |-> ledger[u][t]]
           g == [u \in Users |-> ledger'[u][t]]
           q == IF t = type THEN p ELSE 0
<1>2. f \in [Users -> Nat] /\ g \in [Users -> Nat] /\ q \in Nat
  BY DEF TypeOK
<1>3. ASSUME NEW u \in Users PROVE g[u] = f[u] + (IF u = w THEN q ELSE 0)
  <2>1. ledger \in [Users -> [TxType -> Int]] /\ ledger' = [ledger EXCEPT ![w][type] = @ + p] /\ p \in Int
    BY DEF TypeOK, Record
  <2>2. /\ ledger[u][t] \in Int
        /\ u = w /\ t = type => ledger'[u][t] = ledger[u][t] + p
        /\ u # w \/ t # type => ledger'[u][t] = ledger[u][t]
    BY <2>1, RecordChanges
  <2> QED
    BY <2>2
<1>4. SumOf(t) = Total(f) /\ SumOf(t)' = Total(g)
  BY DEF SumOf, Total, Kopecks
<1> HIDE DEF f, g, q
<1>5. Total(g) = Total(f) + q /\ Total(f) \in Nat
  BY <1>2, <1>3, TotalGrows
<1> QED
  BY <1>4, <1>5 DEF q

\* A step that records nothing changes no sum.
LEMMA SumsUnchanged ==
  ASSUME TypeOK, UNCHANGED ledger
  PROVE  \A t \in TxType : SumOf(t) \in Nat /\ SumOf(t)' = SumOf(t)
<1>1. SUFFICES ASSUME NEW t \in TxType PROVE SumOf(t) \in Nat /\ SumOf(t)' = SumOf(t)
  OBVIOUS
<1> DEFINE f == [u \in Users |-> ledger[u][t]]
<1>2. f \in [Users -> Nat]
  BY DEF TypeOK
<1>3. Total(f) \in Nat
  BY <1>2, KopecksFinite, FS_CardinalityType DEF Total
<1> QED
  BY <1>3 DEF SumOf, Total, Kopecks

\* What is held in all, when one escrow opens, or closes, or none does either.
LEMMA SumHeldAfterHold ==
  ASSUME TypeOK, NEW o \in Orders, escrow[o].status # "held",
         NEW e \in EscrowRow, e.status = "held", escrow' = [escrow EXCEPT ![o] = e]
  PROVE  SumHeld \in Nat /\ SumHeld' = SumHeld + e.amount /\ e.amount \in Nat
<1> DEFINE f == [u \in Users |-> Held(u)]
           g == [u \in Users |-> Held(u)']
<1>1. e.client \in Users /\ e.amount \in Nat
  BY MoneyAssumption DEF EscrowRow
<1>2. \A u \in Users : g[u] = f[u] + (IF u = e.client THEN e.amount ELSE 0)
  BY HeldAfterHold
<1>3. f \in [Users -> Nat] /\ g \in [Users -> Nat]
  BY HeldTypes
<1>4. SumHeld = Total(f) /\ SumHeld' = Total(g)
  BY DEF SumHeld, Total, Kopecks
<1> HIDE DEF f, g
<1> QED
  BY <1>1, <1>2, <1>3, <1>4, TotalGrows

\* Closing a held escrow takes its amount off the sum of the holds.
LEMMA SumHeldAfterClose ==
  ASSUME TypeOK, NEW o \in Orders, escrow[o].status = "held",
         NEW e, e.status # "held", escrow' = [escrow EXCEPT ![o] = e]
  PROVE  SumHeld' \in Nat /\ SumHeld = SumHeld' + escrow[o].amount /\ escrow[o].amount \in Nat
<1> DEFINE f == [u \in Users |-> Held(u)]
           g == [u \in Users |-> Held(u)']
           d == escrow[o]
<1>1. d.client \in Users /\ d.amount \in Nat
  BY MoneyAssumption DEF TypeOK, EscrowRow, NoEscrow
<1>2. \A u \in Users : f[u] = g[u] + (IF u = d.client THEN d.amount ELSE 0)
  BY HeldAfterClose
<1>3. f \in [Users -> Nat] /\ g \in [Users -> Nat]
  BY HeldTypes
<1>4. SumHeld = Total(f) /\ SumHeld' = Total(g)
  BY DEF SumHeld, Total, Kopecks
<1> HIDE DEF f, g
<1> QED
  BY <1>1, <1>2, <1>3, <1>4, TotalGrows

\* The sum of the holds depends on the holds only.
LEMMA SumHeldUnchanged ==
  ASSUME \A u \in Users : Held(u)' = Held(u)
  PROVE  SumHeld \in Nat /\ SumHeld' = SumHeld
<1> DEFINE f == [u \in Users |-> Held(u)]
<1>1. Total(f) \in Nat
  BY HeldTypes, KopecksFinite, FS_CardinalityType DEF Total
<1>2. [u \in Users |-> Held(u)'] = f
  OBVIOUS
<1>3. SumHeld = Total(f) /\ SumHeld' = Total([u \in Users |-> Held(u)'])
  BY DEF SumHeld, Total, Kopecks
<1> HIDE DEF f
<1> QED
  BY <1>1, <1>2, <1>3

\* No step pays out what was not held.
LEMMA PaysStep ==
  TypeOK /\ EscrowPaysFromHolds /\ [Next]_vars => EscrowPaysFromHolds'
<1> SUFFICES ASSUME TypeOK, EscrowPaysFromHolds, [Next]_vars
             PROVE  EscrowPaysFromHolds'
  OBVIOUS
<1> DEFINE rel == SumOf("escrow_release")
           ref == SumOf("escrow_refund")
           hold == SumOf("escrow_hold")
<1>n. TypeOK'
  BY TypeStep
<1>t. /\ "deposit" \in TxType /\ "escrow_hold" \in TxType
      /\ "escrow_release" \in TxType /\ "escrow_refund" \in TxType
  BY DEF TxType
<1>p. rel + ref + SumHeld <= hold
  BY DEF EscrowPaysFromHolds
\* Neither the rows of transactions nor the escrows.
<1>1. ASSUME UNCHANGED <<ledger, escrow>> PROVE EscrowPaysFromHolds'
  <2>1. \A u \in Users : Held(u)' = Held(u)
    BY <1>1 DEF Held, HeldUnits
  <2>2. SumHeld \in Nat /\ SumHeld' = SumHeld
    BY <2>1, SumHeldUnchanged
  <2>3. /\ rel \in Nat /\ ref \in Nat /\ hold \in Nat
        /\ rel' = rel /\ ref' = ref /\ hold' = hold
    BY <1>1, <1>t, SumsUnchanged
  <2> QED
    BY <1>p, <2>2, <2>3 DEF EscrowPaysFromHolds
<1>2. ASSUME NEW r \in Requests, DepositRecord(r) PROVE EscrowPaysFromHolds'
  <2> DEFINE d == deposit[r]
  <2>1. d \in OpenDeposit
    BY <1>2 DEF DepositRecord, TypeOK, NewDeposit, EndedDeposit
  <2> DEFINE b == Column(d.amount)
  <2>2. d.user \in Users /\ b \in Nat
    BY <2>1, OpenDepositFields, ColumnFacts
  <2>3. Record(d.user, "deposit", b) /\ escrow' = escrow
    BY <1>2 DEF DepositRecord
  <2> HIDE DEF b
  <2> HIDE DEF d
  <2>4. /\ rel \in Nat /\ ref \in Nat /\ hold \in Nat
        /\ rel' = rel /\ ref' = ref /\ hold' = hold
    BY <1>n, <1>t, <2>2, <2>3, SumsAfterRecord
  <2>5. \A u \in Users : Held(u)' = Held(u)
    BY <2>3 DEF Held, HeldUnits
  <2>6. SumHeld \in Nat /\ SumHeld' = SumHeld
    BY <2>5, SumHeldUnchanged
  <2> QED
    BY <1>p, <2>4, <2>6 DEF EscrowPaysFromHolds
<1>3. ASSUME NEW o \in Orders, NEW c \in Users, NEW f \in Users, NEW a \in Amounts,
             CreateEscrowAtomic(o, c, f, a)
      PROVE  EscrowPaysFromHolds'
  <2> DEFINE b == Column(a)
             e == [status |-> "held", client |-> c, freelancer |-> f, amount |-> b]
  <2>1. e \in EscrowRow /\ e.status = "held" /\ e.amount = b /\ b \in Nat
    BY <1>3, HoldRounds DEF EscrowRow
  <2>2. /\ escrow[o].status # "held" /\ escrow' = [escrow EXCEPT ![o] = e]
        /\ Record(c, "escrow_hold", b)
    BY <1>3 DEF CreateEscrowAtomic, NoEscrow
  <2> HIDE DEF e, b
  <2>3. SumHeld \in Nat /\ SumHeld' = SumHeld + b
    BY <2>1, <2>2, SumHeldAfterHold
  <2>4. /\ rel \in Nat /\ ref \in Nat /\ hold \in Nat
        /\ rel' = rel /\ ref' = ref /\ hold' = hold + b
    BY <1>n, <1>t, <2>1, <2>2, SumsAfterRecord
  <2> QED
    BY <1>p, <2>1, <2>3, <2>4 DEF EscrowPaysFromHolds
\* A held escrow closes, and no more than its amount is recorded as paid.
<1>4. ASSUME NEW o \in Orders, escrow[o].status = "held",
             NEW e, e.status # "held", escrow' = [escrow EXCEPT ![o] = e],
             NEW w \in Users, NEW p \in Nat, p <= escrow[o].amount,
             NEW type \in {"escrow_release", "escrow_refund"},
             Record(w, type, p) \/ UNCHANGED ledger
      PROVE  EscrowPaysFromHolds'
  <2>1. SumHeld' \in Nat /\ SumHeld = SumHeld' + escrow[o].amount /\ escrow[o].amount \in Nat
    BY <1>4, SumHeldAfterClose
  <2>2. /\ rel \in Nat /\ ref \in Nat /\ hold \in Nat /\ hold' = hold
        /\ \/ rel' = rel + p /\ ref' = ref
           \/ rel' = rel /\ ref' = ref + p
           \/ rel' = rel /\ ref' = ref
    <3>1. CASE Record(w, type, p)
      BY <1>4, <1>n, <1>t, <3>1, SumsAfterRecord
    <3>2. CASE UNCHANGED ledger
      BY <1>t, <3>2, SumsUnchanged
    <3> QED
      BY <1>4, <3>1, <3>2
  <2> QED
    BY <1>4, <1>p, <2>1, <2>2 DEF EscrowPaysFromHolds
<1>5. ASSUME NEW o \in Orders, escrow[o].status = "held"
      PROVE  /\ escrow[o] \in EscrowRow
             /\ escrow[o].client \in Users /\ escrow[o].freelancer \in Users
             /\ escrow[o].amount \in Nat
  BY <1>5, MoneyAssumption DEF TypeOK, NoEscrow, EscrowRow
<1>6. ASSUME NEW o \in Orders, ReleaseEscrowAtomic(o) \/ ReleaseEscrow(o)
      PROVE  EscrowPaysFromHolds'
  <2>1. escrow[o].status = "held"
    BY <1>6 DEF ReleaseEscrowAtomic, ReleaseEscrow
  <2>2. PICK p \in 0..escrow[o].amount : PayOut(o, p)
    BY <1>5, <1>6, <2>1 DEF ReleaseEscrowAtomic, ReleaseEscrow, Payouts
  <2> DEFINE e == [escrow[o] EXCEPT !.status = "released"]
  <2>3. /\ e.status # "held" /\ escrow' = [escrow EXCEPT ![o] = e]
        /\ Record(escrow[o].freelancer, "escrow_release", p)
    BY <1>5, <2>1, <2>2 DEF PayOut, EscrowRow
  <2> HIDE DEF e
  <2>4. p \in Nat /\ p <= escrow[o].amount /\ escrow[o].freelancer \in Users
    BY <1>5, <2>1, <2>2
  <2> QED
    BY <1>4, <2>1, <2>3, <2>4
<1>7. ASSUME NEW o \in Orders, RefundEscrowAtomic(o) PROVE EscrowPaysFromHolds'
  <2>1. escrow[o].status = "held"
    BY <1>7 DEF RefundEscrowAtomic
  <2> DEFINE e == [escrow[o] EXCEPT !.status = "refunded"]
  <2>2. /\ e.status # "held" /\ escrow' = [escrow EXCEPT ![o] = e]
        /\ Record(escrow[o].client, "escrow_refund", escrow[o].amount)
    BY <1>5, <1>7, <2>1 DEF RefundEscrowAtomic, EscrowRow
  <2> HIDE DEF e
  <2>3. /\ escrow[o].amount \in Nat /\ escrow[o].amount <= escrow[o].amount
        /\ escrow[o].client \in Users
    BY <1>5, <2>1
  <2> QED
    BY <1>4, <2>1, <2>2, <2>3
<1>8. ASSUME NEW o \in Orders, DeleteOrder(o) PROVE EscrowPaysFromHolds'
  <2>1. escrow' = [escrow EXCEPT ![o] = NoEscrow] /\ UNCHANGED ledger /\ NoEscrow.status # "held"
    BY <1>8 DEF DeleteOrder, NoEscrow
  <2>2. CASE escrow[o].status = "held"
    <3>1. escrow[o].client \in Users /\ 0 \in Nat /\ 0 <= escrow[o].amount
      BY <1>5, <2>2
    <3> QED
      BY <1>4, <2>1, <2>2, <3>1
  <2>3. CASE escrow[o].status # "held"
    <3>1. \A u \in Users : Held(u)' = Held(u)
      BY <2>1, <2>3, HeldUnchanged
    <3>2. SumHeld \in Nat /\ SumHeld' = SumHeld
      BY <3>1, SumHeldUnchanged
    <3>3. /\ rel \in Nat /\ ref \in Nat /\ hold \in Nat
          /\ rel' = rel /\ ref' = ref /\ hold' = hold
      BY <1>t, <2>1, SumsUnchanged
    <3> QED
      BY <1>p, <3>2, <3>3 DEF EscrowPaysFromHolds
  <2> QED
    BY <2>2, <2>3
<1>9. CASE UNCHANGED vars
  BY <1>1, <1>9 DEF vars
<1>10. ASSUME NEW r \in Requests, Deposit(r) PROVE EscrowPaysFromHolds'
  <2>1. CASE DepositRecord(r)
    BY <1>2, <2>1
  <2>2. CASE (\E u \in Users, a \in Amounts : DepositRead(r, u, a)) \/ DepositWrite(r) \/ DepositAbort(r)
    <3>1. UNCHANGED <<ledger, escrow>>
      BY <2>2 DEF DepositRead, DepositWrite, DepositAbort, tables, history
    <3> QED
      BY <1>1, <3>1
  <2> QED
    BY <1>10, <2>1, <2>2 DEF Deposit
<1>11. ASSUME NEW o \in Orders, Hold(o) PROVE EscrowPaysFromHolds'
  BY <1>3, <1>11 DEF Hold, CreateEscrow
<1>12. ASSUME NEW w \in Users, NEW a \in Amounts, Withdraw(w, a) PROVE EscrowPaysFromHolds'
  BY <1>1, <1>12 DEF Withdraw, CreateWithdrawal, history
<1> QED
  BY <1>6, <1>7, <1>8, <1>9, <1>10, <1>11, <1>12 DEF Next

\* Over all users and orders, what escrow paid out and gave back, and what it
\* still holds, is no more than what was paid into it.
THEOREM EscrowPaysOut == Spec => []EscrowPaysFromHolds
<1>1. Init => TypeOK /\ EscrowPaysFromHolds
  <2> SUFFICES ASSUME Init PROVE TypeOK /\ EscrowPaysFromHolds
    OBVIOUS
  <2>1. TypeOK
    BY MoneyAssumption DEF Init, TypeOK, Money
  <2>2. \A u \in Users : Held(u) = 0
    <3>1. \A u \in Users : HeldUnits(u) = {}
      BY DEF Init, HeldUnits, NoEscrow
    <3> QED
      BY <3>1, FS_EmptySet DEF Held
  <2>3. Kopecks([u \in Users |-> Held(u)]) = {}
    BY <2>2 DEF Kopecks
  <2>4. \A t \in TxType : Kopecks([u \in Users |-> ledger[u][t]]) = {}
    BY DEF Init, Kopecks
  <2>5. SumHeld = 0 /\ \A t \in TxType : SumOf(t) = 0
    BY <2>3, <2>4, FS_EmptySet DEF SumHeld, SumOf, Total
  <2> QED
    BY <2>1, <2>5 DEF EscrowPaysFromHolds, TxType
<1> QED
  BY <1>1, TypeStep, PaysStep, PTL DEF Spec

-----------------------------------------------------------------------------
(***************************************************************************)
(* The life of an escrow row.                                              *)
(***************************************************************************)

\* What one step may do to the row of each order, case by case.
LEMMA RowStep ==
  ASSUME TypeOK, DeletedHasNoEscrow, [Next]_vars, NEW o \in Orders
  PROVE  \/ o \in orders' /\ o \in orders /\ escrow'[o] = escrow[o]
         \/ o \notin orders' /\ escrow'[o] = NoEscrow
         \/ /\ o \in orders' /\ o \in orders /\ escrow[o] = NoEscrow
            /\ \E c, f \in Users, a \in 1..MaxBalance :
                 escrow'[o] = [status |-> "held", client |-> c, freelancer |-> f,
                               amount |-> a]
         \/ /\ o \in orders' /\ o \in orders /\ escrow[o].status = "held"
            /\ \E s \in {"released", "refunded"} :
                 escrow'[o] = [escrow[o] EXCEPT !.status = s]
<1> DEFINE Goal ==
      \/ o \in orders' /\ o \in orders /\ escrow'[o] = escrow[o]
      \/ o \notin orders' /\ escrow'[o] = NoEscrow
      \/ /\ o \in orders' /\ o \in orders /\ escrow[o] = NoEscrow
         /\ \E c, f \in Users, a \in 1..MaxBalance :
              escrow'[o] = [status |-> "held", client |-> c, freelancer |-> f,
                            amount |-> a]
      \/ /\ o \in orders' /\ o \in orders /\ escrow[o].status = "held"
         /\ \E s \in {"released", "refunded"} :
              escrow'[o] = [escrow[o] EXCEPT !.status = s]
<1>t. /\ escrow \in [Orders -> {NoEscrow} \cup EscrowRow]
      /\ orders \subseteq Orders
  BY DEF TypeOK
<1>d. o \notin orders => escrow[o] = NoEscrow
  BY DEF DeletedHasNoEscrow
<1>1. CASE UNCHANGED <<orders, escrow>>
  BY <1>1, <1>d
<1>2. ASSUME NEW q \in Orders, NEW c \in Users, NEW f \in Users,
             NEW a \in Amounts, CreateEscrowAtomic(q, c, f, a)
      PROVE  Goal
  <2>1. Column(a) \in 1..MaxBalance
    BY <1>2, HoldRounds
  <2> QED
    BY <1>2, <1>t, <1>d, <2>1 DEF CreateEscrowAtomic
<1>3. ASSUME NEW q \in Orders, escrow[q].status = "held", orders' = orders,
             NEW s \in {"released", "refunded"},
             escrow' = [escrow EXCEPT ![q].status = s]
      PROVE  Goal
  <2>1. CASE q = o
    <3>1. o \in orders
      BY <1>3, <1>d, <2>1 DEF NoEscrow
    <3>2. escrow'[o] = [escrow[o] EXCEPT !.status = s]
      BY <1>3, <1>t, <2>1
    <3> QED
      BY <1>3, <2>1, <3>1, <3>2
  <2>2. CASE q # o
    BY <1>3, <1>t, <1>d, <2>2
  <2> QED
    BY <2>1, <2>2
<1>4. ASSUME NEW q \in Orders, ReleaseEscrowAtomic(q) \/ ReleaseEscrow(q)
      PROVE  Goal
  BY <1>3, <1>4 DEF ReleaseEscrowAtomic, ReleaseEscrow, PayOut
<1>5. ASSUME NEW q \in Orders, RefundEscrowAtomic(q) PROVE Goal
  BY <1>3, <1>5 DEF RefundEscrowAtomic
<1>6. ASSUME NEW q \in Orders, DeleteOrder(q) PROVE Goal
  BY <1>6, <1>t, <1>d DEF DeleteOrder
<1>7. CASE \/ UNCHANGED vars
           \/ \E r \in Requests : Deposit(r)
           \/ \E w \in Users, a \in Amounts : CreateWithdrawal(w, a)
  <2>1. UNCHANGED <<orders, escrow>>
    BY <1>7 DEF vars, Deposit, DepositRead, DepositWrite, DepositRecord,
                DepositAbort, CreateWithdrawal, tables, history
  <2> QED
    BY <1>1, <2>1
<1> QED
  BY <1>2, <1>4, <1>5, <1>6, <1>7 DEF Next, Withdraw, Hold, CreateEscrow

\* The operations of the ledger take the escrow of every order through the
\* life EscrowLife promises: one row, fixed terms, settled at most once.
THEOREM EscrowImplementsLife == Spec => EscrowLivesOnce
<1>1. Init => TypeOK /\ DeletedHasNoEscrow
  BY MoneyAssumption DEF Init, TypeOK, Money, DeletedHasNoEscrow
<1>2. TypeOK /\ DeletedHasNoEscrow /\ [Next]_vars => DeletedHasNoEscrow'
  <2> SUFFICES ASSUME TypeOK, DeletedHasNoEscrow, [Next]_vars,
                      NEW o \in Orders, o \notin orders'
               PROVE  escrow'[o] = NoEscrow
    BY DEF DeletedHasNoEscrow
  <2> QED
    BY RowStep
<1>3. Init => \A o \in Orders : Life(o)!Init
  BY DEF Init, NoEscrow, Life!Init, EscrowStatus, EscrowTerms
<1>4. TypeOK /\ DeletedHasNoEscrow /\ [Next]_vars
        => [\A o \in Orders : [Life(o)!Next]_<<EscrowStatus(o), EscrowTerms(o)>>]_vars
  <2> SUFFICES ASSUME TypeOK, DeletedHasNoEscrow, [Next]_vars, NEW o \in Orders
               PROVE  [Life(o)!Next]_<<EscrowStatus(o), EscrowTerms(o)>>
    OBVIOUS
  <2>t. escrow[o] \in {NoEscrow} \cup EscrowRow
    BY DEF TypeOK
  <2>d. o \notin orders => escrow[o] = NoEscrow
    BY DEF DeletedHasNoEscrow
  <2>1. CASE o \in orders' /\ o \in orders /\ escrow'[o] = escrow[o]
    BY <2>1 DEF EscrowStatus, EscrowTerms
  <2>2. CASE o \notin orders' /\ escrow'[o] = NoEscrow
    BY <2>2, <2>t, <2>d DEF EscrowStatus, EscrowTerms, NoEscrow, EscrowRow,
                            Life!Next, Life!Delete
  <2>3. ASSUME o \in orders', o \in orders, escrow[o] = NoEscrow,
               NEW c \in Users, NEW f \in Users, NEW a \in 1..MaxBalance,
               escrow'[o] = [status |-> "held", client |-> c,
                             freelancer |-> f, amount |-> a]
        PROVE  Life(o)!Hold
    BY <2>3 DEF EscrowStatus, EscrowTerms, NoEscrow, Life!Hold
  <2>4. ASSUME o \in orders', o \in orders, escrow[o].status = "held",
               NEW s \in {"released", "refunded"},
               escrow'[o] = [escrow[o] EXCEPT !.status = s]
        PROVE  Life(o)!Settle
    BY <2>4, <2>t DEF EscrowStatus, EscrowTerms, NoEscrow, EscrowRow,
                      Life!Settle
  <2> QED
    BY <2>1, <2>2, <2>3, <2>4, RowStep DEF Life!Next
<1> QED
  BY <1>1, <1>2, <1>3, <1>4, TypeStep, PTL DEF Spec, EscrowLivesOnce

=============================================================================
