---------------------------- MODULE EscrowLedger ----------------------------
(***************************************************************************)
(* The money of the marketplace: the tables user_balances, escrow,         *)
(* transactions and withdrawals, and the operations of the live payment    *)
(* code on them.                                                           *)
(*                                                                         *)
(* Every operation that runs in one database transaction under row locks   *)
(* is one action: the clean escrow operations (PaymentRepositoryAdapter),  *)
(* the legacy ones OrderService calls (PaymentRepository) and the          *)
(* withdrawal.  The deposit is NOT one transaction: its use case reads the *)
(* balance, writes the whole row back and inserts the history row in three *)
(* separate statements, so it is three actions, and any other operation,   *)
(* a failing statement or a crash may fall between them.                   *)
(*                                                                         *)
(* A column NUMERIC(12,2) counts whole kopecks, but a request's amount is  *)
(* a float64 > 0 of which nothing checks the scale: it is in tenths of a   *)
(* kopeck, and each column rounds on its own the value it is given, so one *)
(* amount can change two columns by different kopecks.  MaxBalance is the  *)
(* largest value of a column: a statement that would exceed it fails, as   *)
(* does one that would violate a CHECK, and its transaction is rolled      *)
(* back.  An operation that ends in an error leaves every table as it was, *)
(* so it is not an action.                                                 *)
(***************************************************************************)
EXTENDS Integers, FiniteSets

CONSTANTS
  Users,          \* the rows of users
  Orders,         \* the order ids that ever exist
  Requests,       \* the deposit requests that ever reach the server
  Amounts,        \* the amounts users ask to deposit, hold or withdraw, in
                  \* tenths of a kopeck
  MaxBalance,     \* the limit of NUMERIC(12,2)
  ConfiguredFee,  \* cfg.EscrowFeeRate, in percent
  MinWithdrawal   \* the smallest amount CreateWithdrawal accepts, in tenths

ASSUME RowsAssumption == IsFiniteSet(Users) /\ IsFiniteSet(Orders)
ASSUME MoneyAssumption ==
  /\ MaxBalance \in Nat
  /\ Amounts \subseteq Nat \ {0}
  /\ ConfiguredFee \in Int
  /\ MinWithdrawal \in Nat

VARIABLES
  available,   \* user_balances.available; an absent row reads as 0
  frozen,      \* user_balances.frozen
  orders,      \* the ids of the rows of orders
  escrow,      \* the escrow row of each order: UNIQUE (order_id)
  ledger,      \* transactions: total amount of the rows of a user and type
  withdrawn,   \* withdrawals: total amount of the rows of a user
  deposit      \* the deposit requests in flight

(***************************************************************************)
(* History variables: they influence no action.  They record the four      *)
(* ways in which the tables can stop agreeing with one another.            *)
(***************************************************************************)
VARIABLES
  clobbered,   \* users whose row was overwritten from a stale copy
  unrecorded,  \* deposits credited to a user and not in transactions
  stranded,    \* funds frozen for an escrow row that was deleted
  uneven       \* operations of a user whose amount ends in half a kopeck

tables == <<available, frozen, orders, escrow, ledger, withdrawn>>
history == <<clobbered, unrecorded, stranded, uneven>>
vars == <<available, frozen, orders, escrow, ledger, withdrawn, deposit,
          clobbered, unrecorded, stranded, uneven>>

Money == 0..MaxBalance

\* The types of the rows the live code inserts into transactions.
TxType == {"deposit", "escrow_hold", "escrow_release", "escrow_refund"}

NoEscrow == [status |-> "none"]
EscrowRow == [status : {"held", "released", "refunded"}, client : Users,
              freelancer : Users, amount : 1..MaxBalance]

NewDeposit == [pc |-> "new"]
EndedDeposit == [pc |-> "ended"]
OpenDeposit == [pc : {"read", "written"}, user : Users, amount : Amounts,
                available : Money, frozen : Money]

(***************************************************************************)
(* What a NUMERIC(12,2) column stores of a value x in tenths of a kopeck:  *)
(* PostgreSQL computes exactly and rounds half a kopeck up.  A float sum   *)
(* computed in Go may fall on either side of half a kopeck.                *)
(***************************************************************************)
Column(x) == (x + 5) \div 10
IsHalf(x) == x % 10 = 5
FloatColumn(x) ==
  IF IsHalf(x) THEN {x \div 10, x \div 10 + 1} ELSE {Column(x)}

\* A rate that is no share of the amount counts as ten percent.
FeePercent == IF ConfiguredFee \in 0..99 THEN ConfiguredFee ELSE 10

(***************************************************************************)
(* payout := amount * (1 - feeRate), then rounded to a kopeck by the       *)
(* column.  At half a kopeck the binary fraction may fall on either side,  *)
(* so both neighbours are possible.                                        *)
(***************************************************************************)
Payouts(amount) ==
  {p \in 0..amount : 100 * p - amount * (100 - FeePercent) \in -50..50}

-----------------------------------------------------------------------------
Init ==
  /\ available = [u \in Users |-> 0]
  /\ frozen = [u \in Users |-> 0]
  /\ orders = Orders
  /\ escrow = [o \in Orders |-> NoEscrow]
  /\ ledger = [u \in Users |-> [t \in TxType |-> 0]]
  /\ withdrawn = [u \in Users |-> 0]
  /\ deposit = [r \in Requests |-> NewDeposit]
  /\ clobbered = {}
  /\ unrecorded = [u \in Users |-> 0]
  /\ stranded = [u \in Users |-> 0]
  /\ uneven = [u \in Users |-> 0]

CountUneven(u, a) ==
  uneven' = [uneven EXCEPT ![u] = IF IsHalf(a) THEN @ + 1 ELSE @]

\* INSERT INTO transactions (user_id, type, amount, ...), in whole kopecks
Record(u, type, amount) ==
  ledger' = [ledger EXCEPT ![u][type] = @ + amount]

(***************************************************************************)
(* DepositUseCase.Run: GetBalance without a lock ...                       *)
(***************************************************************************)
DepositRead(r, u, a) ==
  /\ deposit[r] = NewDeposit
  /\ deposit' = [deposit EXCEPT ![r] =
       [pc |-> "read", user |-> u, amount |-> a,
        available |-> available[u], frozen |-> frozen[u]]]
  /\ UNCHANGED <<tables, history>>

\* ... UpdateBalance, which overwrites both columns with the copy ...
DepositWrite(r) ==
  LET d == deposit[r] IN
  /\ d.pc = "read"
  /\ \E v \in FloatColumn(10 * d.available + d.amount) :
       /\ v <= MaxBalance
       /\ available' = [available EXCEPT ![d.user] = v]
  /\ frozen' = [frozen EXCEPT ![d.user] = d.frozen]
  /\ deposit' = [deposit EXCEPT ![r].pc = "written"]
  /\ clobbered' = IF available[d.user] = d.available /\ frozen[d.user] = d.frozen
                  THEN clobbered ELSE clobbered \cup {d.user}
  /\ unrecorded' = [unrecorded EXCEPT ![d.user] = @ + Column(d.amount)]
  /\ CountUneven(d.user, d.amount)
  /\ UNCHANGED <<orders, escrow, ledger, withdrawn, stranded>>

\* ... and CreateTransaction, which CHECK (amount > 0) refuses when the amount
\* rounds to nothing.
DepositRecord(r) ==
  LET d == deposit[r] IN
  /\ d.pc = "written"
  /\ Column(d.amount) > 0
  /\ Record(d.user, "deposit", Column(d.amount))
  /\ deposit' = [deposit EXCEPT ![r] = EndedDeposit]
  /\ unrecorded' = [unrecorded EXCEPT ![d.user] = @ - Column(d.amount)]
  /\ UNCHANGED <<available, frozen, orders, escrow, withdrawn, clobbered,
                 stranded, uneven>>

\* A statement fails, the request is cancelled or the server dies between
\* two statements: nothing undoes the ones that were executed.
DepositAbort(r) ==
  /\ deposit[r].pc \in {"read", "written"}
  /\ deposit' = [deposit EXCEPT ![r] = EndedDeposit]
  /\ UNCHANGED <<tables, history>>

-----------------------------------------------------------------------------
\* PaymentRepositoryAdapter.CreateEscrowAtomic; POST /payments/escrow passes
\* any client, freelancer and positive amount.  available, frozen and the two new
\* rows round separately; CHECK (amount > 0) refuses an amount that rounds to 0.
CreateEscrowAtomic(o, c, f, a) ==
  /\ o \in orders
  /\ escrow[o] = NoEscrow
  /\ 10 * available[c] >= a
  /\ Column(a) > 0
  /\ Column(10 * frozen[c] + a) <= MaxBalance
  /\ available' = [available EXCEPT ![c] = Column(10 * @ - a)]
  /\ frozen' = [frozen EXCEPT ![c] = Column(10 * @ + a)]
  /\ escrow' = [escrow EXCEPT ![o] = [status |-> "held", client |-> c,
                                      freelancer |-> f, amount |-> Column(a)]]
  /\ CountUneven(c, a)
  /\ Record(c, "escrow_hold", Column(a))
  /\ UNCHANGED <<orders, withdrawn, deposit, clobbered, unrecorded, stranded>>

\* Mutant of CreateEscrow: the history row is forgotten.
CreateEscrow_Unrecorded(o, c, f, a) ==
  /\ o \in orders
  /\ escrow[o] = NoEscrow
  /\ 10 * available[c] >= a
  /\ Column(a) > 0
  /\ Column(10 * frozen[c] + a) <= MaxBalance
  /\ available' = [available EXCEPT ![c] = Column(10 * @ - a)]
  /\ frozen' = [frozen EXCEPT ![c] = Column(10 * @ + a)]
  /\ escrow' = [escrow EXCEPT ![o] = [status |-> "held", client |-> c,
                                      freelancer |-> f, amount |-> Column(a)]]
  /\ CountUneven(c, a)
  /\ UNCHANGED <<orders, ledger, withdrawn, deposit, clobbered, unrecorded,
                 stranded>>

\* PaymentRepository.CreateEscrow, which UpdateProposalStatus calls: the same
\* statements with the same guards (a client without a row has no funds), for
\* an amount it read from a NUMERIC(12,2) column.
CreateEscrow(o, c, f, a) == a % 10 = 0 /\ CreateEscrowAtomic(o, c, f, a)

\* The effect both release transactions share: the freelancer is credited
\* with payout p, the client loses the whole amount.
PayOut(o, p) ==
  LET e == escrow[o]
  IN  /\ frozen[e.client] >= e.amount
      /\ available[e.freelancer] + p <= MaxBalance
      /\ frozen' = [frozen EXCEPT ![e.client] = @ - e.amount]
      /\ available' = [available EXCEPT ![e.freelancer] = @ + p]
      /\ escrow' = [escrow EXCEPT ![o].status = "released"]
      /\ Record(e.freelancer, "escrow_release", p)
      /\ UNCHANGED <<orders, withdrawn, deposit, history>>

\* Mutant of ReleaseEscrowAtomic: the status of the locked row is not checked.
ReleaseEscrowAtomic_AnyStatus(o) ==
  /\ escrow[o].status # "none"
  /\ \E p \in Payouts(escrow[o].amount) : p > 0 /\ PayOut(o, p)

\* PaymentRepositoryAdapter.ReleaseEscrowAtomic, with the platform's fee.  A
\* payout of 0 violates CHECK (amount > 0) of transactions.
ReleaseEscrowAtomic(o) ==
  /\ escrow[o].status = "held"
  /\ \E p \in Payouts(escrow[o].amount) : p > 0 /\ PayOut(o, p)

\* Mutant of ReleaseEscrow: the query has no AND status = 'held'.
ReleaseEscrow_AnyStatus(o) ==
  /\ escrow[o].status # "none"
  /\ PayOut(o, escrow[o].amount)

\* PaymentRepository.ReleaseEscrow, which OrderService.UpdateOrder calls when
\* the freelancer completes the order: no fee.
ReleaseEscrow(o) ==
  /\ escrow[o].status = "held"
  /\ PayOut(o, escrow[o].amount)

\* Mutant of RefundEscrowAtomic: a released escrow can still be refunded.
RefundEscrowAtomic_AfterRelease(o) ==
  LET e == escrow[o] IN
  /\ e.status \in {"held", "released"}
  /\ frozen[e.client] >= e.amount
  /\ available[e.client] + e.amount <= MaxBalance
  /\ frozen' = [frozen EXCEPT ![e.client] = @ - e.amount]
  /\ available' = [available EXCEPT ![e.client] = @ + e.amount]
  /\ escrow' = [escrow EXCEPT ![o].status = "refunded"]
  /\ Record(e.client, "escrow_refund", e.amount)
  /\ UNCHANGED <<orders, withdrawn, deposit, history>>

\* PaymentRepositoryAdapter.RefundEscrowAtomic
RefundEscrowAtomic(o) ==
  LET e == escrow[o] IN
  /\ e.status = "held"
  /\ frozen[e.client] >= e.amount
  /\ available[e.client] + e.amount <= MaxBalance
  /\ frozen' = [frozen EXCEPT ![e.client] = @ - e.amount]
  /\ available' = [available EXCEPT ![e.client] = @ + e.amount]
  /\ escrow' = [escrow EXCEPT ![o].status = "refunded"]
  /\ Record(e.client, "escrow_refund", e.amount)
  /\ UNCHANGED <<orders, withdrawn, deposit, history>>

\* WithdrawalRepository.Create, which inserts into withdrawals and not into
\* transactions.
CreateWithdrawal(u, a) ==
  /\ 10 * available[u] >= a
  /\ Column(a) > 0
  /\ available' = [available EXCEPT ![u] = Column(10 * @ - a)]
  /\ withdrawn' = [withdrawn EXCEPT ![u] = @ + Column(a)]
  /\ CountUneven(u, a)
  /\ UNCHANGED <<frozen, orders, escrow, ledger, deposit, clobbered, unrecorded,
                 stranded>>

\* POST /withdrawals
Withdraw(u, a) == a >= MinWithdrawal /\ CreateWithdrawal(u, a)

\* DeleteOrderUseCase: whatever the order's status, DELETE FROM orders, and
\* ON DELETE CASCADE takes the escrow row with it.
DeleteOrder(o) ==
  LET e == escrow[o] IN
  /\ o \in orders
  /\ orders' = orders \ {o}
  /\ escrow' = [escrow EXCEPT ![o] = NoEscrow]
  /\ stranded' = IF e.status = "held"
                 THEN [stranded EXCEPT ![e.client] = @ + e.amount]
                 ELSE stranded
  /\ UNCHANGED <<available, frozen, ledger, withdrawn, deposit, clobbered,
                 unrecorded, uneven>>

Deposit(r) ==
  \/ \E u \in Users, a \in Amounts : DepositRead(r, u, a)
  \/ DepositWrite(r)
  \/ DepositRecord(r)
  \/ DepositAbort(r)

Hold(o) ==
  \E c, f \in Users, a \in Amounts :
    CreateEscrowAtomic(o, c, f, a) \/ CreateEscrow(o, c, f, a)

Next ==
  \/ \E r \in Requests : Deposit(r)
  \/ \E o \in Orders : \/ Hold(o)
                       \/ ReleaseEscrowAtomic(o)
                       \/ ReleaseEscrow(o)
                       \/ RefundEscrowAtomic(o)
                       \/ DeleteOrder(o)
  \/ \E u \in Users, a \in Amounts : Withdraw(u, a)

Spec == Init /\ [][Next]_vars

-----------------------------------------------------------------------------
(***************************************************************************)
(* Properties                                                              *)
(***************************************************************************)

\* One element per kopeck that is held in an escrow row whose client is u:
\* the cardinality of HeldUnits(u) is the sum of the amounts of those rows.
HeldUnits(u) ==
  {x \in Orders \X (1..MaxBalance) :
     /\ escrow[x[1]].status = "held"
     /\ escrow[x[1]].client = u
     /\ x[2] <= escrow[x[1]].amount}

Held(u) == Cardinality(HeldUnits(u))

\* Type invariant: in particular no statement drives a balance below zero or
\* above the column's limit, even when a deposit writes back a stale copy.
TypeOK ==
  /\ available \in [Users -> Money]
  /\ frozen \in [Users -> Money]
  /\ orders \subseteq Orders
  /\ escrow \in [Orders -> {NoEscrow} \cup EscrowRow]
  /\ ledger \in [Users -> [TxType -> Nat]]
  /\ withdrawn \in [Users -> Nat]
  /\ deposit \in [Requests -> {NewDeposit, EndedDeposit} \cup OpenDeposit]
  /\ clobbered \subseteq Users
  /\ unrecorded \in [Users -> Int]
  /\ stranded \in [Users -> Nat]
  /\ uneven \in [Users -> Nat]

\* A user's frozen funds are exactly what the escrow rows hold for him, plus
\* what deleted orders left behind, whatever holds, releases (with or without
\* the fee) and refunds interleave: only a deposit that writes back a stale
\* copy of the row can break this.
FrozenIsBacked ==
  \A u \in Users \ clobbered : frozen[u] = Held(u) + stranded[u]

\* What a user's rows in transactions and withdrawals, with the deposits
\* credited but not (yet) recorded, leave of his money.
Explained(u) ==
  ledger[u]["deposit"] + ledger[u]["escrow_release"] + ledger[u]["escrow_refund"]
    + unrecorded[u] - ledger[u]["escrow_hold"] - withdrawn[u]

\* A user's available funds are what the history explains, up to one kopeck for
\* each of his operations whose amount ended in half a kopeck: the columns that
\* round it separately drift no further apart, however operations interleave.
\* Again only a stale deposit can break this.
AvailableIsExplained ==
  \A u \in Users \ clobbered :
    available[u] - Explained(u) \in -uneven[u]..uneven[u]

\* A held escrow can always be settled: the frozen funds of a client whose row
\* no deposit overwrote cover every held escrow of his, so that neither
\* release nor refund is refused for lack of frozen funds.
HeldIsCovered ==
  \A o \in Orders :
    escrow[o].status = "held" /\ escrow[o].client \notin clobbered
      => frozen[escrow[o].client] >= escrow[o].amount

\* Escrow pays out what it held and not more: the payouts, the refunds and
\* what is still held never exceed the holds.  No exception: stale deposits
\* and deleted orders included.
\* Again a sum is a number of elements, one per kopeck of a user.
Kopecks(f) == UNION {{u} \X (1..f[u]) : u \in Users}
Total(f) == Cardinality(Kopecks(f))
SumOf(type) == Total([u \in Users |-> ledger[u][type]])
SumHeld == Total([u \in Users |-> Held(u)])
EscrowPaysFromHolds ==
  SumOf("escrow_release") + SumOf("escrow_refund") + SumHeld <= SumOf("escrow_hold")

EscrowStatus(o) == IF o \in orders THEN escrow[o].status ELSE "deleted"
EscrowTerms(o) ==
  IF escrow[o].status = "none" THEN <<>>
  ELSE <<escrow[o].client, escrow[o].freelancer, escrow[o].amount>>
Life(o) == INSTANCE EscrowLife WITH
  Terms <- Users \X Users \X (1..MaxBalance), NoTerms <- <<>>,
  status <- EscrowStatus(o), terms <- EscrowTerms(o)

\* For each order the payment operations implement the life of an escrow that
\* EscrowLife promises (\A o \in Orders : Life(o)!Spec, in the form TLC takes):
\* one row, whose parties and amount never change, settled at most once although
\* operations of two code paths can settle it.
EscrowLivesOnce ==
  /\ \A o \in Orders : Life(o)!Init
  /\ [][\A o \in Orders : [Life(o)!Next]_<<EscrowStatus(o), EscrowTerms(o)>>]_vars

\* FOREIGN KEY (order_id): a deleted order has no escrow row.
DeletedHasNoEscrow == \A o \in Orders \ orders : escrow[o] = NoEscrow

=============================================================================
