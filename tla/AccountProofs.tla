---------------------------- MODULE AccountProofs ----------------------------
(***************************************************************************)
(* What concerns one account: its codes, for any number of concurrent      *)
(* requests and any limits and times (Verification), its works and photos, *)
(* however many (Portfolio), and its unread notifications in any number of *)
(* tabs (UnreadBadge).                                                     *)
(***************************************************************************)
EXTENDS Verification, Portfolio, UnreadBadge, SequenceTheorems, FiniteSetTheorems, TLAPS

Row == [created : Nat, expires : Nat, attempts : Nat, used : BOOLEAN]

Sends ==
  [pc : {"idle", "target", "clock", "cooled", "counted", "creating", "sending"},
   at : 0..MaxTime, began : 0..MaxTime, view : SUBSET Ids, row : Nat]
Verifies == [pc : {"idle", "locking"}, view : SUBSET Ids]

\* TypeOK without the limit of the attempts, which CodeIsScarce needs.
Types ==
  /\ now \in 0..MaxTime
  /\ verified \in BOOLEAN
  /\ codes \in Seq(Row)
  /\ send \in [Senders -> Sends]
  /\ \A s \in Senders : send[s].pc = "sending" => send[s].row \in Ids
  /\ verify \in [Verifiers -> Verifies]
  /\ fate \in Seq(Fate) /\ Len(fate) = Len(codes)

-----------------------------------------------------------------------------
(***************************************************************************)
(* What a step may do to the rows.                                         *)
(***************************************************************************)

\* A row is used or tried; everything else about it stays.
RowChanged(i, c, f) ==
  /\ codes' = [codes EXCEPT ![i] = c]
  /\ fate' = [fate EXCEPT ![i] = f]
  /\ c.created = codes[i].created /\ c.expires = codes[i].expires
  /\ codes[i].used => c.used
  /\ f.by = fate[i].by

\* The number of rows and what identifies them.
SameRows ==
  /\ Ids' = Ids
  /\ \A i \in Ids : /\ codes'[i].created = codes[i].created
                    /\ codes'[i].expires = codes[i].expires
                    /\ codes[i].used => codes'[i].used
                    /\ fate'[i].by = fate[i].by

\* What CommitCreate does to the rows, one by one.
RowAdded(s) ==
  LET new == Len(codes) + 1
  IN  /\ Ids' = Ids \cup {new} /\ new \notin Ids
      /\ \A i \in Ids : /\ codes'[i].created = codes[i].created
                        /\ codes'[i].expires = codes[i].expires
                        /\ codes'[i].attempts = codes[i].attempts
                        /\ codes'[i].used = (codes[i].used \/ i \in send[s].view)
                        /\ fate'[i] = fate[i]
      /\ codes'[new] = [created |-> send[s].began, expires |-> send[s].at + CodeTTL,
                        attempts |-> 0, used |-> FALSE]
      /\ fate'[new] = [by |-> s, wrong |-> 0, right |-> 0]

\* The rows and their fates are numbered alike.
LEMMA IdsAre == Types => Ids = 1..Len(codes) /\ Ids = 1..Len(fate) /\ Len(codes) \in Nat
BY LenProperties DEF Types, Ids

\* What a step that rewrites one row leaves of both sequences.
LEMMA RowChange ==
  ASSUME Types, NEW i \in Ids, NEW c \in Row, NEW f \in Fate, RowChanged(i, c, f)
  PROVE  /\ codes' \in Seq(Row) /\ fate' \in Seq(Fate)
         /\ Len(fate') = Len(codes')
         /\ SameRows
         /\ \A j \in Ids : /\ codes'[j] = IF j = i THEN c ELSE codes[j]
                           /\ fate'[j] = IF j = i THEN f ELSE fate[j]
<1>1. i \in 1..Len(codes) /\ i \in 1..Len(fate) /\ codes \in Seq(Row) /\ fate \in Seq(Fate)
  BY IdsAre DEF Types
<1>2. /\ codes' \in Seq(Row) /\ Len(codes') = Len(codes)
      /\ \A j \in 1..Len(codes) : codes'[j] = IF j = i THEN c ELSE codes[j]
  BY <1>1, ExceptSeq DEF RowChanged
<1>3. /\ fate' \in Seq(Fate) /\ Len(fate') = Len(fate)
      /\ \A j \in 1..Len(fate) : fate'[j] = IF j = i THEN f ELSE fate[j]
  BY <1>1, ExceptSeq DEF RowChanged
<1>4. Ids = 1..Len(codes) /\ Ids = 1..Len(fate) /\ Len(fate) = Len(codes)
  BY IdsAre DEF Types
<1>5. Ids' = Ids
  BY <1>2, <1>4, LenProperties DEF Ids
<1>6. \A j \in Ids : /\ codes'[j] = IF j = i THEN c ELSE codes[j]
                     /\ fate'[j] = IF j = i THEN f ELSE fate[j]
  BY <1>2, <1>3, <1>4
<1>7. SameRows
  BY <1>5, <1>6 DEF SameRows, RowChanged
<1> QED
  BY <1>2, <1>3, <1>4, <1>6, <1>7

\* CommitCreate appends one row and its fate and may only switch others off.
LEMMA RowAdding ==
  ASSUME Types, NEW s \in Senders, CommitCreate(s)
  PROVE  /\ codes' \in Seq(Row) /\ fate' \in Seq(Fate)
         /\ Len(fate') = Len(codes')
         /\ RowAdded(s)
<1> DEFINE old == [i \in Ids |-> [codes[i] EXCEPT !.used = @ \/ i \in send[s].view]]
           c == [created |-> send[s].began, expires |-> send[s].at + CodeTTL,
                 attempts |-> 0, used |-> FALSE]
           f == [by |-> s, wrong |-> 0, right |-> 0]
<1>1. Ids = 1..Len(codes) /\ Ids = 1..Len(fate) /\ Len(codes) \in Nat
  BY IdsAre
<1>2. \A i \in Ids : codes[i] \in Row
  BY <1>1, ElementOfSeq DEF Types
<1>3. \A i \in Ids : [codes[i] EXCEPT !.used = @ \/ i \in send[s].view] \in Row
  <2> SUFFICES ASSUME NEW i \in Ids
               PROVE  [codes[i] EXCEPT !.used = @ \/ i \in send[s].view] \in Row
    OBVIOUS
  <2>1. codes[i] \in Row
    BY <1>2
  <2>2. (codes[i].used \/ i \in send[s].view) \in BOOLEAN
    OBVIOUS
  <2> QED
    BY <2>1, <2>2 DEF Row
<1>4. old \in [1..Len(codes) -> Row]
  BY <1>1, <1>3
<1>5. old \in Seq(Row) /\ Len(old) = Len(codes)
  BY <1>1, <1>4
<1>6. c \in Row
  <2>1. send[s] \in Sends /\ CodeTTL \in Nat /\ MaxTime \in Nat
    BY VerificationAssumption DEF Types
  <2>2. send[s].began \in Nat /\ send[s].at + CodeTTL \in Nat
    BY <2>1 DEF Sends
  <2> QED
    BY <2>2 DEF Row
<1>7. f \in Fate
  BY DEF Fate
<1>8. codes' = Append(old, c) /\ fate' = Append(fate, f)
  BY DEF CommitCreate
<1>9. fate \in Seq(Fate) /\ Len(fate) = Len(codes)
  BY DEF Types
<1> HIDE DEF c, f
<1>10. /\ codes' \in Seq(Row) /\ Len(codes') = Len(codes) + 1
       /\ \A i \in 1..Len(codes) : codes'[i] = old[i]
       /\ codes'[Len(codes) + 1] = c
  <2> HIDE DEF old
  <2> QED
    BY <1>5, <1>6, <1>8, AppendProperties
<1>11. /\ fate' \in Seq(Fate) /\ Len(fate') = Len(codes) + 1
       /\ \A i \in 1..Len(codes) : fate'[i] = fate[i]
       /\ fate'[Len(codes) + 1] = f
  BY <1>7, <1>8, <1>9, AppendProperties
<1>12. Ids' = 1..(Len(codes) + 1)
  BY <1>10, LenProperties DEF Ids
<1>13. Ids' = Ids \cup {Len(codes) + 1} /\ Len(codes) + 1 \notin Ids
  BY <1>1, <1>12
<1>14. \A i \in Ids : codes'[i] = [codes[i] EXCEPT !.used = @ \/ i \in send[s].view]
  BY <1>1, <1>10
<1>15. \A i \in Ids : /\ codes'[i].created = codes[i].created
                      /\ codes'[i].expires = codes[i].expires
                      /\ codes'[i].attempts = codes[i].attempts
                      /\ codes'[i].used = (codes[i].used \/ i \in send[s].view)
  BY <1>2, <1>14 DEF Row
<1> QED
  BY <1>1, <1>10, <1>11, <1>13, <1>15 DEF RowAdded, c, f

-----------------------------------------------------------------------------
(***************************************************************************)
(* The steps, as far as the rows are concerned.                            *)
(***************************************************************************)

\* The new row of a comparison, and what becomes of its fate.
Compared(i, right) ==
  [codes[i] EXCEPT !.used = IF right THEN TRUE ELSE @ \/ codes[i].attempts + 1 >= MaxTries,
                   !.attempts = codes[i].attempts + 1]
Fated(i, right) ==
  IF right THEN [fate[i] EXCEPT !.right = @ + 1] ELSE [fate[i] EXCEPT !.wrong = @ + 1]

\* Compare changes the one row it locked, within its types.
LEMMA Comparison ==
  ASSUME Types, NEW i \in Ids, NEW right \in BOOLEAN, Compare(i, right)
  PROVE  /\ Compared(i, right) \in Row /\ Fated(i, right) \in Fate
         /\ RowChanged(i, Compared(i, right), Fated(i, right))
<1>1. codes[i] \in Row /\ fate[i] \in Fate
  BY IdsAre, ElementOfSeq DEF Types
<1>2. /\ codes' = [codes EXCEPT ![i] = Compared(i, right)]
      /\ fate' = [fate EXCEPT ![i] = Fated(i, right)]
  <2>1. CASE right
    BY <1>1, <2>1 DEF Compare, Compared, Fated, Row, Fate
  <2>2. CASE ~right
    BY <1>1, <2>2 DEF Compare, Compared, Fated, Row, Fate
  <2> QED
    BY <2>1, <2>2
<1>3. MaxTries \in Nat
  BY VerificationAssumption
<1>4. Compared(i, right) \in Row
  <2> DEFINE u == IF right THEN TRUE ELSE codes[i].used \/ codes[i].attempts + 1 >= MaxTries
             a == codes[i].attempts + 1
  <2>1. u \in BOOLEAN
    OBVIOUS
  <2>2. a \in Nat
    BY <1>1 DEF Row
  <2>3. Compared(i, right) = [codes[i] EXCEPT !.used = u, !.attempts = a]
    BY <1>1 DEF Compared, Row
  <2> HIDE DEF u, a
  <2> QED
    BY <1>1, <2>1, <2>2, <2>3 DEF Row
<1>5. Fated(i, right) \in Fate
  BY <1>1 DEF Fated, Fate
<1>6. /\ Compared(i, right).created = codes[i].created
      /\ Compared(i, right).expires = codes[i].expires
      /\ codes[i].used => Compared(i, right).used
  BY <1>1 DEF Compared, Row
<1>7. Fated(i, right).by = fate[i].by
  BY <1>1 DEF Fated, Fate
<1> QED
  BY <1>2, <1>4, <1>5, <1>6, <1>7 DEF RowChanged

\* MarkCodeUsed changes the row the sender made, and only its used flag.
LEMMA Marking ==
  ASSUME Types, NEW s \in Senders, MarkCodeUsed(s)
  PROVE  LET i == send[s].row
             c == [codes[i] EXCEPT !.used = TRUE]
         IN  i \in Ids /\ c \in Row /\ fate[i] \in Fate /\ RowChanged(i, c, fate[i])
<1> DEFINE i == send[s].row
           c == [codes[i] EXCEPT !.used = TRUE]
<1>1. i \in Ids
  BY DEF Types, MarkCodeUsed
<1>2. codes[i] \in Row /\ fate[i] \in Fate /\ fate \in [Ids -> Fate]
  BY <1>1, IdsAre, ElementOfSeq, LenProperties DEF Types
<1>3. c \in Row /\ c.created = codes[i].created /\ c.expires = codes[i].expires /\ c.used
  BY <1>2 DEF Row
<1>4. codes' = [codes EXCEPT ![i] = c]
  BY DEF MarkCodeUsed
<1>5. fate' = [fate EXCEPT ![i] = fate[i]]
  BY <1>2 DEF MarkCodeUsed
<1> QED
  BY <1>1, <1>2, <1>3, <1>4, <1>5 DEF RowChanged

\* The steps that leave all the rows alone.
Quiet(s) ==
  \/ ReadTarget(s) \/ ReadClock(s) \/ GetLastCodeCreatedAt(s)
  \/ CountCodesCreatedSince(s) \/ BeginCreate(s) \/ SendEnds(s)

QuietStep ==
  \/ Tick
  \/ \E s \in Senders : Quiet(s)
  \/ \E v \in Verifiers : BeginVerify(v) \/ VerifyEnds(v)
  \/ UNCHANGED vars

\* A step leaves the rows alone, sends, marks as failed, or compares a code.
LEMMA Steps ==
  [Next]_vars => \/ QuietStep
                 \/ \E s \in Senders : CommitCreate(s) \/ MarkCodeUsed(s)
                 \/ \E v \in Verifiers : Check(v)
BY DEF Next, QuietStep, Quiet

\* The quiet steps change no row.
LEMMA QuietKeepsRows ==
  ASSUME QuietStep
  PROVE  UNCHANGED <<codes, fate>>
BY DEF QuietStep, Quiet, Tick, ReadTarget, ReadClock, GetLastCodeCreatedAt,
       CountCodesCreatedSince, BeginCreate, SendEnds, BeginVerify, VerifyEnds, vars

-----------------------------------------------------------------------------
(***************************************************************************)
(* Types                                                                   *)
(***************************************************************************)

LEMMA Constants ==
  /\ CodeTTL \in Nat /\ CodeTTL > 0 /\ Cooldown \in Nat /\ Cooldown > 0
  /\ Hour \in Nat /\ Hour > 0 /\ MaxSends \in Nat /\ MaxSends > 0
  /\ MaxTries \in Nat /\ MaxTries > 0 /\ MaxTime \in Nat /\ MaxTime > 0
BY VerificationAssumption

\* The initial state is well typed.
LEMMA TypesInit == Init => Types
<1> SUFFICES ASSUME Init PROVE Types
  OBVIOUS
<1>1. now \in 0..MaxTime
  BY Constants DEF Init
<1>6. verified \in BOOLEAN
  BY DEF Init
<1>2. codes \in Seq(Row) /\ fate \in Seq(Fate) /\ Len(fate) = Len(codes)
  BY DEF Init
<1>3. send \in [Senders -> Sends]
  <2>1. SIdle \in Sends
    BY VerificationAssumption DEF SIdle, Sends
  <2> QED
    BY <2>1 DEF Init
<1>4. \A s \in Senders : send[s].pc # "sending"
  BY DEF Init, SIdle
<1>5. verify \in [Verifiers -> Verifies]
  BY DEF Init, VIdle, Verifies
<1> QED
  BY <1>1, <1>2, <1>3, <1>4, <1>5, <1>6 DEF Types

\* No step removes a row.
LEMMA IdsGrow ==
  ASSUME Types, [Next]_vars
  PROVE  /\ codes' \in Seq(Row) /\ fate' \in Seq(Fate) /\ Len(fate') = Len(codes')
         /\ Ids \subseteq Ids'
<1>1. CASE QuietStep
  BY <1>1, QuietKeepsRows DEF Types, Ids
<1>2. CASE \E s \in Senders : CommitCreate(s)
  BY <1>2, RowAdding DEF RowAdded
<1>3. CASE \E s \in Senders : MarkCodeUsed(s)
  BY <1>3, Marking, RowChange DEF SameRows
<1>4. CASE \E v \in Verifiers : Check(v)
  <2>1. PICK v \in Verifiers : Check(v)
    BY <1>4
  <2>2. PICK i \in Newest({j \in verify[v].view : ~codes[j].used}), right \in BOOLEAN : Compare(i, right)
    BY <2>1 DEF Check
  <2>3. i \in Ids
    BY <2>2 DEF Newest, Types, Verifies
  <2> QED
    BY <2>2, <2>3, Comparison, RowChange DEF SameRows
<1> QED
  BY <1>1, <1>2, <1>3, <1>4, Steps

\* Every step keeps the types and each sender's row in place.
LEMMA TypesStep == Types /\ [Next]_vars => Types'
<1> SUFFICES ASSUME Types, [Next]_vars PROVE Types'
  OBVIOUS
<1>1. /\ codes' \in Seq(Row) /\ fate' \in Seq(Fate) /\ Len(fate') = Len(codes')
      /\ Ids \subseteq Ids'
  BY IdsGrow
<1>2. now' \in 0..MaxTime
  <2>1. CASE Tick
    BY <2>1, Constants DEF Tick, Types
  <2>2. CASE UNCHANGED now
    BY <2>2 DEF Types
  <2> QED
    BY <2>1, <2>2 DEF Next, vars, ReadTarget, ReadClock, GetLastCodeCreatedAt,
      CountCodesCreatedSince, BeginCreate, CommitCreate, MarkCodeUsed, SendEnds,
      BeginVerify, Check, VerifyEnds
<1>3. verified' \in BOOLEAN
  BY DEF Types, Next, vars, Tick, ReadTarget, ReadClock,
    GetLastCodeCreatedAt, CountCodesCreatedSince, BeginCreate, CommitCreate,
    MarkCodeUsed, SendEnds, BeginVerify, Check, VerifyEnds, Compare
<1>4. SIdle \in Sends
  BY VerificationAssumption DEF SIdle, Sends
<1>5. /\ send' \in [Senders -> Sends']
      /\ \A s \in Senders : send'[s].pc = "sending" => send'[s].row \in Ids'
  <2>1. Sends \subseteq Sends'
    BY <1>1 DEF Sends
  <2>2. CASE UNCHANGED send
    BY <1>1, <2>1, <2>2 DEF Types
  <2>3. CASE \E s \in Senders : Quiet(s)
    <3>1. PICK s \in Senders : Quiet(s)
      BY <2>3
    <3>2. send[s] \in Sends /\ Active \subseteq Ids /\ now \in 0..MaxTime
      BY DEF Types, Active
    <3>3. PICK x \in Sends : send' = [send EXCEPT ![s] = x] /\ x.pc # "sending"
      <4>1. CASE ReadClock(s)
        <5> DEFINE x == [send[s] EXCEPT !.pc = "clock", !.at = now]
        <5>1. x \in Sends /\ x.pc # "sending"
          BY <3>2 DEF Sends
        <5>2. send' = [send EXCEPT ![s] = x]
          BY <4>1 DEF ReadClock
        <5> QED
          BY <5>1, <5>2
      <4>2. CASE BeginCreate(s)
        <5> DEFINE x == [send[s] EXCEPT !.pc = "creating", !.began = now, !.view = Active]
        <5>1. x \in Sends /\ x.pc # "sending"
          BY <3>2 DEF Sends
        <5>2. send' = [send EXCEPT ![s] = x]
          BY <4>2 DEF BeginCreate
        <5> QED
          BY <5>1, <5>2
      <4>3. CASE SendEnds(s)
        BY <4>3, <1>4 DEF SendEnds, SIdle
      <4>4. CASE ReadTarget(s) \/ GetLastCodeCreatedAt(s) \/ CountCodesCreatedSince(s)
        BY <4>4, <3>2 DEF ReadTarget, GetLastCodeCreatedAt, CountCodesCreatedSince, Goto, Sends
      <4> QED
        BY <3>1, <4>1, <4>2, <4>3, <4>4 DEF Quiet
    <3> QED
      BY <1>1, <2>1, <3>3 DEF Types
  <2>4. CASE \E s \in Senders : CommitCreate(s)
    <3>1. PICK s \in Senders : CommitCreate(s)
      BY <2>4
    <3> DEFINE x == [SIdle EXCEPT !.pc = "sending", !.row = Len(codes) + 1]
    <3>2. x \in Sends /\ x.row = Len(codes) + 1
      <4>1. Len(codes) + 1 \in Nat
        BY IdsAre
      <4> QED
        BY <1>4, <4>1 DEF Sends, SIdle
    <3>3. send' = [send EXCEPT ![s] = x]
      BY <3>1 DEF CommitCreate
    <3>4. Len(codes) + 1 \in Ids'
      BY <3>1, RowAdding DEF RowAdded
    <3> HIDE DEF x
    <3> QED
      BY <1>1, <2>1, <3>2, <3>3, <3>4 DEF Types
  <2>5. CASE \E s \in Senders : MarkCodeUsed(s)
    BY <1>1, <1>4, <2>1, <2>5 DEF MarkCodeUsed, Types, SIdle
  <2> QED
    BY <2>2, <2>3, <2>4, <2>5, Steps
       DEF QuietStep, Tick, BeginVerify, VerifyEnds, Check, vars
<1>6. verify' \in [Verifiers -> Verifies']
  <2>1. Verifies \subseteq Verifies'
    BY <1>1 DEF Verifies
  <2>2. VIdle \in Verifies
    BY DEF VIdle, Verifies
  <2>3. [pc |-> "locking", view |-> Active] \in Verifies
    BY DEF Verifies, Active
  <2>4. CASE UNCHANGED verify
    BY <2>1, <2>4 DEF Types
  <2>5. CASE \E v \in Verifiers : BeginVerify(v) \/ VerifyEnds(v) \/ Check(v)
    BY <2>1, <2>2, <2>3, <2>5 DEF Types, BeginVerify, VerifyEnds, Check
  <2> QED
    BY <2>4, <2>5 DEF Next, vars, Tick, ReadTarget, ReadClock, GetLastCodeCreatedAt,
      CountCodesCreatedSince, BeginCreate, CommitCreate, MarkCodeUsed, SendEnds
<1> QED
  BY <1>1, <1>2, <1>3, <1>5, <1>6 DEF Types

-----------------------------------------------------------------------------
(***************************************************************************)
(* The comparisons.                                                        *)
(***************************************************************************)

\* An unused code has tries left and was never accepted.
Scarce(i) ==
  /\ codes[i].attempts = fate[i].wrong + fate[i].right
  /\ codes[i].attempts <= MaxTries /\ fate[i].right <= 1
  /\ ~codes[i].used => codes[i].attempts < MaxTries /\ fate[i].right = 0

AllScarce == \A i \in Ids : Scarce(i)

\* A row and its fate have their types.
LEMMA RowTypes ==
  ASSUME Types, NEW i \in Ids
  PROVE  codes[i] \in Row /\ fate[i] \in Fate
BY IdsAre, ElementOfSeq DEF Types

\* No step lets a row be compared too often or accepted twice.
LEMMA ScarceStep == Types /\ AllScarce /\ [Next]_vars => AllScarce'
<1> SUFFICES ASSUME Types, AllScarce, [Next]_vars PROVE AllScarce'
  OBVIOUS
<1>1. CASE QuietStep
  BY <1>1, QuietKeepsRows DEF AllScarce, Scarce, Ids
<1>2. CASE \E s \in Senders : CommitCreate(s)
  <2>1. PICK s \in Senders : RowAdded(s)
    BY <1>2, RowAdding
  <2>2. ASSUME NEW i \in Ids PROVE Scarce(i)'
    BY <2>1 DEF RowAdded, AllScarce, Scarce
  <2>3. PICK n : /\ Ids' = Ids \cup {n}
                 /\ codes'[n].attempts = 0 /\ fate'[n].wrong = 0 /\ fate'[n].right = 0
    BY <2>1 DEF RowAdded
  <2>4. Scarce(n)'
    BY <2>3, Constants DEF Scarce
  <2> QED
    BY <2>2, <2>3, <2>4 DEF AllScarce
<1>3. CASE \E s \in Senders : MarkCodeUsed(s)
  <2>1. PICK s \in Senders : MarkCodeUsed(s)
    BY <1>3
  <2> DEFINE k == send[s].row
             c == [codes[k] EXCEPT !.used = TRUE]
  <2>2. /\ k \in Ids /\ c \in Row /\ fate[k] \in Fate /\ RowChanged(k, c, fate[k])
    BY <2>1, Marking
  <2>3. /\ Ids' = Ids
        /\ \A j \in Ids : /\ codes'[j] = IF j = k THEN c ELSE codes[j]
                          /\ fate'[j] = IF j = k THEN fate[k] ELSE fate[j]
    BY <2>2, RowChange DEF SameRows
  <2>4. c.attempts = codes[k].attempts /\ c.used
    BY <2>2, RowTypes DEF Row
  <2> HIDE DEF c
  <2> QED
    BY <2>3, <2>4 DEF AllScarce, Scarce
<1>4. CASE \E v \in Verifiers : Check(v)
  <2>1. PICK v \in Verifiers : Check(v)
    BY <1>4
  <2>2. PICK k \in Newest({j \in verify[v].view : ~codes[j].used}), right \in BOOLEAN : Compare(k, right)
    BY <2>1 DEF Check
  <2>3. k \in Ids /\ ~codes[k].used
    BY <2>2 DEF Newest, Types, Verifies
  <2> DEFINE c == Compared(k, right)
             f == Fated(k, right)
  <2>4. c \in Row /\ f \in Fate /\ RowChanged(k, c, f)
    BY <2>2, <2>3, Comparison
  <2>5. /\ Ids' = Ids
        /\ \A j \in Ids : /\ codes'[j] = IF j = k THEN c ELSE codes[j]
                          /\ fate'[j] = IF j = k THEN f ELSE fate[j]
    BY <2>3, <2>4, RowChange DEF SameRows
  <2>6. codes[k] \in Row /\ fate[k] \in Fate /\ Scarce(k)
    BY <2>3, RowTypes DEF AllScarce
  <2>7. CASE right
    <3>1. /\ c.attempts = codes[k].attempts + 1 /\ c.used
          /\ f.wrong = fate[k].wrong /\ f.right = fate[k].right + 1
      BY <2>6, <2>7 DEF Compared, Fated, Row, Fate
    <3>2. Scarce(k)'
      <4> HIDE DEF c, f
      <4> QED
        BY <2>3, <2>5, <2>6, <3>1, Constants DEF Scarce, Row, Fate
    <3> QED
      BY <2>5, <3>2 DEF AllScarce, Scarce
  <2>8. CASE ~right
    <3>1. /\ c.attempts = codes[k].attempts + 1
          /\ ~c.used => ~(codes[k].attempts + 1 >= MaxTries)
          /\ f.wrong = fate[k].wrong + 1 /\ f.right = fate[k].right
      BY <2>6, <2>8 DEF Compared, Fated, Row, Fate
    <3>2. Scarce(k)'
      <4> HIDE DEF c, f
      <4> QED
        BY <2>3, <2>5, <2>6, <3>1, Constants DEF Scarce, Row, Fate
    <3> QED
      BY <2>5, <3>2 DEF AllScarce, Scarce
  <2> QED
    BY <2>7, <2>8
<1> QED
  BY <1>1, <1>2, <1>3, <1>4, Steps

\* No two requests, however they interleave, compare a code more often than
\* its tries allow or accept it twice (VerifyCode's lock and its second look).
THEOREM CodesAreScarce == Spec => []CodeIsScarce
<1>1. Init => Types /\ AllScarce
  BY TypesInit DEF Init, AllScarce, Ids
<1>2. Types /\ AllScarce /\ [Next]_vars => (Types /\ AllScarce)'
  BY TypesStep, ScarceStep
<1>3. Types /\ AllScarce => CodeIsScarce
  BY RowTypes DEF AllScarce, Scarce, CodeIsScarce
<1> QED
  BY <1>1, <1>2, <1>3, PTL DEF Spec

\* The rows and the requests keep their types, the attempts their limit.
THEOREM TypeCorrect == Spec => []TypeOK
<1>1. Init => Types /\ AllScarce
  BY TypesInit DEF Init, AllScarce, Ids
<1>2. Types /\ AllScarce /\ [Next]_vars => (Types /\ AllScarce)'
  BY TypesStep, ScarceStep
<1>3. Types /\ AllScarce => TypeOK
  <2> SUFFICES ASSUME Types, AllScarce PROVE TypeOK
    OBVIOUS
  <2>1. \A i \in 1..Len(codes) : codes[i] \in Code
    BY IdsAre, RowTypes, Constants DEF AllScarce, Scarce, Row, Code
  <2>2. codes \in Seq(Code)
    BY <2>1, LenProperties DEF Types
  <2> QED
    BY <2>2 DEF Types, TypeOK, Sends, Verifies
<1> QED
  BY <1>1, <1>2, <1>3, PTL DEF Spec

-----------------------------------------------------------------------------
(***************************************************************************)
(* The limits.  A request that has passed a check may still insert a code  *)
(* however late: so it is counted together with the codes.                 *)
(***************************************************************************)

Window(d) == CreatedSince(now - d)

Passed(pcs) == {s \in Senders : At(s, pcs)}

Cooled == {"cooled", "counted", "creating"}
Counted == {"counted", "creating"}

Limited ==
  /\ \A s \in Senders : send[s].at <= now
  /\ Cardinality(Window(Hour)) + Cardinality(Passed(Counted))
       <= MaxSends - 1 + Cardinality(Senders)
  /\ Cardinality(Window(Cooldown - 1)) + Cardinality(Passed(Cooled))
       <= Cardinality(Senders)

\* The sets the limits count are finite, the requests on their way no more than N.
LEMMA FiniteSets_ ==
  ASSUME Types, NEW t, NEW pcs
  PROVE  /\ IsFiniteSet(CreatedSince(t)) /\ Cardinality(CreatedSince(t)) \in Nat
         /\ IsFiniteSet(Passed(pcs)) /\ Cardinality(Passed(pcs)) \in Nat
         /\ Cardinality(Passed(pcs)) <= Cardinality(Senders)
         /\ Cardinality(Senders) \in Nat
<1>1. IsFiniteSet(Ids)
  BY IdsAre, FS_Interval
<1>2. CreatedSince(t) \subseteq Ids /\ Passed(pcs) \subseteq Senders
  BY DEF CreatedSince, Passed
<1> QED
  BY <1>1, <1>2, FS_Subset, FS_CardinalityType, VerificationAssumption

\* How a step may change what a sender has passed.
SenderMoved(s) ==
  /\ send'[s].at \in {send[s].at, now, 0}
  /\ send'[s].pc = "creating" => send[s].pc \in {"counted", "creating"}
  /\ send'[s].pc = "counted" => send[s].pc = "counted" \/ CountCodesCreatedSince(s)
  /\ send'[s].pc = "cooled" => send[s].pc = "cooled" \/ GetLastCodeCreatedAt(s)
  /\ CommitCreate(s) => send[s].pc = "creating" /\ send'[s].pc = "sending"

\* The ways in which a step moves a request that sends.
LEMMA SenderSteps ==
  ASSUME Types, [Next]_vars, NEW s \in Senders
  PROVE  SenderMoved(s)
<1>1. send \in [Senders -> Sends] /\ send[s] \in Sends
  BY DEF Types
<1>2. CASE UNCHANGED send
  BY <1>2 DEF SenderMoved, CommitCreate, SIdle, Types
<1>3. ASSUME NEW r \in Senders, Quiet(r) PROVE SenderMoved(s)
  <2>1. ~CommitCreate(s)
    BY <1>1, <1>3, QuietKeepsRows, RowAdding DEF QuietStep, RowAdded, Ids
  <2>2. send[r] \in Sends
    BY <1>1
  <2> DEFINE Others == \A q \in Senders : q # r => send'[q] = send[q]
             Me(pc, at) == send'[r].pc = pc /\ send'[r].at = at
  <2>3. CASE ReadTarget(r)
    <3>1. Others /\ Me("target", send[r].at)
      BY <1>1, <2>2, <2>3 DEF ReadTarget, Goto, Sends
    <3> QED
      BY <2>1, <3>1 DEF SenderMoved
  <2>4. CASE ReadClock(r)
    <3>1. Others /\ Me("clock", now)
      BY <1>1, <2>2, <2>4 DEF ReadClock, Sends
    <3> QED
      BY <2>1, <3>1 DEF SenderMoved
  <2>5. CASE GetLastCodeCreatedAt(r)
    <3>1. Others /\ Me("cooled", send[r].at)
      BY <1>1, <2>2, <2>5 DEF GetLastCodeCreatedAt, Goto, Sends
    <3> QED
      BY <2>1, <2>5, <3>1 DEF SenderMoved
  <2>6. CASE CountCodesCreatedSince(r)
    <3>1. Others /\ Me("counted", send[r].at)
      BY <1>1, <2>2, <2>6 DEF CountCodesCreatedSince, Goto, Sends
    <3> QED
      BY <2>1, <2>6, <3>1 DEF SenderMoved
  <2>7. CASE BeginCreate(r)
    <3>1. Others /\ Me("creating", send[r].at) /\ send[r].pc = "counted"
      BY <1>1, <2>2, <2>7 DEF BeginCreate, Sends
    <3> QED
      BY <2>1, <3>1 DEF SenderMoved
  <2>8. CASE SendEnds(r)
    <3>1. Others /\ Me("idle", 0)
      BY <1>1, <2>8 DEF SendEnds, SIdle
    <3> QED
      BY <2>1, <3>1 DEF SenderMoved
  <2> QED
    BY <1>3, <2>3, <2>4, <2>5, <2>6, <2>7, <2>8 DEF Quiet
<1>4. ASSUME NEW r \in Senders, CommitCreate(r) PROVE SenderMoved(s)
  <2> DEFINE x == [SIdle EXCEPT !.pc = "sending", !.row = Len(codes) + 1]
  <2>1. x.at = 0 /\ x.pc = "sending"
    BY DEF SIdle
  <2>2. send' = [send EXCEPT ![r] = x] /\ send[r].pc = "creating"
    BY <1>4 DEF CommitCreate
  <2>3. CommitCreate(s) => send[s].pc = "creating" /\ send'[s] = [SIdle EXCEPT !.pc = "sending", !.row = Len(codes) + 1]
    BY <1>1 DEF CommitCreate
  <2>4. CommitCreate(s) => send[s].pc = "creating" /\ send'[s].pc = "sending"
    BY <2>3 DEF SIdle
  <2> HIDE DEF x
  <2> QED
    BY <1>1, <2>1, <2>2, <2>4 DEF SenderMoved
<1>5. ASSUME NEW r \in Senders, MarkCodeUsed(r) PROVE SenderMoved(s)
  <2>1. ~CommitCreate(s)
    BY <1>5, Marking, RowChange, RowAdding DEF SameRows, RowAdded
  <2>2. send' = [send EXCEPT ![r] = SIdle] /\ SIdle.at = 0 /\ SIdle.pc = "idle"
    BY <1>5 DEF MarkCodeUsed, SIdle
  <2> QED
    BY <1>1, <2>1, <2>2 DEF SenderMoved
<1> QED
  BY <1>2, <1>3, <1>4, <1>5, Steps
     DEF QuietStep, Tick, BeginVerify, VerifyEnds, Check, vars

\* The clock never goes back behind what a request has read.
LEMMA ClockStep ==
  ASSUME Types, [Next]_vars, \A s \in Senders : send[s].at <= now
  PROVE  /\ now' >= now
         /\ \A s \in Senders : send'[s].at <= now'
<1>1. now \in Nat /\ \A s \in Senders : send[s] \in Sends
  BY Constants DEF Types
<1>2. now' >= now
  <2>1. CASE Tick
    BY <1>1, <2>1 DEF Tick
  <2>2. CASE UNCHANGED now
    BY <1>1, <2>2
  <2> QED
    BY <2>1, <2>2 DEF Next, vars, ReadTarget, ReadClock, GetLastCodeCreatedAt,
      CountCodesCreatedSince, BeginCreate, CommitCreate, MarkCodeUsed, SendEnds,
      BeginVerify, Check, VerifyEnds
<1>3. now' \in Nat
  BY TypesStep, Constants DEF Types
<1>4. ASSUME NEW s \in Senders PROVE send'[s].at <= now'
  <2>1. send[s].at \in Int /\ send[s].at <= now
    BY <1>1, Constants DEF Sends
  <2> QED
    BY <1>1, <1>2, <1>3, <2>1, SenderSteps DEF SenderMoved
<1> QED
  BY <1>2, <1>4

\* Only an insertion adds to the codes of a window, and only one.
LEMMA WindowStep ==
  ASSUME Types, [Next]_vars, \A s \in Senders : send[s].at <= now, NEW d \in Int
  PROVE  /\ (\A s \in Senders : ~CommitCreate(s)) => Window(d)' \subseteq Window(d)
         /\ \E n : Window(d)' \subseteq Window(d) \cup {n}
<1>1. now' >= now /\ now \in Int /\ now' \in Int
  BY ClockStep, TypesStep, Constants DEF Types
<1>2. \A i \in Ids : codes[i].created \in Int
  BY RowTypes DEF Row
<1>3. ASSUME SameRows PROVE Window(d)' \subseteq Window(d)
  BY <1>1, <1>2, <1>3 DEF SameRows, Window, CreatedSince
<1>4. CASE \A s \in Senders : ~CommitCreate(s)
  <2>1. SameRows
    <3>1. CASE QuietStep
      BY <3>1, QuietKeepsRows DEF SameRows, Ids
    <3>2. CASE \E s \in Senders : MarkCodeUsed(s)
      BY <3>2, Marking, RowChange
    <3>3. CASE \E v \in Verifiers : Check(v)
      <4>1. PICK v \in Verifiers : Check(v)
        BY <3>3
      <4>2. PICK k \in Newest({j \in verify[v].view : ~codes[j].used}), right \in BOOLEAN : Compare(k, right)
        BY <4>1 DEF Check
      <4>3. k \in Ids
        BY <4>2 DEF Newest, Types, Verifies
      <4> QED
        BY <4>2, <4>3, Comparison, RowChange
    <3> QED
      BY <1>4, <3>1, <3>2, <3>3, Steps
  <2> QED
    BY <1>3, <2>1
<1>5. CASE \E s \in Senders : CommitCreate(s)
  <2>1. PICK s \in Senders : RowAdded(s)
    BY <1>5, RowAdding
  <2>2. PICK n : /\ Ids' = Ids \cup {n}
                 /\ \A i \in Ids : codes'[i].created = codes[i].created
    BY <2>1 DEF RowAdded
  <2>3. Window(d)' \subseteq Window(d) \cup {n}
    BY <1>1, <1>2, <2>2 DEF Window, CreatedSince
  <2> QED
    BY <1>5, <2>3
<1> QED
  BY <1>4, <1>5

\* A step without a check being passed: what is counted does not grow.
LEMMA CountedStep ==
  ASSUME Types, [Next]_vars, \A s \in Senders : send[s].at <= now,
         NEW d \in Int, NEW pcs, "creating" \in pcs, "sending" \notin pcs,
         Passed(pcs)' \subseteq Passed(pcs)
  PROVE  Cardinality(Window(d)') + Cardinality(Passed(pcs)')
           <= Cardinality(Window(d)) + Cardinality(Passed(pcs))
<1>1. /\ IsFiniteSet(Window(d)) /\ Cardinality(Window(d)) \in Nat
      /\ IsFiniteSet(Passed(pcs)) /\ Cardinality(Passed(pcs)) \in Nat
  BY FiniteSets_ DEF Window
<1>2. CASE \A s \in Senders : ~CommitCreate(s)
  <2>1. Window(d)' \subseteq Window(d)
    BY <1>2, WindowStep
  <2>2. /\ Cardinality(Window(d)') <= Cardinality(Window(d))
        /\ Cardinality(Passed(pcs)') <= Cardinality(Passed(pcs))
        /\ Cardinality(Window(d)') \in Nat /\ Cardinality(Passed(pcs)') \in Nat
    BY <1>1, <2>1, FS_Subset, FS_CardinalityType
  <2> QED
    BY <1>1, <2>2
<1>3. CASE \E s \in Senders : CommitCreate(s)
  <2>1. PICK s \in Senders : CommitCreate(s)
    BY <1>3
  <2>2. send[s].pc = "creating" /\ send'[s].pc = "sending"
    BY <2>1, SenderSteps DEF SenderMoved
  <2>3. s \in Passed(pcs) /\ s \notin Passed(pcs)'
    BY <2>2 DEF Passed, At
  <2>4. PICK n : Window(d)' \subseteq Window(d) \cup {n}
    BY WindowStep
  <2>5. /\ IsFiniteSet(Window(d) \cup {n})
        /\ Cardinality(Window(d) \cup {n}) <= Cardinality(Window(d)) + 1
    BY <1>1, FS_AddElement
  <2>6. Cardinality(Window(d) \cup {n}) \in Nat
    BY <2>5, FS_CardinalityType
  <2>7. /\ Cardinality(Window(d)') <= Cardinality(Window(d) \cup {n})
        /\ Cardinality(Window(d)') \in Nat
    BY <2>4, <2>5, FS_Subset, FS_CardinalityType
  <2>8. /\ IsFiniteSet(Passed(pcs) \ {s})
        /\ Cardinality(Passed(pcs) \ {s}) = Cardinality(Passed(pcs)) - 1
    BY <1>1, <2>3, FS_RemoveElement
  <2>9. /\ Cardinality(Passed(pcs)') <= Cardinality(Passed(pcs)) - 1
        /\ Cardinality(Passed(pcs)') \in Nat
    BY <2>3, <2>8, FS_Subset, FS_CardinalityType
  <2> QED
    BY <1>1, <2>5, <2>6, <2>7, <2>9
<1> QED
  BY <1>2, <1>3

\* Every step keeps the count: codes in the window and requests that passed the check.
LEMMA LimitedStep == Types /\ Limited /\ [Next]_vars => Limited'
<1> SUFFICES ASSUME Types, Limited, [Next]_vars PROVE Limited'
  OBVIOUS
<1>1. \A s \in Senders : send'[s].at <= now'
  BY ClockStep DEF Limited
<1>2. \A s \in Senders : send[s].at <= now
  BY DEF Limited
<1>3. Types'
  BY TypesStep
<1>4. now \in Int /\ \A s \in Senders : send[s].at \in Int
  BY Constants DEF Types, Sends
<1>5. Cardinality(Senders) \in Nat
  BY FiniteSets_
<1>6. /\ Cardinality(Window(Hour)') \in Nat /\ Cardinality(Passed(Counted)') \in Nat
      /\ Cardinality(Window(Cooldown - 1)') \in Nat /\ Cardinality(Passed(Cooled)') \in Nat
      /\ Cardinality(Passed(Counted)') <= Cardinality(Senders)
      /\ Cardinality(Passed(Cooled)') <= Cardinality(Senders)
  <2>1. ASSUME NEW d \in Int PROVE Cardinality(Window(d)') \in Nat
    <3>1. PICK n : Window(d)' \subseteq Window(d) \cup {n}
      BY <1>2, WindowStep
    <3>2. IsFiniteSet(Window(d))
      BY FiniteSets_ DEF Window
    <3> QED
      BY <3>1, <3>2, FS_AddElement, FS_Subset, FS_CardinalityType
  <2>2. ASSUME NEW pcs
        PROVE  /\ Cardinality(Passed(pcs)') \in Nat
               /\ Cardinality(Passed(pcs)') <= Cardinality(Senders)
    <3>1. Passed(pcs)' \subseteq Senders
      BY DEF Passed
    <3> QED
      BY <3>1, FS_Subset, FS_CardinalityType, VerificationAssumption
  <2> QED
    BY <2>1, <2>2, Constants
<1>7. Cardinality(Window(Hour)') + Cardinality(Passed(Counted)')
        <= MaxSends - 1 + Cardinality(Senders)
  <2>1. CASE \E s \in Senders : CountCodesCreatedSince(s)
    <3>1. PICK s \in Senders : CountCodesCreatedSince(s)
      BY <2>1
    <3> DEFINE seen == CreatedSince(send[s].at - Hour)
    <3>2. Cardinality(seen) < MaxSends /\ UNCHANGED <<codes, now>>
      BY <3>1 DEF CountCodesCreatedSince
    <3>3. Window(Hour)' = Window(Hour)
      BY <3>2 DEF Window, CreatedSince, Ids
    <3>4. Window(Hour) \subseteq seen
      <4>1. \A i \in Ids : codes[i].created \in Int
        BY RowTypes DEF Row
      <4> QED
        BY <1>2, <1>4, <4>1, Constants DEF Window, CreatedSince
    <3>5. IsFiniteSet(seen) /\ Cardinality(seen) \in Nat
      BY FiniteSets_
    <3>6. Cardinality(Window(Hour)) <= Cardinality(seen)
      BY <3>4, <3>5, FS_Subset
    <3> HIDE DEF seen
    <3> QED
      BY <1>5, <1>6, <3>2, <3>3, <3>5, <3>6, Constants
  <2>2. CASE \A s \in Senders : ~CountCodesCreatedSince(s)
    <3>1. Passed(Counted)' \subseteq Passed(Counted)
      BY <2>2, SenderSteps DEF SenderMoved, Passed, At, Counted
    <3>2. Cardinality(Window(Hour)') + Cardinality(Passed(Counted)')
            <= Cardinality(Window(Hour)) + Cardinality(Passed(Counted))
      BY <1>2, <3>1, CountedStep, Constants DEF Counted
    <3>3. Cardinality(Window(Hour)) \in Nat /\ Cardinality(Passed(Counted)) \in Nat
      BY FiniteSets_ DEF Window
    <3> QED
      BY <1>5, <1>6, <3>2, <3>3, Constants DEF Limited
  <2> QED
    BY <2>1, <2>2
<1>8. Cardinality(Window(Cooldown - 1)') + Cardinality(Passed(Cooled)') <= Cardinality(Senders)
  <2>1. CASE \E s \in Senders : GetLastCodeCreatedAt(s)
    <3>1. PICK s \in Senders : GetLastCodeCreatedAt(s)
      BY <2>1
    <3>2. UNCHANGED <<codes, now>> /\ \A i \in Ids : send[s].at - codes[i].created >= Cooldown
      BY <3>1 DEF GetLastCodeCreatedAt
    <3>3. Window(Cooldown - 1) = {}
      <4>1. \A i \in Ids : codes[i].created \in Int
        BY RowTypes DEF Row
      <4> QED
        BY <1>2, <1>4, <3>2, <4>1, Constants DEF Window, CreatedSince
    <3>4. Window(Cooldown - 1)' = {}
      BY <3>2, <3>3 DEF Window, CreatedSince, Ids
    <3>5. Cardinality(Window(Cooldown - 1)') = 0
      BY <3>4, FS_EmptySet
    <3> QED
      BY <1>5, <1>6, <3>5
  <2>2. CASE \A s \in Senders : ~GetLastCodeCreatedAt(s)
    <3>1. Passed(Cooled)' \subseteq Passed(Cooled)
      <4> SUFFICES ASSUME NEW s \in Senders, send'[s].pc \in Cooled PROVE send[s].pc \in Cooled
        BY DEF Passed, At
      <4> QED
        BY <2>2, SenderSteps DEF SenderMoved, Cooled, CountCodesCreatedSince, Goto
    <3>2. Cardinality(Window(Cooldown - 1)') + Cardinality(Passed(Cooled)')
            <= Cardinality(Window(Cooldown - 1)) + Cardinality(Passed(Cooled))
      BY <1>2, <3>1, CountedStep, Constants DEF Cooled
    <3>3. Cardinality(Window(Cooldown - 1)) \in Nat /\ Cardinality(Passed(Cooled)) \in Nat
      BY FiniteSets_ DEF Window
    <3> QED
      BY <1>5, <1>6, <3>2, <3>3 DEF Limited
  <2> QED
    BY <2>1, <2>2
<1> QED
  BY <1>1, <1>7, <1>8 DEF Limited

\* At first no code is counted.
LEMMA LimitedInit == Init => Limited
<1> SUFFICES ASSUME Init PROVE Limited
  OBVIOUS
<1>1. \A s \in Senders : send[s].at <= now
  BY DEF Init, SIdle
<1>2. \A d : Window(d) = {}
  BY DEF Init, Window, CreatedSince, Ids
<1>3. Passed(Counted) = {} /\ Passed(Cooled) = {}
  BY DEF Init, SIdle, Passed, At, Counted, Cooled
<1>4. Cardinality(Senders) \in Nat
  BY FS_CardinalityType, VerificationAssumption
<1> QED
  BY <1>1, <1>2, <1>3, <1>4, FS_EmptySet, Constants DEF Limited

\* The count holds in every reachable state.
LEMMA LimitedInv == Spec => [](Types /\ Limited)
<1>1. Types /\ Limited /\ [Next]_vars => (Types /\ Limited)'
  BY TypesStep, LimitedStep
<1> QED
  BY <1>1, TypesInit, LimitedInit, PTL DEF Spec

\* Requests that race past the hourly limit exceed it by at most one less than
\* there are of them (sendCode checks and inserts in separate statements).
THEOREM SendsLimited == Spec => []SendsAreLimited
<1>1. Types /\ Limited => SendsAreLimited
  <2> SUFFICES ASSUME Types, Limited PROVE SendsAreLimited
    OBVIOUS
  <2>1. /\ Cardinality(Window(Hour)) \in Nat /\ Cardinality(Passed(Counted)) \in Nat
        /\ Cardinality(Senders) \in Nat
    BY FiniteSets_ DEF Window
  <2>2. Cardinality(Window(Hour)) <= MaxSends - 1 + Cardinality(Senders)
    BY <2>1, Constants DEF Limited
  <2> QED
    BY <2>2 DEF SendsAreLimited, Window
<1> QED
  BY <1>1, LimitedInv, PTL

\* Within one cooldown at most as many codes are created as requests run at
\* the same time.
THEOREM BurstLimited == Spec => []BurstIsLimited
<1>1. Types /\ Limited => BurstIsLimited
  <2> SUFFICES ASSUME Types, Limited PROVE BurstIsLimited
    OBVIOUS
  <2>1. /\ Cardinality(Window(Cooldown - 1)) \in Nat /\ Cardinality(Passed(Cooled)) \in Nat
        /\ Cardinality(Senders) \in Nat
    BY FiniteSets_ DEF Window
  <2>2. Cardinality(Window(Cooldown - 1)) <= Cardinality(Senders)
    BY <2>1 DEF Limited
  <2>3. now - (Cooldown - 1) = now - Cooldown + 1
    BY Constants DEF Types
  <2> QED
    BY <2>2, <2>3 DEF BurstIsLimited, Window
<1> QED
  BY <1>1, LimitedInv, PTL

-----------------------------------------------------------------------------
(***************************************************************************)
(* Superseded codes.  What a request has sent before, and is still active, *)
(* it sees when it begins to create another one.                           *)
(***************************************************************************)

SeesOwn ==
  \A s \in Senders : send[s].pc = "creating" =>
    \A i \in Active : fate[i].by = s => i \in send[s].view

Replaced == SupersededIsDead /\ SeesOwn

\* A row that is active after a step and is not new was active before it.
LEMMA ActiveStep ==
  ASSUME Types, \A s \in Senders : send[s].at <= now, [Next]_vars
  PROVE  /\ \A i \in Ids : i \in Active' => i \in Active
         /\ \A i \in Ids : fate'[i].by = fate[i].by
         /\ (\A s \in Senders : ~CommitCreate(s)) => Ids' = Ids
<1>1. now' >= now /\ now \in Int /\ now' \in Int
  BY ClockStep, TypesStep, Constants DEF Types
<1>2. \A i \in Ids : codes[i].expires \in Int
  BY RowTypes DEF Row
<1>3. CASE SameRows
  BY <1>1, <1>2, <1>3 DEF SameRows, Active
<1>4. CASE \E s \in Senders : CommitCreate(s)
  <2>1. PICK s \in Senders : RowAdded(s)
    BY <1>4, RowAdding
  <2>2. \A i \in Ids : fate'[i].by = fate[i].by
    BY <2>1 DEF RowAdded
  <2>3. ASSUME NEW i \in Ids, i \in Active' PROVE i \in Active
    <3>1. ~codes'[i].used /\ codes'[i].expires > now'
      BY <2>3 DEF Active
    <3>2. codes'[i].used = (codes[i].used \/ i \in send[s].view)
      BY <2>1, <2>3 DEF RowAdded
    <3>3. codes'[i].expires = codes[i].expires
      BY <2>1, <2>3 DEF RowAdded
    <3>4. ~codes[i].used
      BY <3>1, <3>2
    <3>5. codes[i].expires > now
      BY <1>1, <1>2, <2>3, <3>1, <3>3
    <3> QED
      BY <2>3, <3>4, <3>5 DEF Active
  <2> QED
    BY <1>4, <2>2, <2>3
<1>5. CASE QuietStep
  BY <1>3, <1>5, QuietKeepsRows DEF SameRows, Ids
<1>6. CASE \E s \in Senders : MarkCodeUsed(s)
  BY <1>3, <1>6, Marking, RowChange
<1>7. CASE \E v \in Verifiers : Check(v)
  <2>1. PICK v \in Verifiers : Check(v)
    BY <1>7
  <2>2. PICK k \in Newest({j \in verify[v].view : ~codes[j].used}), right \in BOOLEAN : Compare(k, right)
    BY <2>1 DEF Check
  <2>3. k \in Ids
    BY <2>2 DEF Newest, Types, Verifies
  <2> QED
    BY <1>3, <2>2, <2>3, Comparison, RowChange
<1> QED
  BY <1>4, <1>5, <1>6, <1>7, Steps

\* Every step keeps a caller's earlier codes switched off.
LEMMA ReplacedStep ==
  ASSUME Types, \A s \in Senders : send[s].at <= now, Replaced, [Next]_vars
  PROVE  Replaced'
<1>1. /\ \A i \in Ids : i \in Active' => i \in Active
      /\ \A i \in Ids : fate'[i].by = fate[i].by
  BY ActiveStep
<1>2. CASE \A s \in Senders : ~CommitCreate(s)
  <2>1. Ids' = Ids
    BY <1>2, ActiveStep
  <2>2. SupersededIsDead'
    BY <1>1, <2>1 DEF Replaced, SupersededIsDead
  <2>3. ASSUME NEW s \in Senders, send'[s].pc = "creating", NEW i \in Active', fate'[i].by = s
        PROVE  i \in send'[s].view
    <3>1. i \in Ids /\ i \in Active /\ fate[i].by = s
      BY <1>1, <2>1, <2>3 DEF Active
    <3>2. CASE BeginCreate(s)
      <4>1. send \in [Senders -> Sends] /\ send[s] \in Sends
        BY DEF Types
      <4>2. send'[s].view = Active
        BY <3>2, <4>1 DEF BeginCreate, Sends
      <4> QED
        BY <3>1, <4>2
    <3>3. CASE ~BeginCreate(s)
      <4>1. send[s].pc = "creating" /\ send'[s].view = send[s].view
        <5>1. send \in [Senders -> Sends] /\ send[s] \in Sends
          BY DEF Types
        <5>2. CASE UNCHANGED send
          BY <2>3, <5>2
        <5>3. ASSUME NEW r \in Senders, Quiet(r)
              PROVE  send[s].pc = "creating" /\ send'[s].view = send[s].view
          <6>1. send[r] \in Sends
            BY <5>1
          <6>2. CASE r = s
            BY <2>3, <3>3, <5>1, <5>3, <6>2 DEF Quiet, ReadTarget, ReadClock,
              GetLastCodeCreatedAt, CountCodesCreatedSince, SendEnds, Goto, Sends, SIdle
          <6>3. CASE r # s
            BY <2>3, <5>1, <5>3, <6>3 DEF Quiet, ReadTarget, ReadClock,
              GetLastCodeCreatedAt, CountCodesCreatedSince, BeginCreate, SendEnds, Goto
          <6> QED
            BY <6>2, <6>3
        <5>4. ASSUME NEW r \in Senders, MarkCodeUsed(r)
              PROVE  send[s].pc = "creating" /\ send'[s].view = send[s].view
          BY <2>3, <5>1, <5>4 DEF MarkCodeUsed, SIdle
        <5>5. \/ UNCHANGED send
              \/ \E r \in Senders : Quiet(r)
              \/ \E r \in Senders : MarkCodeUsed(r)
          <6>1. Tick => UNCHANGED send
            BY DEF Tick
          <6>2. ASSUME NEW v \in Verifiers
                PROVE  BeginVerify(v) \/ VerifyEnds(v) \/ Check(v) => UNCHANGED send
            BY DEF BeginVerify, VerifyEnds, Check
          <6>3. UNCHANGED vars => UNCHANGED send
            BY DEF vars
          <6> QED
            BY <1>2, <6>1, <6>2, <6>3, Steps DEF QuietStep
        <5> QED
          BY <5>2, <5>3, <5>4, <5>5
      <4> QED
        BY <3>1, <4>1 DEF Replaced, SeesOwn
    <3> QED
      BY <3>2, <3>3
  <2>4. SeesOwn'
    BY <2>3 DEF SeesOwn
  <2> QED
    BY <2>2, <2>4 DEF Replaced
<1>3. CASE \E s \in Senders : CommitCreate(s)
  <2>1. PICK s \in Senders : CommitCreate(s)
    BY <1>3
  <2>2. RowAdded(s)
    BY <2>1, RowAdding
  <2>3. PICK n : /\ n = Len(codes) + 1
                 /\ Ids' = Ids \cup {n} /\ fate'[n].by = s
    BY <2>2 DEF RowAdded
  <2>4. \A i \in Ids : i \in Active' => i \notin send[s].view
    BY <2>2 DEF RowAdded, Active
  <2>5. \A i \in Ids : fate[i].by = s => i \notin Active'
    <3>1. send[s].pc = "creating"
      BY <2>1 DEF CommitCreate
    <3> QED
      BY <1>1, <2>4, <3>1 DEF Replaced, SeesOwn
  <2>6. ASSUME NEW i \in Ids', NEW j \in Ids', i < j, fate'[i].by = fate'[j].by
        PROVE  i \notin Active'
    <3>1. i \in Ids
      BY <2>3, <2>6, IdsAre
    <3>2. CASE j = n
      BY <1>1, <2>3, <2>5, <2>6, <3>1, <3>2
    <3>3. CASE j \in Ids
      BY <1>1, <2>6, <3>1, <3>3 DEF Replaced, SupersededIsDead
    <3> QED
      BY <2>3, <2>6, <3>2, <3>3
  <2>7. SupersededIsDead'
    BY <2>6 DEF SupersededIsDead
  <2>8. ASSUME NEW r \in Senders, send'[r].pc = "creating", NEW i \in Active', fate'[i].by = r
        PROVE  i \in send'[r].view
    <3> DEFINE x == [SIdle EXCEPT !.pc = "sending", !.row = Len(codes) + 1]
    <3>1. send' = [send EXCEPT ![s] = x] /\ x.pc = "sending"
      BY <2>1 DEF CommitCreate, SIdle
    <3> HIDE DEF x
    <3>2. r # s /\ send'[r] = send[r]
      BY <2>8, <3>1 DEF Types
    <3>3. i \in Ids
      BY <2>3, <2>8, <3>2 DEF Active
    <3>4. i \in Active /\ fate[i].by = r
      BY <1>1, <2>8, <3>3
    <3> QED
      BY <2>8, <3>2, <3>4 DEF Replaced, SeesOwn
  <2>9. SeesOwn'
    BY <2>8 DEF SeesOwn
  <2> QED
    BY <2>7, <2>9 DEF Replaced
<1> QED
  BY <1>2, <1>3

\* Of one caller's codes, only the last one is ever active, however his and
\* others' requests interleave (CreateCodeReplacingActive).
THEOREM SupersededDead == Spec => []SupersededIsDead
<1>1. Init => Replaced
  BY DEF Init, SIdle, Replaced, SupersededIsDead, SeesOwn, Ids
<1>2. Types /\ Limited /\ Replaced /\ [Next]_vars => Replaced'
  BY ReplacedStep DEF Limited
<1> QED
  BY <1>1, <1>2, LimitedInv, PTL DEF Spec, Replaced

-----------------------------------------------------------------------------
(***************************************************************************)
(* Works and photos                                                        *)
(***************************************************************************)
Entry == [text : Texts \cup {Nothing}, pic : Photos \cup {Nothing}, img : Photos \cup {Nothing}]
Filled == [text : Texts \cup {Nothing}, img : Photos \cup {Nothing}, upload : {"fine", "failed"}]
Saving ==
  [pc : {"none", "update", "clear", "insert", "commit", "done", "failed"},
   pics : SUBSET Photos, cleared : SUBSET Photos]

WorksOK ==
  /\ entries \in Seq(Entry) /\ items \in Seq(Entry) /\ put \in Seq(Filled)
  /\ kept \in [works : Seq(Entry), put : Seq(Filled)]
  /\ card \in [Photos -> [at : Nat, reads : BOOLEAN, waits : BOOLEAN]]
  /\ stage \in {"fill", "posting", "done"}

PhotosOK ==
  /\ posted \in [Photos -> {"none", "sent", "checked", "saved", "made", "failed"}]
  /\ files \subseteq Photos /\ rows \subseteq Photos
  /\ deleting \in [Photos -> {"none", "row", "file"}]

ItemOK ==
  /\ item \in [st : {"none", "row", "gone"}, by : Saves \cup {Nothing}]
  /\ shown \subseteq Photos
  /\ save \in [Saves -> Saving]

PortfolioTypeOK == WorksOK /\ PhotosOK /\ ItemOK

\* A row is made once, after its file, and only then can it be deleted; the
\* file goes when the row has gone.
RowsHaveFiles ==
  /\ rows \subseteq files
  /\ \A p \in Photos : /\ posted[p] = "saved" => p \in files
                       /\ posted[p] # "made" => p \notin rows /\ deleting[p] = "none"
                       /\ deleting[p] = "file" => p \notin rows

\* One save at a time is past its lock, as long as there is an item; it knows
\* all the photos that the item shows, and its own are rows.
OneSaves ==
  /\ \A s, r \in Locking : s = r
  /\ \A s \in Locking :
       /\ item.st = "row"
       /\ save[s].pc \in {"insert", "commit"} => shown \subseteq save[s].cleared
       /\ save[s].pc = "commit" => save[s].pics \subseteq rows

\* The item is as its last save left it, but for what has been deleted, which
\* no upload makes again.
AsSaved ==
  /\ \A s \in Saves : save[s].pc = "done" => \A p \in save[s].pics : posted[p] = "made"
  /\ item.st = "row" => /\ item.by \in Saves /\ save[item.by].pc = "done"
                        /\ shown = save[item.by].pics \cap rows
  /\ item.st = "none" => \A s \in Saves : save[s].pc = "none"

\* What was persisted is what had been put into the works then.
KeptHolds == Holds(kept.works, kept.put)

PortfolioInv ==
  /\ PortfolioTypeOK /\ RowsHaveFiles /\ OneSaves /\ AsSaved /\ WorkIsKept /\ KeptHolds

-----------------------------------------------------------------------------
\* Which patches of a work and of what was put into it go together.
Suits(p, q) ==
  \/ \E x \in Texts : p = [text |-> x] /\ q = [text |-> x]
  \/ \E f \in Photos : p = [img |-> f] /\ q = [img |-> f, upload |-> "fine"]
  \/ p = [img |-> Nothing, pic |-> Nothing] /\ q = [img |-> Nothing, upload |-> "fine"]
  \/ p = [pic |-> Nothing, img |-> Nothing] /\ q = [upload |-> "failed"]
  \/ p = [pic |-> Nothing, img |-> Nothing] /\ \E f \in Photos : q = [img |-> f, upload |-> "failed"]

\* A patch overwrites its fields and no other: a work has what was put into
\* it when both have been patched.
LEMMA Overwrites ==
  ASSUME NEW p, NEW q, Suits(p, q), NEW e \in Entry, NEW g \in Filled
  PROVE  /\ Over(p, e) \in Entry /\ Over(q, g) \in Filled
         /\ Has(e, g) => Has(Over(p, e), Over(q, g))
<1>1. ASSUME NEW x \in Texts, p = [text |-> x], q = [text |-> x]
      PROVE  /\ Over(p, e) \in Entry /\ Over(q, g) \in Filled
             /\ Has(e, g) => Has(Over(p, e), Over(q, g))
  <2>1. Over(p, e) = [text |-> x, pic |-> e.pic, img |-> e.img]
    BY <1>1 DEF Over, Entry
  <2>2. Over(q, g) = [text |-> x, img |-> g.img, upload |-> g.upload]
    BY <1>1 DEF Over, Filled
  <2> QED
    BY <2>1, <2>2 DEF Entry, Filled, Has
<1>2. ASSUME NEW f \in Photos, p = [img |-> f], q = [img |-> f, upload |-> "fine"]
      PROVE  /\ Over(p, e) \in Entry /\ Over(q, g) \in Filled
             /\ Has(e, g) => Has(Over(p, e), Over(q, g))
  <2>1. Over(p, e) = [text |-> e.text, pic |-> e.pic, img |-> f]
    BY <1>2 DEF Over, Entry
  <2>2. Over(q, g) = [text |-> g.text, img |-> f, upload |-> "fine"]
    BY <1>2 DEF Over, Filled
  <2> QED
    BY <2>1, <2>2 DEF Entry, Filled, Has
<1>3. ASSUME p = [pic |-> Nothing, img |-> Nothing]
      PROVE  Over(p, e) = [text |-> e.text, pic |-> Nothing, img |-> Nothing]
  BY <1>3 DEF Over, Entry
<1>4. ASSUME p = [pic |-> Nothing, img |-> Nothing], q = [img |-> Nothing, upload |-> "fine"]
      PROVE  /\ Over(p, e) \in Entry /\ Over(q, g) \in Filled
             /\ Has(e, g) => Has(Over(p, e), Over(q, g))
  <2>1. Over(q, g) = [text |-> g.text, img |-> Nothing, upload |-> "fine"]
    BY <1>4 DEF Over, Filled
  <2> QED
    BY <1>3, <1>4, <2>1 DEF Entry, Filled, Has
<1>5. ASSUME p = [pic |-> Nothing, img |-> Nothing], q = [upload |-> "failed"]
      PROVE  /\ Over(p, e) \in Entry /\ Over(q, g) \in Filled
             /\ Has(e, g) => Has(Over(p, e), Over(q, g))
  <2>1. Over(q, g) = [text |-> g.text, img |-> g.img, upload |-> "failed"]
    BY <1>5 DEF Over, Filled
  <2> QED
    BY <1>3, <1>5, <2>1 DEF Entry, Filled, Has
<1>6. ASSUME NEW f \in Photos, p = [pic |-> Nothing, img |-> Nothing], q = [img |-> f, upload |-> "failed"]
      PROVE  /\ Over(p, e) \in Entry /\ Over(q, g) \in Filled
             /\ Has(e, g) => Has(Over(p, e), Over(q, g))
  <2>1. Over(q, g) = [text |-> g.text, img |-> f, upload |-> "failed"]
    BY <1>6 DEF Over, Filled
  <2> QED
    BY <1>3, <1>6, <2>1 DEF Entry, Filled, Has
<1> QED
  BY <1>1, <1>2, <1>4, <1>5, <1>6 DEF Suits

\* A preview overwrites the picture only.
LEMMA OverwritesPic ==
  ASSUME NEW f \in Photos, NEW e \in Entry
  PROVE  /\ Over([pic |-> f], e) \in Entry
         /\ \A g : Has(e, g) => Has(Over([pic |-> f], e), g)
<1>1. Over([pic |-> f], e) = [text |-> e.text, pic |-> f, img |-> e.img]
  BY DEF Over, Entry
<1> QED
  BY <1>1 DEF Entry, Has

\* A patch of one place, or of none, leaves the others as they are.
LEMMA PatchedIs ==
  ASSUME NEW S, NEW s \in Seq(S), NEW i, NEW patch,
         \A e \in S : Over(patch, e) \in S
  PROVE  /\ Patched(s, i, patch) \in Seq(S)
         /\ Len(Patched(s, i, patch)) = Len(s)
         /\ \A k \in 1 .. Len(s) :
              Patched(s, i, patch)[k] = IF k = i THEN Over(patch, s[k]) ELSE s[k]
<1>1. DOMAIN s = 1 .. Len(s) /\ Len(s) \in Nat /\ \A k \in 1 .. Len(s) : s[k] \in S
  OBVIOUS
<1>2. Patched(s, i, patch) = [k \in 1 .. Len(s) |-> IF k = i THEN Over(patch, s[k]) ELSE s[k]]
  BY <1>1 DEF Patched
<1>3. \A k \in 1 .. Len(s) : (IF k = i THEN Over(patch, s[k]) ELSE s[k]) \in S
  BY <1>1
<1>4. Patched(s, i, patch) \in Seq(S)
  BY <1>1, <1>2, <1>3, IsASeq
<1>5. Len(Patched(s, i, patch)) = Len(s)
  BY <1>1, <1>2, <1>4, LenProperties
<1> QED
  BY <1>2, <1>4, <1>5

\* The works and what was put into them, place by place.
LEMMA WorksAre ==
  ASSUME WorksOK, WorkIsKept
  PROVE  /\ entries \in Seq(Entry) /\ put \in Seq(Filled) /\ Len(entries) = Len(put)
         /\ \A k \in 1 .. Len(entries) : /\ entries[k] \in Entry /\ put[k] \in Filled
                                         /\ Has(entries[k], put[k])
<1>1. entries \in Seq(Entry) /\ put \in Seq(Filled)
  BY DEF WorksOK
<1>2. Len(entries) = Len(put) /\ \A k \in DOMAIN entries : Has(entries[k], put[k])
  BY DEF WorkIsKept, Holds
<1>3. DOMAIN entries = 1 .. Len(entries) /\ \A k \in 1 .. Len(entries) : entries[k] \in Entry
  BY <1>1
<1>4. \A k \in 1 .. Len(put) : put[k] \in Filled
  BY <1>1
<1> QED
  BY <1>1, <1>2, <1>3, <1>4

\* The same place of the works and of what was put into them is patched.
LEMMA PatchKeeps ==
  ASSUME WorksOK, WorkIsKept, NEW i, NEW p, NEW q, Suits(p, q), UpdateItem(i, p), Put(i, q)
  PROVE  entries' \in Seq(Entry) /\ put' \in Seq(Filled) /\ WorkIsKept'
<1>1. /\ entries \in Seq(Entry) /\ put \in Seq(Filled) /\ Len(entries) = Len(put)
      /\ \A k \in 1 .. Len(entries) : /\ entries[k] \in Entry /\ put[k] \in Filled
                                      /\ Has(entries[k], put[k])
  BY WorksAre
<1>2. \A e \in Entry, g \in Filled : Over(p, e) \in Entry /\ Over(q, g) \in Filled
  BY Overwrites
<1>n. Entry # {} /\ Filled # {}
  <2>1. /\ [text |-> Nothing, pic |-> Nothing, img |-> Nothing] \in Entry
        /\ [text |-> Nothing, img |-> Nothing, upload |-> "fine"] \in Filled
    BY DEF Entry, Filled
  <2> QED
    BY <2>1
<1>3. /\ entries' \in Seq(Entry) /\ Len(entries') = Len(entries)
      /\ \A k \in 1 .. Len(entries) : entries'[k] = IF k = i THEN Over(p, entries[k]) ELSE entries[k]
  <2>1. \A e \in Entry : Over(p, e) \in Entry
    BY <1>2, <1>n
  <2> QED
    BY <1>1, <2>1, PatchedIs DEF UpdateItem
<1>4. /\ put' \in Seq(Filled) /\ Len(put') = Len(put)
      /\ \A k \in 1 .. Len(put) : put'[k] = IF k = i THEN Over(q, put[k]) ELSE put[k]
  <2>1. \A g \in Filled : Over(q, g) \in Filled
    BY <1>2, <1>n
  <2> QED
    BY <1>1, <2>1, PatchedIs DEF Put
<1>5. ASSUME NEW k \in 1 .. Len(entries) PROVE Has(entries'[k], put'[k])
  <2>1. CASE k # i
    BY <1>1, <1>3, <1>4, <2>1
  <2>2. CASE k = i
    <3>1. entries'[k] = Over(p, entries[k]) /\ put'[k] = Over(q, put[k])
      BY <1>1, <1>3, <1>4, <2>2
    <3> QED
      BY <1>1, <3>1, Overwrites
  <2> QED
    BY <2>1, <2>2
<1> QED
  BY <1>1, <1>3, <1>4, <1>5 DEF WorkIsKept, Holds

\* A preview leaves what was put into the works.
LEMMA PreviewKeeps ==
  ASSUME WorksOK, WorkIsKept, NEW i, NEW f \in Photos, UpdateItem(i, [pic |-> f]), put' = put
  PROVE  entries' \in Seq(Entry) /\ put' \in Seq(Filled) /\ WorkIsKept'
<1>1. /\ entries \in Seq(Entry) /\ put \in Seq(Filled) /\ Len(entries) = Len(put)
      /\ \A k \in 1 .. Len(entries) : /\ entries[k] \in Entry /\ put[k] \in Filled
                                      /\ Has(entries[k], put[k])
  BY WorksAre
<1>2. /\ entries' \in Seq(Entry) /\ Len(entries') = Len(entries)
      /\ \A k \in 1 .. Len(entries) :
           entries'[k] = IF k = i THEN Over([pic |-> f], entries[k]) ELSE entries[k]
  BY <1>1, OverwritesPic, PatchedIs DEF UpdateItem
<1>3. \A k \in 1 .. Len(entries) : Has(entries'[k], put[k])
  BY <1>1, <1>2, OverwritesPic
<1> QED
  BY <1>1, <1>2, <1>3 DEF WorkIsKept, Holds

\* What RemoveAt leaves of a sequence, place by place.
LEMMA RemovedIs ==
  ASSUME NEW S, NEW s \in Seq(S), NEW i \in 1 .. Len(s)
  PROVE  /\ RemoveAt(s, i) \in Seq(S)
         /\ Len(RemoveAt(s, i)) = Len(s) - 1
         /\ \A k \in 1 .. Len(s) - 1 : RemoveAt(s, i)[k] = IF k < i THEN s[k] ELSE s[k + 1]
<1> DEFINE a == SubSeq(s, 1, i - 1)
           b == SubSeq(s, i + 1, Len(s))
<1>1. a \in Seq(S) /\ Len(a) = i - 1 /\ \A k \in 1 .. i - 1 : a[k] = s[k]
  BY SubSeqProperties
<1>2. b \in Seq(S) /\ Len(b) = Len(s) - i /\ \A k \in 1 .. Len(s) - i : b[k] = s[i + k]
  BY SubSeqProperties
<1>3. RemoveAt(s, i) = a \o b
  BY DEF RemoveAt
<1> HIDE DEF a, b
<1>4. /\ a \o b \in Seq(S) /\ Len(a \o b) = Len(a) + Len(b)
      /\ \A k \in 1 .. Len(a) + Len(b) : (a \o b)[k] = IF k <= Len(a) THEN a[k] ELSE b[k - Len(a)]
  BY <1>1, <1>2, ConcatProperties
<1>l. Len(s) \in Nat
  OBVIOUS
<1>5. ASSUME NEW k \in 1 .. Len(s) - 1 PROVE (a \o b)[k] = IF k < i THEN s[k] ELSE s[k + 1]
  <2>1. CASE k < i
    BY <1>1, <1>2, <1>4, <2>1
  <2>2. CASE k >= i
    <3>1. k - (i - 1) \in 1 .. Len(s) - i /\ i + (k - (i - 1)) = k + 1
      BY <2>2
    <3> QED
      BY <1>1, <1>2, <1>4, <2>2, <3>1
  <2>3. k < i \/ k >= i
    BY <1>l
  <2> QED
    BY <2>1, <2>2, <2>3
<1> QED
  BY <1>1, <1>2, <1>3, <1>4, <1>5

-----------------------------------------------------------------------------
\* The writes of the browser keep the works in place (updateItem, addItem, removeItem).
LEMMA WorksKept ==
  ASSUME WorksOK, WorkIsKept, KeptHolds, [PortfolioNext]_portfolioVars
  PROVE  WorksOK' /\ WorkIsKept' /\ KeptHolds'
<1> DEFINE Goal == WorksOK' /\ WorkIsKept' /\ KeptHolds'
<1>t. /\ entries \in Seq(Entry) /\ items \in Seq(Entry) /\ put \in Seq(Filled)
      /\ kept \in [works : Seq(Entry), put : Seq(Filled)]
      /\ card \in [Photos -> [at : Nat, reads : BOOLEAN, waits : BOOLEAN]]
      /\ stage \in {"fill", "posting", "done"} /\ Len(entries) = Len(put)
      /\ \A k \in 1 .. Len(entries) : Has(entries[k], put[k])
  BY DEF WorksOK, WorkIsKept, Holds
<1>b. ASSUME UNCHANGED browser PROVE Goal
  <2>1. WorkIsKept' /\ KeptHolds'
    BY <1>b DEF browser, WorkIsKept, KeptHolds
  <2> QED
    BY <1>b, <2>1 DEF browser, WorksOK
\* What was persisted is as good as what it was written from.
<1>k. ASSUME entries' \in Seq(Entry), put' \in Seq(Filled), WorkIsKept', Written
      PROVE  kept' \in [works : Seq(Entry), put : Seq(Filled)] /\ KeptHolds'
  <2>1. CASE Persisted
    <3>1. kept' = [works |-> entries', put |-> put']
      BY <2>1 DEF Persisted
    <3>2. kept'.works = entries' /\ kept'.put = put'
      BY <3>1
    <3>3. Holds(entries', put')
      BY <1>k DEF WorkIsKept
    <3> QED
      BY <1>k, <3>1, <3>2, <3>3 DEF KeptHolds
  <2>2. CASE Unpersisted
    BY <2>2, <1>t DEF Unpersisted, KeptHolds
  <2> QED
    BY <1>k, <2>1, <2>2 DEF Written
<1>w. ASSUME entries' \in Seq(Entry) /\ put' \in Seq(Filled) /\ WorkIsKept', Written,
             items' = items, stage' = stage,
             card' \in [Photos -> [at : Nat, reads : BOOLEAN, waits : BOOLEAN]]
      PROVE  Goal
  BY <1>t, <1>w, <1>k DEF WorksOK
<1>1. CASE Render
  <2>1. WorkIsKept' /\ KeptHolds'
    BY <1>1 DEF Render, WorkIsKept, KeptHolds
  <2> QED
    BY <1>1, <1>t, <2>1 DEF Render, WorksOK
<1>n. CASE NextStep
  <2>1. WorkIsKept' /\ entries' = entries /\ put' = put /\ items' = items /\ stage' = stage
        /\ card' = card /\ Written
    BY <1>n DEF NextStep, Written, WorkIsKept
  <2> QED
    BY <1>t, <1>w, <2>1
<1>2. CASE AddItem
  <2> DEFINE e == EmptyEntry
             f == EmptyPut
  <2>1. e \in Entry /\ f \in Filled /\ Has(e, f)
    BY DEF EmptyEntry, EmptyPut, Entry, Filled, Has
  <2>2. entries' = Append(entries, e) /\ put' = Append(put, f)
    BY <1>2 DEF AddItem
  <2> HIDE DEF e, f
  <2>3. /\ entries' \in Seq(Entry) /\ put' \in Seq(Filled)
        /\ Len(entries') = Len(entries) + 1 /\ Len(put') = Len(put) + 1
        /\ \A k \in 1 .. Len(entries) : entries'[k] = entries[k] /\ put'[k] = put[k]
        /\ entries'[Len(entries) + 1] = e /\ put'[Len(put) + 1] = f
    BY <1>t, <2>1, <2>2, AppendProperties
  <2>4. \A k \in 1 .. Len(entries') : Has(entries'[k], put'[k])
    <3>1. Len(entries) \in Nat
      BY <1>t
    <3>2. \A k \in 1 .. Len(entries) + 1 : k \in 1 .. Len(entries) \/ k = Len(entries) + 1
      BY <3>1
    <3> QED
      BY <1>t, <2>1, <2>3, <3>2
  <2>5. WorkIsKept'
    BY <1>t, <2>3, <2>4 DEF WorkIsKept, Holds
  <2> QED
    BY <1>2, <1>t, <2>3, <2>5, <1>w DEF AddItem
<1>3. CASE Reload
  <2>1. card' \in [Photos -> [at : Nat, reads : BOOLEAN, waits : BOOLEAN]]
    BY <1>3 DEF Reload, NoCard
  <2>2. entries' = kept.works /\ put' = kept.put /\ items' = kept.works /\ kept' = kept
    BY <1>3 DEF Reload
  <2>3. /\ entries' \in Seq(Entry) /\ put' \in Seq(Filled) /\ items' \in Seq(Entry)
        /\ kept' \in [works : Seq(Entry), put : Seq(Filled)]
    BY <1>t, <2>2
  <2>4. WorkIsKept' /\ KeptHolds'
    BY <2>2 DEF WorkIsKept, KeptHolds
  <2>5. stage' \in {"fill", "posting", "done"}
    BY <1>3, <1>t DEF Reload
  <2> QED
    BY <2>1, <2>3, <2>4, <2>5 DEF WorksOK
<1>4. CASE Finish \/ FinishFails
  <2>1. WorkIsKept' /\ KeptHolds'
    BY <1>4 DEF Finish, FinishFails, WorkIsKept, KeptHolds
  <2> QED
    BY <1>4, <1>t, <2>1 DEF Finish, FinishFails, WorksOK
<1>5. CASE PostItems
  <2>1. card' \in [Photos -> [at : Nat, reads : BOOLEAN, waits : BOOLEAN]]
    BY <1>5 DEF PostItems, NoCard
  <2>2. entries' = <<>> /\ put' = <<>> /\ items' = <<>> /\ stage' = "done" /\ Persisted
    BY <1>5 DEF PostItems
  <2>3. entries' \in Seq(Entry) /\ put' \in Seq(Filled) /\ items' \in Seq(Entry)
    BY <2>2
  <2>4. WorkIsKept'
    BY <2>2 DEF WorkIsKept, Holds
  <2> QED
    BY <1>k, <2>1, <2>2, <2>3, <2>4 DEF WorksOK, Written
<1>6. ASSUME NEW i \in 1 .. MaxEntries, RemoveItem(i) PROVE Goal
  <2>1. CASE i \in DOMAIN entries
    <3>1. entries' = RemoveAt(entries, i) /\ put' = RemoveAt(put, i)
          /\ i \in 1 .. Len(entries) /\ i \in 1 .. Len(put)
      BY <1>6, <1>t, <2>1 DEF RemoveItem
    <3>2. /\ entries' \in Seq(Entry) /\ Len(entries') = Len(entries) - 1
          /\ \A k \in 1 .. Len(entries) - 1 : entries'[k] = IF k < i THEN entries[k] ELSE entries[k + 1]
      BY <1>t, <3>1, RemovedIs
    <3>3. /\ put' \in Seq(Filled) /\ Len(put') = Len(put) - 1
          /\ \A k \in 1 .. Len(put) - 1 : put'[k] = IF k < i THEN put[k] ELSE put[k + 1]
      BY <1>t, <3>1, RemovedIs
    <3>4. ASSUME NEW k \in 1 .. Len(entries) - 1
          PROVE  Has(entries'[k], put'[k])
      <4>1. k \in 1 .. Len(entries) /\ k + 1 \in 1 .. Len(entries)
        BY <1>t
      <4> QED
        BY <1>t, <3>2, <3>3, <4>1
    <3>5. WorkIsKept'
      <4>1. DOMAIN entries' = 1 .. Len(entries) - 1
        BY <3>2
      <4> QED
        BY <1>t, <3>2, <3>3, <3>4, <4>1 DEF WorkIsKept, Holds
    <3> QED
      BY <1>6, <1>t, <3>2, <3>3, <3>5, <1>w DEF RemoveItem
  <2>2. CASE i \notin DOMAIN entries
    <3>1. /\ entries' = entries /\ put' = put /\ Written
          /\ items' = items /\ stage' = stage /\ card' = card
      BY <1>6, <2>2 DEF RemoveItem
    <3>2. WorkIsKept'
      BY <3>1 DEF WorkIsKept
    <3> QED
      BY <1>t, <1>w, <3>1, <3>2
  <2> QED
    BY <2>1, <2>2
<1>7. ASSUME NEW i, NEW x \in Texts, Type(i, x) PROVE Goal
  <2>1. Suits([text |-> x], [text |-> x])
    BY DEF Suits
  <2> QED
    BY <1>7, <1>t, <2>1, PatchKeeps, <1>w DEF Type
<1>8. ASSUME NEW i, RemovePhoto(i) PROVE Goal
  <2>1. Suits([img |-> Nothing, pic |-> Nothing], [img |-> Nothing, upload |-> "fine"])
    BY DEF Suits
  <2> QED
    BY <1>8, <1>t, <2>1, PatchKeeps, <1>w DEF RemovePhoto
<1>9. ASSUME NEW i \in 1 .. MaxEntries, NEW p \in Photos, Choose(i, p) PROVE Goal
  <2>1. card' \in [Photos -> [at : Nat, reads : BOOLEAN, waits : BOOLEAN]]
    BY <1>9, <1>t, PortfolioAssumption DEF Choose
  <2>2. /\ entries' = entries /\ put' = put /\ kept' = kept
        /\ items' = items /\ stage' = stage
    BY <1>9 DEF Choose
  <2>3. WorkIsKept'
    BY <2>2 DEF WorkIsKept
  <2> QED
    BY <1>t, <1>w, <2>1, <2>2, <2>3 DEF Written, Unpersisted
\* Something has come for a photo's card.
<1>c. ASSUME NEW p \in Photos, NEW c,
             c \in {[card[p] EXCEPT !.reads = FALSE], [card[p] EXCEPT !.waits = FALSE]},
             card' = [card EXCEPT ![p] = Awaited(c)]
      PROVE  card' \in [Photos -> [at : Nat, reads : BOOLEAN, waits : BOOLEAN]]
  BY <1>c, <1>t DEF Awaited, NoCard
<1>10. ASSUME NEW p \in Photos, Preview(p) PROVE Goal
  <2>1. card' = [card EXCEPT ![p] = Awaited([card[p] EXCEPT !.reads = FALSE])]
    BY <1>10 DEF Preview
  <2>2. put' = put /\ items' = items /\ stage' = stage /\ UpdateItem(card[p].at, [pic |-> p])
        /\ Written
    BY <1>10 DEF Preview
  <2>3. card' \in [Photos -> [at : Nat, reads : BOOLEAN, waits : BOOLEAN]]
    BY <2>1, <1>c
  <2> QED
    BY <2>2, <2>3, PreviewKeeps, <1>w
<1>11. ASSUME NEW p \in Photos, NEW ok \in BOOLEAN, Uploaded(p, ok) PROVE Goal
  <2> DEFINE none == [pic |-> Nothing, img |-> Nothing]
  <2>1. card' = [card EXCEPT ![p] = Awaited([card[p] EXCEPT !.waits = FALSE])]
    BY <1>11 DEF Uploaded
  <2>2. items' = items /\ stage' = stage
    BY <1>11 DEF Uploaded
  <2>3. card' \in [Photos -> [at : Nat, reads : BOOLEAN, waits : BOOLEAN]]
    BY <2>1, <1>c
  <2>4. ASSUME NEW u, NEW v, Suits(u, v), UpdateItem(card[p].at, u), Put(card[p].at, v), Written
        PROVE  Goal
    BY <2>2, <2>3, <2>4, PatchKeeps, <1>w
  <2>5. CASE /\ UpdateItem(card[p].at, [img |-> p])
             /\ Put(card[p].at, [img |-> p, upload |-> "fine"]) /\ Persisted
    <3>1. Suits([img |-> p], [img |-> p, upload |-> "fine"])
      BY DEF Suits
    <3> QED
      BY <2>4, <2>5, <3>1 DEF Written
  <2>6. CASE UpdateItem(card[p].at, none) /\ Put(card[p].at, [img |-> p, upload |-> "failed"]) /\ Written
    <3>1. Suits(none, [img |-> p, upload |-> "failed"])
      BY DEF Suits
    <3> HIDE DEF none
    <3> QED
      BY <2>4, <2>6, <3>1
  <2>7. CASE UpdateItem(card[p].at, none) /\ Put(card[p].at, [upload |-> "failed"]) /\ Written
    <3>1. Suits(none, [upload |-> "failed"])
      BY DEF Suits
    <3> HIDE DEF none
    <3> QED
      BY <2>4, <2>7, <3>1
  <2> QED
    BY <1>11, <2>5, <2>6, <2>7 DEF Uploaded
<1>12. CASE Keep \/ Present
  BY <1>12, <1>b DEF Keep, Present, UploadPhoto, SaveFile, CreateRow, FindMedia, DeleteRow,
     DeleteFile, DeleteFails, CreateItem, UpdateRequested, LockItem, ClearPics, InsertPics,
     Commit, SaveFails, DeleteItem
<1>13. CASE UNCHANGED portfolioVars
  BY <1>13, <1>b DEF portfolioVars, browser
<1> QED
  BY <1>1, <1>n, <1>2, <1>3, <1>4, <1>5, <1>6, <1>7, <1>8, <1>9, <1>10, <1>11, <1>12, <1>13
     DEF PortfolioNext, Fill

-----------------------------------------------------------------------------
\* Uploads, saves and deletions never leave a row without its file.
LEMMA PhotosKept ==
  ASSUME PhotosOK, RowsHaveFiles, [PortfolioNext]_portfolioVars
  PROVE  PhotosOK' /\ RowsHaveFiles'
<1> DEFINE Goal == PhotosOK' /\ RowsHaveFiles'
<1> USE DEF PhotosOK, RowsHaveFiles
<1>1. ASSUME UNCHANGED media PROVE Goal
  BY <1>1 DEF media
<1>2. ASSUME NEW i, NEW p \in Photos, Choose(i, p) PROVE Goal
  BY <1>2 DEF Choose
<1>3. ASSUME NEW p \in Photos, NEW ok \in BOOLEAN, UploadPhoto(p, ok) PROVE Goal
  BY <1>3 DEF UploadPhoto
<1>4. ASSUME NEW p \in Photos, NEW ok \in BOOLEAN, SaveFile(p, ok) PROVE Goal
  BY <1>4 DEF SaveFile
<1>5. ASSUME NEW p \in Photos, NEW ok \in BOOLEAN, CreateRow(p, ok) PROVE Goal
  BY <1>5 DEF CreateRow
<1>6. ASSUME NEW p \in Photos, FindMedia(p) PROVE Goal
  BY <1>6 DEF FindMedia
<1>7. ASSUME NEW p \in Photos, DeleteRow(p) PROVE Goal
  BY <1>7 DEF DeleteRow
<1>8. ASSUME NEW p \in Photos, DeleteFile(p) PROVE Goal
  BY <1>8 DEF DeleteFile
<1>9. ASSUME NEW p \in Photos, DeleteFails(p) PROVE Goal
  BY <1>9 DEF DeleteFails
<1>10. CASE Present
  BY <1>10, <1>1 DEF Present, CreateItem, UpdateRequested, LockItem, ClearPics, InsertPics,
     Commit, SaveFails, DeleteItem
<1>11. CASE Render \/ NextStep \/ AddItem \/ Reload \/ Finish \/ FinishFails \/ PostItems
  BY <1>11, <1>1 DEF Render, NextStep, AddItem, Reload, Finish, FinishFails, PostItems
<1>12. ASSUME NEW i, RemoveItem(i) \/ RemovePhoto(i) \/ \E x \in Texts : Type(i, x) PROVE Goal
  BY <1>12, <1>1 DEF RemoveItem, RemovePhoto, Type
<1>13. ASSUME NEW p, Preview(p) \/ \E ok \in BOOLEAN : Uploaded(p, ok) PROVE Goal
  BY <1>13, <1>1 DEF Preview, Uploaded
<1>14. CASE UNCHANGED portfolioVars
  BY <1>14, <1>1 DEF portfolioVars, media
<1> QED
  BY <1>2, <1>3, <1>4, <1>5, <1>6, <1>7, <1>8, <1>9, <1>10, <1>11, <1>12, <1>13, <1>14
     DEF PortfolioNext, Fill, Keep

\* What is made stays made, and no step but two moves a row.
LEMMA ItemKept ==
  ASSUME PhotosOK, ItemOK, RowsHaveFiles, OneSaves, AsSaved, [PortfolioNext]_portfolioVars
  PROVE  ItemOK' /\ OneSaves' /\ AsSaved'
<1> DEFINE Goal == ItemOK' /\ OneSaves' /\ AsSaved'
<1>t. /\ save \in [Saves -> Saving] /\ shown \subseteq Photos /\ rows \subseteq Photos
      /\ item \in [st : {"none", "row", "gone"}, by : Saves \cup {Nothing}]
      /\ posted \in [Photos -> {"none", "sent", "checked", "saved", "made", "failed"}]
      /\ \A s \in Saves : save[s].pics \subseteq Photos
  BY DEF PhotosOK, ItemOK, Saving
\* A step of a photo: its row may come, or go where nobody has locked it.
<1>1. ASSUME UNCHANGED <<item, save>>, shown' \subseteq shown, rows' \subseteq Photos,
             \A p \in Photos : posted[p] = "made" => posted'[p] = "made",
             \A p \in Photos : p \in rows' \ rows => posted[p] # "made",
             \A p \in shown \ shown' : p \notin rows',
             \A p \in rows \ rows' : p \notin shown' /\ \A s \in Saves : save[s].pc = "commit" => p \notin save[s].pics
      PROVE  Goal
  <2>1. ItemOK'
    BY <1>1, <1>t DEF ItemOK
  <2>2. OneSaves'
    BY <1>1, <1>t DEF OneSaves, Locking
  <2>3. AsSaved'
    BY <1>1, <1>t DEF AsSaved
  <2> QED
    BY <2>1, <2>2, <2>3
<1>2. ASSUME UNCHANGED <<item, save, shown, rows, posted>> PROVE Goal
  BY <1>2, <1>1, <1>t
<1>3. ASSUME NEW i, NEW p \in Photos, Choose(i, p) PROVE Goal
  BY <1>3, <1>1, <1>t DEF Choose, portfolio
<1>4. ASSUME NEW p \in Photos, NEW ok \in BOOLEAN, UploadPhoto(p, ok) \/ SaveFile(p, ok) PROVE Goal
  BY <1>4, <1>1, <1>t DEF UploadPhoto, SaveFile, portfolio
<1>5. ASSUME NEW p \in Photos, NEW ok \in BOOLEAN, CreateRow(p, ok) PROVE Goal
  BY <1>5, <1>1, <1>t DEF CreateRow, portfolio
<1>6. ASSUME NEW p \in Photos, DeleteRow(p) PROVE Goal
  BY <1>6, <1>1, <1>t DEF DeleteRow
<1>7. ASSUME NEW p \in Photos, FindMedia(p) \/ DeleteFile(p) \/ DeleteFails(p) PROVE Goal
  BY <1>7, <1>2 DEF FindMedia, DeleteFile, DeleteFails, portfolio
<1>8. ASSUME NEW s \in Saves, NEW pics \in SUBSET Photos, CreateItem(s, pics) PROVE Goal
  <2>1. /\ item' = [st |-> "row", by |-> s] /\ shown' = pics /\ pics \subseteq rows
        /\ save' = [save EXCEPT ![s] = [NoSave EXCEPT !.pc = "done", !.pics = pics]]
        /\ rows' = rows /\ posted' = posted
        /\ \A r \in Saves : save[r].pc = "none"
    BY <1>8 DEF CreateItem, media, AsSaved
  <2>2. [NoSave EXCEPT !.pc = "done", !.pics = pics] \in Saving
    BY DEF NoSave, Saving
  <2>3. save'[s].pc = "done" /\ save'[s].pics = pics /\ \A r \in Saves : r # s => save'[r].pc = "none"
    BY <1>t, <2>1 DEF NoSave
  <2>4. ItemOK'
    BY <1>t, <2>1, <2>2 DEF ItemOK
  <2>5. OneSaves'
    BY <2>3 DEF OneSaves, Locking
  <2>6. \A p \in pics : posted[p] = "made"
    BY <1>t, <2>1 DEF RowsHaveFiles
  <2>7. AsSaved'
    BY <1>t, <2>1, <2>3, <2>6 DEF AsSaved
  <2> QED
    BY <2>4, <2>5, <2>7
\* A step of a save that the others do not see.
<1>9. ASSUME NEW s \in Saves, NEW r \in Saving, save' = [save EXCEPT ![s] = r],
             UNCHANGED <<item, shown, rows, posted>>,
             save[s].pc \notin {"none", "done"} \/ item.st # "none", save[s].pc # "done",
             r.pc \notin {"none", "done"},
             r.pc \in {"clear", "insert", "commit"} =>
               /\ item.st = "row" /\ Locking \subseteq {s}
               /\ r.pc \in {"insert", "commit"} => shown \subseteq r.cleared
               /\ r.pc = "commit" => r.pics \subseteq rows
      PROVE  Goal
  <2>1. save'[s] = r /\ \A x \in Saves : x # s => save'[x] = save[x]
    BY <1>9, <1>t
  <2>2. ItemOK'
    BY <1>9, <1>t DEF ItemOK
  <2>3. OneSaves'
    BY <1>9, <2>1 DEF OneSaves, Locking
  <2>4. AsSaved'
    BY <1>9, <1>t, <2>1 DEF AsSaved
  <2> QED
    BY <2>2, <2>3, <2>4
<1>10. ASSUME NEW s \in Saves, NEW pics \in SUBSET Photos, UpdateRequested(s, pics) PROVE Goal
  <2> DEFINE r == [NoSave EXCEPT !.pc = "update", !.pics = pics]
  <2>1. r \in Saving /\ r.pc = "update"
    BY DEF NoSave, Saving
  <2>2. save' = [save EXCEPT ![s] = r] /\ save[s].pc = "none" /\ item.st = "row"
    BY <1>10 DEF UpdateRequested
  <2> HIDE DEF r
  <2> QED
    BY <1>10, <2>1, <2>2, <1>9 DEF UpdateRequested, media
<1>11. ASSUME NEW s \in Saves, LockItem(s) PROVE Goal
  <2> DEFINE r == [save[s] EXCEPT !.pc = "clear"]
  <2>1. r \in Saving /\ r.pc = "clear"
    BY <1>t DEF Saving
  <2>2. save' = [save EXCEPT ![s] = r] /\ save[s].pc = "update" /\ item.st = "row" /\ Locking = {}
    BY <1>11 DEF LockItem
  <2> HIDE DEF r
  <2> QED
    BY <1>11, <2>1, <2>2, <1>9 DEF LockItem, media
<1>l. ASSUME NEW s \in Saves, save[s].pc \in {"clear", "insert", "commit"}
      PROVE  Locking \subseteq {s} /\ item.st = "row"
  BY <1>l DEF OneSaves, Locking
<1>12. ASSUME NEW s \in Saves, ClearPics(s) PROVE Goal
  <2> DEFINE r == [save[s] EXCEPT !.pc = "insert", !.cleared = shown]
  <2>1. r \in Saving /\ r.pc = "insert" /\ r.cleared = shown
    BY <1>t DEF Saving
  <2>2. save' = [save EXCEPT ![s] = r] /\ save[s].pc = "clear"
    BY <1>12 DEF ClearPics
  <2> HIDE DEF r
  <2> QED
    BY <1>12, <1>l, <2>1, <2>2, <1>9 DEF ClearPics, media
<1>13. ASSUME NEW s \in Saves, InsertPics(s) PROVE Goal
  <2> DEFINE r == [save[s] EXCEPT !.pc = "commit"]
  <2>1. r \in Saving /\ r.pc = "commit" /\ r.cleared = save[s].cleared /\ r.pics = save[s].pics
    BY <1>t DEF Saving
  <2>2. /\ save' = [save EXCEPT ![s] = r] /\ save[s].pc = "insert" /\ save[s].pics \subseteq rows
        /\ shown \subseteq save[s].cleared
    BY <1>13 DEF InsertPics, OneSaves, Locking
  <2> HIDE DEF r
  <2> QED
    BY <1>13, <1>l, <2>1, <2>2, <1>9 DEF InsertPics, media
<1>14. ASSUME NEW s \in Saves, SaveFails(s) PROVE Goal
  <2> DEFINE r == [NoSave EXCEPT !.pc = "failed"]
  <2>1. r \in Saving /\ r.pc = "failed"
    BY DEF NoSave, Saving
  <2>2. save' = [save EXCEPT ![s] = r] /\ save[s].pc \in {"update", "clear", "insert", "commit"}
    BY <1>14 DEF SaveFails
  <2> HIDE DEF r
  <2> QED
    BY <1>14, <2>1, <2>2, <1>9 DEF SaveFails, media
<1>15. ASSUME NEW s \in Saves, Commit(s) PROVE Goal
  <2> DEFINE r == [NoSave EXCEPT !.pc = "done", !.pics = save[s].pics]
  <2>1. r \in Saving /\ r.pc = "done" /\ r.pics = save[s].pics
    BY <1>t DEF NoSave, Saving
  <2>2. /\ save' = [save EXCEPT ![s] = r] /\ item' = [item EXCEPT !.by = s]
        /\ shown' = (shown \ save[s].cleared) \cup save[s].pics
        /\ rows' = rows /\ posted' = posted /\ save[s].pc = "commit"
    BY <1>15 DEF Commit, media
  <2> HIDE DEF r
  <2>3. item.st = "row" /\ Locking = {s} /\ shown' = save[s].pics /\ save[s].pics \subseteq rows
    BY <1>15, <2>2 DEF OneSaves, Locking
  <2>4. save'[s] = r /\ \A x \in Saves : x # s => save'[x] = save[x]
    BY <1>t, <2>2
  <2>5. item'.st = "row" /\ item'.by = s
    BY <1>t, <2>2, <2>3
  <2>6. ItemOK'
    BY <1>t, <2>1, <2>2, <2>3 DEF ItemOK
  <2>7. OneSaves'
    BY <2>1, <2>3, <2>4 DEF OneSaves, Locking
  <2>8. \A p \in save[s].pics : posted[p] = "made"
    BY <1>t, <2>3 DEF RowsHaveFiles
  <2>9. AsSaved'
    BY <1>t, <2>1, <2>2, <2>3, <2>4, <2>5, <2>8 DEF AsSaved
  <2> QED
    BY <2>6, <2>7, <2>9
<1>16. CASE DeleteItem
  <2>1. item'.st = "gone" /\ item' \in [st : {"none", "row", "gone"}, by : Saves \cup {Nothing}]
    BY <1>16, <1>t DEF DeleteItem
  <2> QED
    BY <1>16, <1>t, <2>1 DEF DeleteItem, media, ItemOK, OneSaves, Locking, AsSaved
<1>17. CASE Render \/ NextStep \/ AddItem \/ Reload \/ Finish \/ FinishFails \/ PostItems
  BY <1>17, <1>2 DEF Render, NextStep, AddItem, Reload, Finish, FinishFails, PostItems, media, portfolio
<1>18. ASSUME NEW i, RemoveItem(i) \/ RemovePhoto(i) \/ \E x \in Texts : Type(i, x) PROVE Goal
  BY <1>18, <1>2 DEF RemoveItem, RemovePhoto, Type, media, portfolio
<1>19. ASSUME NEW p, Preview(p) \/ \E ok \in BOOLEAN : Uploaded(p, ok) PROVE Goal
  BY <1>19, <1>2 DEF Preview, Uploaded, media, portfolio
<1>20. CASE UNCHANGED portfolioVars
  BY <1>20, <1>2 DEF portfolioVars
<1> QED
  BY <1>3, <1>4, <1>5, <1>6, <1>7, <1>8, <1>10, <1>11, <1>12, <1>13, <1>14, <1>15, <1>16, <1>17,
     <1>18, <1>19, <1>20 DEF PortfolioNext, Fill, Keep, Present

\* The invariant holds of an empty form and no photo.
LEMMA PortfolioInvInit == PortfolioInit => PortfolioInv
<1> SUFFICES ASSUME PortfolioInit PROVE PortfolioInv
  OBVIOUS
<1> USE DEF PortfolioInit
<1>1. WorksOK /\ WorkIsKept /\ KeptHolds
  BY DEF WorksOK, WorkIsKept, KeptHolds, Holds, NoCard
<1>2. PhotosOK /\ RowsHaveFiles
  BY DEF PhotosOK, RowsHaveFiles
<1>3. ItemOK
  BY DEF ItemOK, NoSave, Saving
<1>4. OneSaves /\ AsSaved
  BY DEF OneSaves, Locking, AsSaved, NoSave
<1> QED
  BY <1>1, <1>2, <1>3, <1>4 DEF PortfolioInv, PortfolioTypeOK

\* The invariant holds in every reachable state.
LEMMA PortfolioInvAlways == PortfolioSpec => []PortfolioInv
<1>1. PortfolioInv /\ [PortfolioNext]_portfolioVars => PortfolioInv'
  BY WorksKept, PhotosKept, ItemKept DEF PortfolioInv, PortfolioTypeOK
<1> QED
  BY <1>1, PortfolioInvInit, PTL DEF PortfolioSpec

\* The works in the browser, the photos and the item keep their types.
THEOREM PortfolioTypeCorrect == PortfolioSpec => []PortfolioTypeOK
<1>1. PortfolioInv => PortfolioTypeOK
  BY DEF PortfolioInv
<1> QED
  BY <1>1, PortfolioInvAlways, PTL

\* However previews, answers, removals and other works come in between, and
\* whichever writes fail to be persisted, what was put into a work stays in it,
\* but for its photo once an upload or its write has failed.
THEOREM WorksAreKept == PortfolioSpec => []WorkIsKept
<1>1. PortfolioInv => WorkIsKept
  BY DEF PortfolioInv
<1> QED
  BY <1>1, PortfolioInvAlways, PTL

\* However many saves, uploads and deletions overlap, an item shows the photos
\* of the save its text is from, less the deleted ones, and each has its file.
THEOREM ItemsAreWhole == PortfolioSpec => []ItemIsWhole
<1>1. PortfolioInv => ItemIsWhole
  BY DEF PortfolioInv, AsSaved, RowsHaveFiles, ItemIsWhole
<1> QED
  BY <1>1, PortfolioInvAlways, PTL

-----------------------------------------------------------------------------
(***************************************************************************)
(* Unread notifications                                                    *)
(***************************************************************************)
CachedPage == [loaded : BOOLEAN, unread : SUBSET Notes, count : Nat]

BadgeEvent == [kind : {"changed", "count"}, count : Nat]
Fetching == [pc : {"none", "sent", "listed", "counted"}, unread : SUBSET Notes, count : Nat]
Request ==
  [pc : {"idle", "posted", "marked", "told", "counted", "done"}, tab : Tabs \cup {Nobody},
   what : 0..MaxNotes, prev : CachedPage, count : Nat]

BadgeTypeOK ==
  /\ made \in 0..MaxNotes /\ unread \subseteq 1..made
  /\ unsent \in Nat
  /\ queue \in [Tabs -> Seq(BadgeEvent)]
  /\ cache \in [Tabs -> CachedPage]
  /\ fetch \in [Tabs -> Fetching]
  /\ calls \in [Calls -> Request]
  /\ excuse \in [Tabs -> BOOLEAN]

\* Every tab is going to be told: rows were marked, and not yet announced, or
\* the announcement waits for it.
Coming(t) ==
  \/ unsent > 0
  \/ \E c \in Calls : calls[c].pc = "marked"
  \/ queue[t] # <<>>

Shows(page) == page.unread = FirstPage /\ page.count = Cardinality(unread)

\* Unless it is excused or going to be told, what a running fetch has read is
\* right, and without one the cache is, or the tab waits for an answer.
OnItsWay(t) ==
  \/ excuse[t] \/ Coming(t)
  \/ fetch[t].pc = "sent"
  \/ fetch[t].pc = "listed" /\ fetch[t].unread = FirstPage
  \/ fetch[t].pc = "counted" /\ Shows(fetch[t])
  \/ fetch[t].pc = "none" /\ (Shows(cache[t]) \/ \E c \in Calls : calls[c].tab = t)

BadgeInv ==
  /\ BadgeTypeOK
  /\ \A c \in Calls : calls[c].pc = "idle" => calls[c].tab = Nobody
  /\ \A t \in Tabs : OnItsWay(t)

-----------------------------------------------------------------------------
\* A set of notifications has a number of members.
LEMMA Counts ==
  ASSUME NEW S \in SUBSET Notes
  PROVE  Cardinality(S) \in Nat
<1>1. IsFiniteSet(Notes)
  BY UnreadAssumption, FS_Interval DEF Notes
<1> QED
  BY <1>1, FS_Subset, FS_CardinalityType

\* After an event or an answer the tab fetches again, or is excused.
LEMMA Invalidated ==
  ASSUME BadgeTypeOK, NEW t \in Tabs, Invalidate(t)
  PROVE  /\ fetch' \in [Tabs -> Fetching]
         /\ excuse' \in [Tabs -> BOOLEAN]
         /\ excuse'[t] \/ fetch'[t].pc = "sent"
         /\ \A u \in Tabs : u # t => fetch'[u] = fetch[u] /\ excuse'[u] = excuse[u]
<1>1. Sent \in Fetching /\ Sent.pc = "sent"
  BY DEF Sent, NoFetch, Fetching
<1> QED
  BY <1>1 DEF BadgeTypeOK, Invalidate

\* An event waits for every tab.
LEMMA Emitted ==
  ASSUME BadgeTypeOK, NEW event \in BadgeEvent, Emit(event)
  PROVE  /\ queue' \in [Tabs -> Seq(BadgeEvent)]
         /\ \A t \in Tabs : queue'[t] # <<>>
<1>1. \A t \in Tabs : Append(queue[t], event) \in Seq(BadgeEvent) /\ Append(queue[t], event) # <<>>
  BY AppendProperties DEF BadgeTypeOK
<1>2. queue' = [t \in Tabs |-> Append(queue[t], event)]
  BY DEF Emit
<1> QED
  BY <1>1, <1>2

\* Every step keeps the types.
LEMMA BadgeTypeKept == BadgeTypeOK /\ [BadgeNext]_badgeVars => BadgeTypeOK'
<1> SUFFICES ASSUME BadgeTypeOK, [BadgeNext]_badgeVars PROVE BadgeTypeOK'
  OBVIOUS
<1> USE UnreadAssumption DEF BadgeTypeOK, db
<1>p. FirstPage \in SUBSET Notes /\ Cardinality(unread) \in Nat
  <2>1. unread \in SUBSET Notes
    BY DEF Notes
  <2> QED
    BY <2>1, Counts DEF FirstPage
<1>n. MaxNotes \in Nat
  OBVIOUS
<1>i. Idle \in Request
  BY DEF Idle, All, Empty, CachedPage, Request
<1>1. ASSUME NEW announced \in BOOLEAN, Create(announced) PROVE BadgeTypeOK'
  <2>1. made' \in 0..MaxNotes /\ unread' \subseteq 1..made' /\ unsent' \in Nat
    BY <1>1, <1>n DEF Create
  <2> QED
    BY <1>1, <2>1 DEF Create
<1>2. CASE EmitCounter
  <2>1. [kind |-> "changed", count |-> 0] \in BadgeEvent
    BY DEF BadgeEvent
  <2> QED
    BY <1>2, <2>1, Emitted DEF EmitCounter
<1>3. ASSUME NEW c \in Calls, Mark(c) PROVE BadgeTypeOK'
  <2>1. calls' \in [Calls -> Request]
    <3>1. calls' = [calls EXCEPT ![c] = [calls[c] EXCEPT !.pc = "marked"]]
      BY <1>3 DEF Mark
    <3> QED
      BY <3>1 DEF Request
  <2> QED
    BY <1>3, <2>1 DEF Mark
<1>4. ASSUME NEW c \in Calls, EmitRead(c) PROVE BadgeTypeOK'
  <2>1. [kind |-> "changed", count |-> 0] \in BadgeEvent
    BY DEF BadgeEvent
  <2>2. calls' \in [Calls -> Request]
    <3>1. calls' = [calls EXCEPT ![c] = [calls[c] EXCEPT !.pc = "told"]]
      BY <1>4 DEF EmitRead
    <3> QED
      BY <3>1 DEF Request
  <2> QED
    BY <1>4, <2>1, <2>2, Emitted DEF EmitRead
<1>5. ASSUME NEW c \in Calls, CountUnread(c) PROVE BadgeTypeOK'
  <2> DEFINE r == [calls[c] EXCEPT !.pc = "counted", !.count = Cardinality(unread)]
  <2>0. r \in Request
    BY <1>p DEF Request
  <2>1. calls' \in [Calls -> Request]
    <3>1. calls' = [calls EXCEPT ![c] = r]
      BY <1>5 DEF CountUnread
    <3> HIDE DEF r
    <3> QED
      BY <2>0, <3>1
  <2> QED
    BY <1>5, <2>1 DEF CountUnread
<1>6. ASSUME NEW c \in Calls, EmitCount(c) PROVE BadgeTypeOK'
  <2>1. [kind |-> "count", count |-> calls[c].count] \in BadgeEvent
    BY DEF BadgeEvent, Request
  <2>2. queue' \in [Tabs -> Seq(BadgeEvent)]
    BY <1>6, <2>1, Emitted DEF EmitCount
  <2>3. calls' \in [Calls -> Request]
    <3>1. calls' = [calls EXCEPT ![c] = [calls[c] EXCEPT !.pc = "done", !.count = 0]]
      BY <1>6 DEF EmitCount
    <3> QED
      BY <3>1 DEF Request
  <2> QED
    BY <1>6, <2>2, <2>3 DEF EmitCount
<1>7. ASSUME NEW c \in Calls, Succeed(c) PROVE BadgeTypeOK'
  BY <1>7, <1>i, Invalidated DEF Succeed
<1>8. ASSUME NEW c \in Calls, Fail(c) PROVE BadgeTypeOK'
  <2>1. calls' \in [Calls -> Request]
    <3>1. calls' = [calls EXCEPT ![c] = [calls[c] EXCEPT !.tab = Nobody, !.prev = Empty]]
      BY <1>8 DEF Fail
    <3>2. Empty \in CachedPage
      BY DEF Empty, CachedPage
    <3> QED
      BY <3>1, <3>2 DEF Request
  <2>2. cache' \in [Tabs -> CachedPage]
    BY <1>8 DEF Fail, Request
  <2> QED
    BY <1>8, <2>1, <2>2 DEF Fail
<1>9. ASSUME NEW c \in Calls, Drop(c) PROVE BadgeTypeOK'
  BY <1>9, <1>i DEF Drop
<1>10. ASSUME NEW c \in Calls, NEW what \in 0..made, Order(c, what) PROVE BadgeTypeOK'
  <2>1. [Idle EXCEPT !.pc = "posted", !.what = what] \in Request
    <3>1. what \in 0..MaxNotes
      BY <1>n
    <3> QED
      BY <1>i, <3>1 DEF Idle, Request
  <2> QED
    BY <1>10, <2>1 DEF Order
<1>11. ASSUME NEW c \in Calls, NEW t \in Tabs, NEW what \in cache[t].unread \cup {All},
              Click(c, t, what)
       PROVE  BadgeTypeOK'
  <2>1. cache[t] \in CachedPage /\ what \in 0..MaxNotes
    BY DEF CachedPage, Notes, All
  <2>2. MarkedInCache(cache[t], what) \in CachedPage
    <3> DEFINE left == IF what = All THEN {} ELSE cache[t].unread \ {what}
    <3>1. left \in SUBSET Notes
      BY <2>1 DEF CachedPage
    <3>2. Cardinality(left) \in Nat
      BY <3>1, Counts
    <3>3. MarkedInCache(cache[t], what) = [cache[t] EXCEPT !.unread = left, !.count = Cardinality(left)]
      BY DEF MarkedInCache
    <3> HIDE DEF left
    <3> QED
      BY <2>1, <3>1, <3>2, <3>3 DEF CachedPage
  <2>3. [Idle EXCEPT !.pc = "posted", !.tab = t, !.what = what, !.prev = cache[t]] \in Request
    BY <2>1 DEF Idle, Request
  <2> QED
    BY <1>11, <2>2, <2>3 DEF Click, NoFetch, Fetching
<1>12. ASSUME NEW t \in Tabs, Hear(t) PROVE BadgeTypeOK'
  <2>1. queue' \in [Tabs -> Seq(BadgeEvent)]
    BY <1>12 DEF Hear
  <2>2. Head(queue[t]).count \in Nat
    <3>1. queue[t] \in Seq(BadgeEvent) /\ queue[t] # <<>>
      BY <1>12 DEF Hear
    <3>2. Head(queue[t]) \in BadgeEvent
      BY <3>1, HeadTailProperties
    <3> QED
      BY <3>2 DEF BadgeEvent
  <2>3. cache' \in [Tabs -> CachedPage]
    BY <1>12, <2>2 DEF Hear, CachedPage
  <2> QED
    BY <1>12, <2>1, <2>3, Invalidated DEF Hear
<1>13. ASSUME NEW t \in Tabs, Refetch(t) PROVE BadgeTypeOK'
  BY <1>13 DEF Refetch, Sent, NoFetch, Fetching
<1>14. ASSUME NEW t \in Tabs, List(t) PROVE BadgeTypeOK'
  BY <1>14, <1>p DEF List, Fetching
<1>15. ASSUME NEW t \in Tabs, GetUnreadCount(t) PROVE BadgeTypeOK'
  BY <1>15, <1>p DEF GetUnreadCount, Fetching
<1>16. ASSUME NEW t \in Tabs, Fetched(t) PROVE BadgeTypeOK'
  BY <1>16 DEF Fetched, NoFetch, CachedPage, Fetching
<1>17. ASSUME NEW t \in Tabs, FetchFails(t) PROVE BadgeTypeOK'
  BY <1>17 DEF FetchFails, NoFetch, Fetching
<1>18. CASE UNCHANGED badgeVars
  BY <1>18 DEF badgeVars
<1> QED
  BY <1>1, <1>2, <1>3, <1>4, <1>5, <1>6, <1>7, <1>8, <1>9, <1>10, <1>11, <1>12, <1>13, <1>14,
     <1>15, <1>16, <1>17, <1>18 DEF BadgeNext

-----------------------------------------------------------------------------
\* A step that leaves the rows and the tab alone keeps what is on its way to it.
LEMMA TabKept ==
  ASSUME BadgeInv, NEW t \in Tabs,
         UNCHANGED <<db, cache>>, fetch'[t] = fetch[t], excuse'[t] = excuse[t],
         Coming(t) => Coming(t)',
         (\E c \in Calls : calls[c].tab = t) => \E c \in Calls : calls'[c].tab = t
  PROVE  OnItsWay(t)'
BY DEF BadgeInv, OnItsWay, Shows, FirstPage, db

\* A tab that is excused, owed an event or about to fetch needs to show nothing yet.
LEMMA Refetches ==
  ASSUME NEW t, excuse'[t] \/ Coming(t)' \/ fetch'[t].pc = "sent"
  PROVE  OnItsWay(t)'
BY DEF OnItsWay

\* Every step leaves a tab right, or what will set it right under way.
LEMMA BadgeInvKept == BadgeInv /\ [BadgeNext]_badgeVars => BadgeInv'
<1> SUFFICES ASSUME BadgeInv, [BadgeNext]_badgeVars PROVE BadgeInv'
  OBVIOUS
<1>t. BadgeTypeOK /\ BadgeTypeOK'
  BY BadgeTypeKept DEF BadgeInv
<1>a. /\ calls \in [Calls -> Request] /\ fetch \in [Tabs -> Fetching]
      /\ cache \in [Tabs -> CachedPage] /\ excuse \in [Tabs -> BOOLEAN]
      /\ \A c \in Calls : calls[c].pc = "idle" => calls[c].tab = Nobody
  BY <1>t DEF BadgeTypeOK, BadgeInv
<1> DEFINE Free == \A c \in Calls : calls'[c].pc = "idle" => calls'[c].tab = Nobody
           Way == \A t \in Tabs : OnItsWay(t)'
<1>b. SUFFICES Free /\ Way
  BY <1>t DEF BadgeInv
<1> USE UnreadAssumption
<1>1. ASSUME NEW announced \in BOOLEAN, Create(announced) PROVE Free /\ Way
  <2>1. \A t \in Tabs : excuse'[t] \/ unsent' > 0
    BY <1>1, <1>t DEF Create, BadgeTypeOK
  <2> QED
    BY <1>1, <1>a, <2>1, Refetches DEF Create, Coming
<1>2. CASE EmitCounter
  <2>1. \A t \in Tabs : queue'[t] # <<>>
    <3>1. [kind |-> "changed", count |-> 0] \in BadgeEvent
      BY DEF BadgeEvent
    <3> QED
      BY <1>2, <1>t, <3>1, Emitted DEF EmitCounter
  <2> QED
    BY <1>2, <1>a, <2>1, Refetches DEF EmitCounter, Coming
<1>3. ASSUME NEW c \in Calls, Mark(c) PROVE Free /\ Way
  <2>1. calls'[c].pc = "marked" /\ Free
    BY <1>3, <1>a DEF Mark, Request
  <2> QED
    BY <2>1, Refetches DEF Coming
<1>4. ASSUME NEW c \in Calls, EmitRead(c) PROVE Free /\ Way
  <2>1. \A t \in Tabs : queue'[t] # <<>>
    <3>1. [kind |-> "changed", count |-> 0] \in BadgeEvent
      BY DEF BadgeEvent
    <3> QED
      BY <1>4, <1>t, <3>1, Emitted DEF EmitRead
  <2>2. Free
    BY <1>4, <1>a DEF EmitRead, Request
  <2> QED
    BY <2>1, <2>2, Refetches DEF Coming
\* A request that has announced what it did, or has not begun, goes on.
<1>5. ASSUME NEW c \in Calls, NEW r, calls' = [calls EXCEPT ![c] = r],
             calls[c].pc # "marked", r.tab = calls[c].tab, r.pc = "idle" => r.tab = Nobody,
             UNCHANGED <<db, unsent, cache, fetch, excuse>>,
             \A t \in Tabs : queue[t] # <<>> => queue'[t] # <<>>
      PROVE  Free /\ Way
  <2>1. \A d \in Calls : calls'[d].tab = calls[d].tab
    BY <1>5, <1>a
  <2>2. \A d \in Calls : calls[d].pc = "marked" => calls'[d].pc = "marked"
    BY <1>5, <1>a
  <2>3. Free
    BY <1>5, <1>a
  <2>4. \A t \in Tabs : Coming(t) => Coming(t)'
    BY <1>5, <2>2 DEF Coming
  <2> QED
    BY <1>5, <2>1, <2>3, <2>4, TabKept
<1>6. ASSUME NEW c \in Calls, CountUnread(c) PROVE Free /\ Way
  <2> DEFINE r == [calls[c] EXCEPT !.pc = "counted", !.count = Cardinality(unread)]
  <2>1. calls' = [calls EXCEPT ![c] = r]
    BY <1>6 DEF CountUnread
  <2>2. r.tab = calls[c].tab /\ r.pc = "counted"
    BY <1>a DEF Request
  <2> HIDE DEF r
  <2> QED
    BY <1>6, <2>1, <2>2, <1>5 DEF CountUnread
<1>7. ASSUME NEW c \in Calls, EmitCount(c) PROVE Free /\ Way
  <2> DEFINE r == [calls[c] EXCEPT !.pc = "done", !.count = 0]
  <2>1. calls' = [calls EXCEPT ![c] = r]
    BY <1>7 DEF EmitCount
  <2>2. r.tab = calls[c].tab /\ r.pc = "done"
    BY <1>a DEF Request
  <2>3. \A t \in Tabs : queue[t] # <<>> => queue'[t] # <<>>
    <3>1. [kind |-> "count", count |-> calls[c].count] \in BadgeEvent
      BY <1>a DEF BadgeEvent, Request
    <3> QED
      BY <1>7, <1>t, <3>1, Emitted DEF EmitCount
  <2> HIDE DEF r
  <2> QED
    BY <1>7, <2>1, <2>2, <2>3, <1>5 DEF EmitCount
<1>8. ASSUME NEW c \in Calls, Order(c, 0) \/ \E what \in 0..made : Order(c, what) PROVE Free /\ Way
  <2>1. PICK what : Order(c, what)
    BY <1>8
  <2> DEFINE r == [Idle EXCEPT !.pc = "posted", !.what = what]
  <2>2. r.tab = Nobody /\ r.pc = "posted"
    BY DEF Idle
  <2>3. calls' = [calls EXCEPT ![c] = r] /\ calls[c].tab = Nobody /\ calls[c].pc = "idle"
    BY <2>1, <1>a DEF Order
  <2> HIDE DEF r
  <2> QED
    BY <2>1, <2>2, <2>3, <1>5 DEF Order
<1>9. ASSUME NEW c \in Calls, Drop(c) PROVE Free /\ Way
  <2>1. Idle.tab = Nobody
    BY DEF Idle
  <2> QED
    BY <1>9, <2>1, <1>5 DEF Drop
\* Another tab, which sees nothing of it.
<1>10. ASSUME NEW t \in Tabs, NEW u \in Tabs, u # t, fetch'[u] = fetch[u], excuse'[u] = excuse[u],
              cache'[u] = cache[u], UNCHANGED <<db, unsent>>, queue'[u] = queue[u],
              \A c \in Calls : calls[c].pc = "marked" => calls'[c].pc = "marked",
              \A c \in Calls : calls[c].tab = u => calls'[c].tab = u
       PROVE  OnItsWay(u)'
  <2>1. Coming(u) => Coming(u)'
    BY <1>10 DEF Coming
  <2> QED
    BY <1>10, <2>1 DEF BadgeInv, OnItsWay, Shows, FirstPage, db
<1>11. ASSUME NEW c \in Calls, Succeed(c) PROVE Free /\ Way
  <2>0. PICK t \in Tabs : t = calls[c].tab
    BY <1>11 DEF Succeed
  <2>1. calls' = [calls EXCEPT ![c] = Idle] /\ calls[c].pc = "done" /\ Invalidate(t)
    BY <1>11, <2>0 DEF Succeed
  <2>2. Idle.tab = Nobody
    BY DEF Idle
  <2>3. OnItsWay(t)'
    BY <1>t, <2>1, Invalidated, Refetches
  <2>4. ASSUME NEW u \in Tabs, u # t PROVE OnItsWay(u)'
    BY <1>11, <1>a, <1>t, <2>0, <2>1, <2>4, Invalidated, <1>10 DEF Succeed
  <2> QED
    BY <1>a, <2>1, <2>2, <2>3, <2>4
<1>12. ASSUME NEW c \in Calls, Fail(c) PROVE Free /\ Way
  <2> DEFINE r == [calls[c] EXCEPT !.tab = Nobody, !.prev = Empty]
  <2>0. PICK t \in Tabs : t = calls[c].tab
    BY <1>12 DEF Fail
  <2>1. calls' = [calls EXCEPT ![c] = r]
    BY <1>12 DEF Fail
  <2>2. r.tab = Nobody /\ r.pc = calls[c].pc
    BY <1>a DEF Request
  <2>3. \A d \in Calls : calls'[d].pc = calls[d].pc
    BY <1>a, <2>1, <2>2
  <2>4. OnItsWay(t)'
    <3>1. Coming(t) => Coming(t)'
      BY <1>12, <2>3 DEF Fail, Coming, db
    <3>2. fetch[t].pc = "none" => excuse'[t]
      BY <1>12, <1>a, <2>0 DEF Fail
    <3>3. excuse[t] => excuse'[t]
      BY <1>12, <1>a, <2>0 DEF Fail
    <3> QED
      BY <1>12, <2>0, <2>1, <3>1, <3>2, <3>3 DEF Fail, BadgeInv, OnItsWay, Shows, FirstPage, db
  <2>5. ASSUME NEW u \in Tabs, u # t PROVE OnItsWay(u)'
    <3>1. \A d \in Calls : calls[d].tab = u => calls'[d].tab = u
      BY <1>a, <2>0, <2>1, <2>5
    <3>2. cache'[u] = cache[u] /\ excuse'[u] = excuse[u]
      BY <1>12, <1>a, <2>0, <2>5 DEF Fail
    <3> QED
      BY <1>12, <2>1, <2>3, <2>5, <3>1, <3>2, <1>10 DEF Fail
  <2>6. Free
    BY <1>a, <2>1, <2>2
  <2> QED
    BY <2>4, <2>5, <2>6
<1>13. ASSUME NEW c \in Calls, NEW t \in Tabs, NEW what, Click(c, t, what) PROVE Free /\ Way
  <2> DEFINE r == [Idle EXCEPT !.pc = "posted", !.tab = t, !.what = what, !.prev = cache[t]]
  <2>1. r.tab = t /\ r.pc = "posted"
    BY DEF Idle
  <2>2. calls' = [calls EXCEPT ![c] = r] /\ calls[c].pc = "idle" /\ calls[c].tab = Nobody
    BY <1>13, <1>a DEF Click
  <2> HIDE DEF r
  <2>3. OnItsWay(t)'
    <3>1. fetch'[t].pc = "none" /\ calls'[c].tab = t
      BY <1>13, <1>a, <2>1, <2>2 DEF Click, NoFetch
    <3> QED
      BY <3>1 DEF OnItsWay
  <2>4. ASSUME NEW u \in Tabs, u # t PROVE OnItsWay(u)'
    <3>1. fetch'[u] = fetch[u] /\ cache'[u] = cache[u]
      BY <1>13, <1>a, <2>4 DEF Click
    <3>2. /\ \A d \in Calls : calls[d].tab = u => calls'[d].tab = u
          /\ \A d \in Calls : calls[d].pc = "marked" => calls'[d].pc = "marked"
      BY <1>a, <2>2, <2>4
    <3> QED
      BY <1>13, <2>4, <3>1, <3>2, <1>10 DEF Click
  <2> QED
    BY <1>a, <2>1, <2>2, <2>3, <2>4
\* Steps of one tab's page leave requests and other tabs alone.
<1>14. ASSUME NEW t \in Tabs, UNCHANGED <<db, unsent, calls>>, OnItsWay(t)',
              \A u \in Tabs : u # t => /\ fetch'[u] = fetch[u] /\ excuse'[u] = excuse[u]
                                       /\ cache'[u] = cache[u] /\ queue'[u] = queue[u]
       PROVE  Free /\ Way
  BY <1>14, <1>a, <1>10
<1>15. ASSUME NEW t \in Tabs, Hear(t) PROVE Free /\ Way
  <2>1. OnItsWay(t)'
    BY <1>15, <1>t, Invalidated, Refetches DEF Hear
  <2>2. \A u \in Tabs : u # t => cache'[u] = cache[u] /\ queue'[u] = queue[u]
    BY <1>15, <1>t DEF Hear, BadgeTypeOK
  <2> QED
    BY <1>15, <1>t, <2>1, <2>2, Invalidated, <1>14 DEF Hear
<1>16. ASSUME NEW t \in Tabs, Refetch(t) PROVE Free /\ Way
  <2>1. Sent.pc = "sent"
    BY DEF Sent, NoFetch
  <2> QED
    BY <1>16, <1>a, <2>1, Refetches, <1>14 DEF Refetch
<1>17. ASSUME NEW t \in Tabs, List(t) PROVE Free /\ Way
  <2>1. fetch'[t].pc = "listed" /\ fetch'[t].unread = FirstPage
    BY <1>17, <1>a DEF List, Fetching
  <2>2. OnItsWay(t)'
    BY <1>17, <2>1 DEF OnItsWay, List, FirstPage, db
  <2> QED
    BY <1>17, <1>a, <2>2, <1>14 DEF List
<1>18. ASSUME NEW t \in Tabs, GetUnreadCount(t) PROVE Free /\ Way
  <2>1. fetch'[t].pc = "counted" /\ fetch'[t].unread = fetch[t].unread /\ fetch'[t].count = Cardinality(unread)
    BY <1>18, <1>a DEF GetUnreadCount, Fetching
  <2>2. Coming(t) => Coming(t)'
    BY <1>18 DEF GetUnreadCount, Coming
  <2>3. OnItsWay(t)'
    BY <1>18, <2>1, <2>2 DEF BadgeInv, OnItsWay, GetUnreadCount, Shows, FirstPage, db
  <2> QED
    BY <1>18, <1>a, <2>3, <1>14 DEF GetUnreadCount
<1>19. ASSUME NEW t \in Tabs, Fetched(t) PROVE Free /\ Way
  <2>1. fetch'[t].pc = "none" /\ cache'[t].unread = fetch[t].unread /\ cache'[t].count = fetch[t].count
    BY <1>19, <1>a DEF Fetched, NoFetch
  <2>2. Coming(t) => Coming(t)'
    BY <1>19 DEF Fetched, Coming
  <2>3. OnItsWay(t)'
    BY <1>19, <2>1, <2>2 DEF BadgeInv, OnItsWay, Fetched, Shows, FirstPage, db
  <2> QED
    BY <1>19, <1>a, <2>3, <1>14 DEF Fetched
<1>20. ASSUME NEW t \in Tabs, FetchFails(t) PROVE Free /\ Way
  BY <1>20, <1>a, Refetches, <1>14 DEF FetchFails
<1>21. CASE UNCHANGED badgeVars
  BY <1>21, <1>a, TabKept DEF badgeVars, Coming
<1> QED
  BY <1>1, <1>2, <1>3, <1>4, <1>6, <1>7, <1>8, <1>9, <1>11, <1>12, <1>13, <1>15, <1>16, <1>17,
     <1>18, <1>19, <1>20, <1>21 DEF BadgeNext

\* An empty cache has its first fetch before it.
LEMMA BadgeInvInit == BadgeInit => BadgeInv
<1> SUFFICES ASSUME BadgeInit PROVE BadgeInv
  OBVIOUS
<1> USE UnreadAssumption DEF BadgeInit
<1>1. Empty \in CachedPage /\ Sent \in Fetching /\ Sent.pc = "sent"
  BY DEF Empty, CachedPage, Sent, NoFetch, Fetching
<1>2. Idle \in Request /\ Idle.tab = Nobody
  BY <1>1 DEF Idle, All, Request
<1>3. BadgeTypeOK
  BY <1>1, <1>2 DEF BadgeTypeOK
<1> QED
  BY <1>1, <1>2, <1>3 DEF BadgeInv, OnItsWay

\* The invariant holds in every reachable state.
LEMMA BadgeInvAlways == BadgeSpec => []BadgeInv
BY BadgeInvInit, BadgeInvKept, PTL DEF BadgeSpec

\* The rows, the events, the requests and each tab's cache and fetch keep
\* their types.
THEOREM BadgeTypeCorrect == BadgeSpec => []BadgeTypeOK
<1>1. BadgeInv => BadgeTypeOK
  BY DEF BadgeInv
<1> QED
  BY <1>1, BadgeInvAlways, PTL

\* In a settled tab nothing is under way: it shows the rows.
LEMMA SettledShows ==
  ASSUME BadgeInv, NEW t \in Tabs, Settled(t), ~excuse[t]
  PROVE  Shows(cache[t])
BY DEF BadgeInv, OnItsWay, Coming, Settled

\* However counts, refetches and optimistic changes overtake each other, a
\* settled tab shows the number of unread rows, but for the excuses that
\* BadgeSettles names.
THEOREM CountComesRight == BadgeSpec => []BadgeSettles
<1>1. BadgeInv => BadgeSettles
  BY SettledShows DEF BadgeSettles, Shows
<1> QED
  BY <1>1, BadgeInvAlways, PTL

\* On the same conditions its list shows as unread exactly the unread rows of the first page.
THEOREM ListComesRight == BadgeSpec => []ListSettles
<1>1. BadgeInv => ListSettles
  BY SettledShows DEF ListSettles, Shows
<1> QED
  BY <1>1, BadgeInvAlways, PTL

==============================================================================
