--------------------------- MODULE OrderDealProofs ---------------------------
(***************************************************************************)
(* Proofs about OrderDeal, for any freelancers and any number of requests. *)
(*                                                                         *)
(* The argument.  Say that freelancer f is entitled when, if the order     *)
(* still exists, its escrow is for f and f has a proposal.  No step takes  *)
(* this away: escrow rows only change their status and proposals only      *)
(* theirs, until the order is deleted with all its rows.  So a stale copy  *)
(* cannot become wrong about it, and it suffices that every copy was right *)
(* when it was made: that is what IInv says of the rows and of the copies  *)
(* in flight.                                                              *)
(***************************************************************************)
EXTENDS OrderDeal, TLAPS

Entitled(f) == Exists => FundedFor(f) /\ proposal[f] # "none"

\* A row of orders, or a copy of it.
RowInv(row) ==
  /\ row.status = "in_progress" => row.freelancer # NoOne
  /\ row.freelancer # NoOne =>
       /\ row.status \in {"in_progress", "completed"}
       /\ Entitled(row.freelancer)

\* A request in flight.
ReqType(q) ==
  /\ q.pc \in {"requirements", "save", "hold", "assign", "release", "finish"}
       => q.row \in OrderRow
  /\ q.pc \notin {"idle", "requirements", "save"} => q.f \in Freelancers
  /\ q.pc \in {"readOrder", "hold", "write"} => q.to \in ProposalStatus
  /\ q.pc = "hold" => q.to = "accepted"
  /\ q.pc = "write" /\ q.to = "accepted" => q.row \in OrderRow
ReqInv(q) ==
  /\ RowInv(q.row)
  /\ q.was = "accepted" => q.f \in Freelancers /\ Entitled(q.f)
  /\ (q.pc = "write" /\ q.to = "accepted") \/ q.pc = "assign" => Entitled(q.f)
  /\ q.pc \in {"readOrder", "hold", "write", "assign", "talk"} /\ Exists
       => proposal[q.f] # "none"

\* ON DELETE CASCADE
GoneIsEmpty ==
  ~Exists => /\ escrow = NoEscrow
             /\ \A f \in Freelancers : proposal[f] = "none"
             /\ conversation = {}

IInv ==
  /\ TypeOK
  /\ GoneIsEmpty
  /\ RowInv(order)
  /\ \A f \in Freelancers : proposal[f] = "accepted" => Entitled(f)
  /\ ConversationHasProposal
  /\ \A r \in Requests : ReqType(req[r]) /\ ReqInv(req[r])

-----------------------------------------------------------------------------
\* Only the request that takes a step changes its state.
LEMMA GoesOne ==
  ASSUME TypeOK, NEW r \in Requests, NEW q, Goes(r, q)
  PROVE  /\ req'[r] = q
         /\ \A s \in Requests \ {r} : req'[s] = req[s]
         /\ q \in RequestState => req' \in [Requests -> RequestState]
BY DEF TypeOK, Goes

\* The states the steps of a request lead to are of the right type.
LEMMA RequestTypes ==
  ASSUME TypeOK, NEW r \in Requests, ReqType(req[r])
  PROVE  /\ Idle \in RequestState
         /\ \A f \in Freelancers : Talk(f) \in RequestState
         /\ Starts(r) \/ Continues(r) \/ Abort(r) => req' \in [Requests -> RequestState]
<1>t. req[r] \in RequestState /\ order \in OrderRow \cup {Deleted} /\ requirements \in BOOLEAN
  BY DEF TypeOK
<1>p. \A f \in Freelancers : proposal[f] \in ProposalStatus \cup {"none"}
  BY DEF TypeOK
<1>1. Idle \in RequestState
  BY DEF Idle, RequestState, Pc
<1>2. ASSUME NEW f \in Freelancers PROVE Talk(f) \in RequestState
  BY DEF Talk, Idle, RequestState, Pc
<1>s. SUFFICES ASSUME Starts(r) \/ Continues(r) \/ Abort(r)
               PROVE  req' \in [Requests -> RequestState]
  BY <1>1, <1>2
<1>3. ASSUME NEW q \in RequestState, req' = [req EXCEPT ![r] = q]
      PROVE  req' \in [Requests -> RequestState]
  BY <1>3, GoesOne DEF Goes
<1>4. CASE UpdateRead(r) \/ PublishRead(r)
  <2>1. CASE UpdateRead(r)
    <3>1. [Idle EXCEPT !.pc = "requirements", !.row = order] \in RequestState
      BY <1>t DEF Idle, RequestState, Pc
    <3> QED
      BY <2>1, <3>1, <1>3 DEF UpdateRead, Goes
  <2>2. CASE PublishRead(r)
    <3>0. [order EXCEPT !.status = "published"] \in OrderRow
      BY <2>2, <1>t DEF PublishRead, OrderRow, OrderStatus, Deleted
    <3>1. [Idle EXCEPT !.pc = "save", !.row = [order EXCEPT !.status = "published"]]
            \in RequestState
      BY <3>0 DEF Idle, RequestState, Pc
    <3> QED
      BY <2>2, <3>1, <1>3 DEF PublishRead, Goes
  <2> QED
    BY <1>4, <2>1, <2>2
<1>5. ASSUME NEW f \in Freelancers, ProposeRead(r, f) \/ CompleteReadOrder(r, f)
      PROVE  req' \in [Requests -> RequestState]
  <2>1. /\ [Idle EXCEPT !.pc = "insert", !.f = f] \in RequestState
        /\ [Idle EXCEPT !.pc = "proposals", !.f = f] \in RequestState
    BY DEF Idle, RequestState, Pc
  <2> QED
    BY <1>5, <2>1, <1>3 DEF ProposeRead, CompleteReadOrder, Goes
<1>6. ASSUME NEW f \in Freelancers, NEW to \in ProposalStatus,
             StatusReadProposal(r, f, to)
      PROVE  req' \in [Requests -> RequestState]
  <2>1. [Idle EXCEPT !.pc = "readOrder", !.f = f, !.to = to, !.was = proposal[f]]
          \in RequestState
    BY <1>p DEF Idle, RequestState, Pc
  <2> QED
    BY <1>6, <2>1, <1>3 DEF StatusReadProposal, Goes
<1>7. ASSUME NEW pc \in Pc PROVE [req[r] EXCEPT !.pc = pc] \in RequestState
  BY <1>t DEF RequestState
<1>8. CASE \/ UpdateRequirements(r) \/ CompleteReadProposals(r)
           \/ CompleteRelease(r)
  BY <1>8, <1>7, <1>3 DEF UpdateRequirements, CompleteReadProposals, CompleteRelease, Pc, Goes
<1>9. CASE SaveOrder(r) \/ EnsureConversation(r) \/ CompleteWrite(r) \/ Abort(r)
  BY <1>9, <1>1, <1>3 DEF SaveOrder, EnsureConversation, CompleteWrite, Abort, Goes
<1>10. CASE ProposeInsert(r) \/ AssignOrder(r)
  <2>1. req[r].f \in Freelancers
    BY <1>10 DEF ProposeInsert, AssignOrder, At, ReqType
  <2> QED
    BY <1>10, <2>1, <1>2, <1>3 DEF ProposeInsert, AssignOrder, Goes
<1>11. CASE StatusReadOrder(r)
  <2>1. /\ [req[r] EXCEPT !.pc = "hold", !.row = order] \in RequestState
        /\ [req[r] EXCEPT !.pc = "write", !.was = "none"] \in RequestState
    BY <1>t DEF RequestState, Pc
  <2> QED
    BY <1>11, <2>1, <1>3 DEF StatusReadOrder, Goes
<1>12. CASE AcceptHold(r)
  <2>1. [req[r] EXCEPT !.pc = "write", !.was = "none"] \in RequestState
    BY <1>t DEF RequestState, Pc
  <2> QED
    BY <1>12, <2>1, <1>3 DEF AcceptHold, Goes
<1>13. CASE StatusWrite(r)
  <2>1. [req[r] EXCEPT !.pc = "assign", !.to = "none"] \in RequestState
    BY <1>t DEF RequestState, Pc
  <2>2. req[r].f \in Freelancers
    BY <1>13 DEF StatusWrite, At, ReqType
  <2> QED
    BY <1>13, <2>1, <2>2, <1>1, <1>2, <1>3 DEF StatusWrite, Goes
<1>14. CASE CompleteReadRequirements(r)
  <2>1. [req[r] EXCEPT !.pc = "reread", !.reqs = requirements] \in RequestState
    BY <1>t DEF RequestState, Pc
  <2> QED
    BY <1>14, <2>1, <1>3 DEF CompleteReadRequirements, Goes
<1>15. CASE CompleteReread(r)
  <2>0. [order EXCEPT !.status = "completed"] \in OrderRow
    BY <1>15, <1>t DEF CompleteReread, Exists, OrderRow, OrderStatus
  <2>1. [req[r] EXCEPT !.pc = "release", !.row = [order EXCEPT !.status = "completed"]]
          \in RequestState
    BY <1>t, <2>0 DEF RequestState, Pc
  <2> QED
    BY <1>15, <2>1, <1>3 DEF CompleteReread, Goes
<1> QED
  BY <1>s, <1>4, <1>5, <1>6, <1>8, <1>9, <1>10, <1>11, <1>12, <1>13,
     <1>14, <1>15 DEF Starts, Continues

-----------------------------------------------------------------------------
\* Which steps write each row.
LEMMA WhoWrites ==
  ASSUME [Next]_vars
  PROVE  /\ \/ UNCHANGED order
            \/ DeleteOrder
            \/ \E r \in Requests : SaveOrder(r) \/ AssignOrder(r) \/ CompleteWrite(r)
         /\ \/ UNCHANGED proposal
            \/ DeleteOrder
            \/ \E r \in Requests : ProposeInsert(r) \/ StatusWrite(r)
         /\ \/ UNCHANGED conversation
            \/ DeleteOrder
            \/ GetOrderChat
            \/ \E r \in Requests : EnsureConversation(r)
         /\ \/ UNCHANGED escrow
            \/ DeleteOrder
            \/ UNCHANGED order /\ \E f \in Freelancers, mine \in BOOLEAN : HoldByHand(f, mine)
            \/ \E r \in Requests : AcceptHold(r) \/ CompleteRelease(r)
            \/ ReleaseEscrowAtomic
            \/ RefundEscrowAtomic
<1> DEFINE Goal ==
      /\ \/ UNCHANGED order
         \/ DeleteOrder
         \/ \E r \in Requests : SaveOrder(r) \/ AssignOrder(r) \/ CompleteWrite(r)
      /\ \/ UNCHANGED proposal
         \/ DeleteOrder
         \/ \E r \in Requests : ProposeInsert(r) \/ StatusWrite(r)
      /\ \/ UNCHANGED conversation
         \/ DeleteOrder
         \/ GetOrderChat
         \/ \E r \in Requests : EnsureConversation(r)
      /\ \/ UNCHANGED escrow
         \/ DeleteOrder
         \/ UNCHANGED order /\ \E f \in Freelancers, mine \in BOOLEAN : HoldByHand(f, mine)
         \/ \E r \in Requests : AcceptHold(r) \/ CompleteRelease(r)
         \/ ReleaseEscrowAtomic
         \/ RefundEscrowAtomic
<1>1. CASE UNCHANGED vars
  BY <1>1 DEF vars
<1>2. ASSUME NEW r \in Requests, Starts(r) \/ Abort(r) PROVE Goal
  BY <1>2 DEF Starts, Abort, UpdateRead, PublishRead, ProposeRead,
              CompleteReadOrder, StatusReadProposal
<1>3. ASSUME NEW r \in Requests,
             \/ UpdateRequirements(r) \/ StatusReadOrder(r)
             \/ CompleteReadProposals(r) \/ CompleteReadRequirements(r)
             \/ CompleteReread(r)
      PROVE  Goal
  BY <1>3 DEF UpdateRequirements, StatusReadOrder, CompleteReadProposals,
              CompleteReadRequirements, CompleteReread
<1>4. ASSUME NEW r \in Requests,
             SaveOrder(r) \/ AssignOrder(r) \/ CompleteWrite(r)
      PROVE  Goal
  <2>1. UNCHANGED <<proposal, conversation, escrow>>
    BY <1>4 DEF SaveOrder, AssignOrder, CompleteWrite
  <2> QED
    BY <1>4, <2>1
<1>5. ASSUME NEW r \in Requests, ProposeInsert(r) \/ StatusWrite(r)
      PROVE  Goal
  <2>1. UNCHANGED <<order, conversation, escrow>>
    BY <1>5 DEF ProposeInsert, StatusWrite
  <2> QED
    BY <1>5, <2>1
<1>6. ASSUME NEW r \in Requests, EnsureConversation(r) PROVE Goal
  <2>1. UNCHANGED <<order, proposal, escrow>>
    BY <1>6 DEF EnsureConversation
  <2> QED
    BY <1>6, <2>1
<1>7. ASSUME NEW r \in Requests, AcceptHold(r) \/ CompleteRelease(r) PROVE Goal
  <2>1. UNCHANGED <<order, proposal, conversation>>
    BY <1>7 DEF AcceptHold, CompleteRelease
  <2> QED
    BY <1>7, <2>1
<1>8. CASE OneStatement
  <2>1. CASE DeleteOrder
    BY <2>1
  <2>2. CASE GetOrderChat
    <3>1. UNCHANGED <<order, proposal, escrow>>
      BY <2>2 DEF GetOrderChat
    <3> QED
      BY <2>2, <3>1
  <2>3. CASE \/ ReleaseEscrowAtomic \/ RefundEscrowAtomic
             \/ \E f \in Freelancers, mine \in BOOLEAN : HoldByHand(f, mine)
    <3>1. UNCHANGED <<order, proposal, conversation>>
      BY <2>3 DEF HoldByHand, ReleaseEscrowAtomic, RefundEscrowAtomic
    <3> QED
      BY <2>3, <3>1
  <2> QED
    BY <1>8, <2>1, <2>2, <2>3 DEF OneStatement
<1> QED
  BY <1>1, <1>2, <1>3, <1>4, <1>5, <1>6, <1>7, <1>8 DEF Next, Continues

\* A deleted order does not come back.
LEMMA StaysDeleted ==
  ASSUME [Next]_vars
  PROVE  ~Exists => UNCHANGED order
<1> SUFFICES ASSUME ~Exists PROVE UNCHANGED order
  OBVIOUS
<1>1. ~DeleteOrder
  BY DEF DeleteOrder
<1>2. ASSUME NEW r \in Requests, SaveOrder(r) \/ AssignOrder(r) \/ CompleteWrite(r)
      PROVE  UNCHANGED order
  BY <1>2 DEF SaveOrder, AssignOrder, CompleteWrite
<1> QED
  BY <1>1, <1>2, WhoWrites

\* What one step may do to the escrow row.
LEMMA EscrowStep ==
  ASSUME TypeOK, \A r \in Requests : ReqType(req[r]), [Next]_vars
  PROVE  \/ UNCHANGED escrow
         \/ DeleteOrder
         \/ /\ Exists /\ UNCHANGED order /\ escrow = NoEscrow
            /\ \E f \in Freelancers, mine \in BOOLEAN :
                 escrow' = [status |-> "held", freelancer |-> f, mine |-> mine]
         \/ /\ UNCHANGED order /\ escrow.status = "held"
            /\ \E s \in {"released", "refunded"} :
                 escrow' = [escrow EXCEPT !.status = s]
<1> DEFINE Held ==
      /\ Exists /\ UNCHANGED order /\ escrow = NoEscrow
      /\ \E f \in Freelancers, mine \in BOOLEAN :
           escrow' = [status |-> "held", freelancer |-> f, mine |-> mine]
<1> DEFINE Settled ==
      /\ UNCHANGED order /\ escrow.status = "held"
      /\ \E s \in {"released", "refunded"} :
           escrow' = [escrow EXCEPT !.status = s]
<1>1. ASSUME NEW f \in Freelancers, NEW mine \in BOOLEAN, UNCHANGED order,
             InsertEscrow(f, mine)
      PROVE  Held
  BY <1>1 DEF InsertEscrow
<1>2. ASSUME NEW s \in {"released", "refunded"}, UNCHANGED order,
             escrow.status = "held", escrow' = [escrow EXCEPT !.status = s]
      PROVE  Settled
  BY <1>2
<1>3. ASSUME NEW r \in Requests, AcceptHold(r) PROVE Held \/ UNCHANGED escrow
  <2>1. req[r].f \in Freelancers
    BY <1>3 DEF AcceptHold, At, ReqType
  <2>2. UNCHANGED order /\ (UNCHANGED escrow \/ InsertEscrow(req[r].f, TRUE))
    BY <1>3 DEF AcceptHold
  <2> QED
    BY <2>1, <2>2, <1>1
<1>4. ASSUME NEW r \in Requests, CompleteRelease(r) PROVE Settled \/ UNCHANGED escrow
  BY <1>4, <1>2 DEF CompleteRelease
<1>5. CASE ReleaseEscrowAtomic \/ RefundEscrowAtomic
  <2>1. Settled
    BY <1>5, <1>2 DEF ReleaseEscrowAtomic, RefundEscrowAtomic
  <2> QED
    BY <2>1
<1>6. ASSUME NEW f \in Freelancers, NEW mine \in BOOLEAN, HoldByHand(f, mine)
      PROVE  Held
  BY <1>6, <1>1 DEF HoldByHand
<1> QED
  BY <1>3, <1>4, <1>5, <1>6, WhoWrites

\* What one step may do to the proposals of an order that still exists.
LEMMA ProposalStep ==
  ASSUME TypeOK, \A r \in Requests : ReqType(req[r]), [Next]_vars
  PROVE  \/ UNCHANGED proposal
         \/ DeleteOrder
         \/ /\ UNCHANGED <<order, conversation, escrow>>
            /\ \E r \in Requests :
                 /\ ProposeInsert(r) /\ Exists
                 /\ proposal' = [proposal EXCEPT ![req[r].f] = "pending"]
         \/ /\ UNCHANGED <<order, conversation, escrow>>
            /\ \E r \in Requests :
                 /\ StatusWrite(r)
                 /\ proposal[req[r].f] # "none"
                 /\ proposal' = [proposal EXCEPT ![req[r].f] = req[r].to]
BY WhoWrites DEF ProposeInsert, StatusWrite

\* An entitled freelancer stays entitled.
LEMMA EntitledStable ==
  ASSUME TypeOK, \A r \in Requests : ReqType(req[r]), [Next]_vars,
         NEW f \in Freelancers
  PROVE  /\ Exists' => Exists
         /\ Exists /\ Exists' /\ proposal[f] # "none" => proposal'[f] # "none"
         /\ Entitled(f) => Entitled(f)'
<1>1. Exists' => Exists
  BY StaysDeleted DEF Exists
<1>d. DeleteOrder => ~Exists'
  BY DEF DeleteOrder, Exists
<1>2. ASSUME Exists, Exists', proposal[f] # "none" PROVE proposal'[f] # "none"
  <2>t. proposal \in [Freelancers -> ProposalStatus \cup {"none"}]
    BY DEF TypeOK
  <2>1. ASSUME NEW r \in Requests,
               proposal' = [proposal EXCEPT ![req[r].f] = "pending"]
        PROVE  proposal'[f] # "none"
    BY <2>1, <2>t, <1>2
  <2>2. ASSUME NEW r \in Requests, StatusWrite(r),
               proposal' = [proposal EXCEPT ![req[r].f] = req[r].to]
        PROVE  proposal'[f] # "none"
    <3>1. req[r].to \in ProposalStatus
      BY <2>2 DEF StatusWrite, At, ReqType
    <3>2. req[r].to # "none"
      BY <3>1 DEF ProposalStatus
    <3> QED
      BY <2>2, <3>2, <2>t, <1>2
  <2> QED
    BY <1>2, <1>d, <2>1, <2>2, ProposalStep
<1>3. ASSUME Exists, Exists', FundedFor(f) PROVE FundedFor(f)'
  <2>1. escrow \in EscrowRow
    BY <1>3 DEF TypeOK, FundedFor
  <2>2. ~DeleteOrder /\ escrow # NoEscrow
    BY <1>3, <1>d DEF FundedFor
  <2>3. CASE UNCHANGED escrow
    BY <1>3, <2>3 DEF FundedFor
  <2>4. ASSUME NEW s \in {"released", "refunded"}, escrow' = [escrow EXCEPT !.status = s]
        PROVE  FundedFor(f)'
    BY <1>3, <2>1, <2>4 DEF FundedFor, EscrowRow, NoEscrow
  <2> QED
    BY <2>2, <2>3, <2>4, EscrowStep
<1> QED
  BY <1>1, <1>2, <1>3 DEF Entitled

\* What is right about a copy of the row stays right.
LEMMA RowStable ==
  ASSUME TypeOK, \A r \in Requests : ReqType(req[r]), [Next]_vars,
         NEW row \in OrderRow \cup {Deleted}, RowInv(row)
  PROVE  RowInv(row)'
<1>1. CASE row.freelancer = NoOne
  BY <1>1 DEF RowInv
<1>2. CASE row.freelancer # NoOne
  <2>1. row.freelancer \in Freelancers
    BY <1>2 DEF OrderRow, Deleted
  <2>2. Entitled(row.freelancer)'
    BY <1>2, <2>1, EntitledStable DEF RowInv
  <2> QED
    BY <1>2, <2>2 DEF RowInv
<1> QED
  BY <1>1, <1>2

-----------------------------------------------------------------------------
(***************************************************************************)
(* The parts of IInv, one by one.                                          *)
(***************************************************************************)
LEMMA TypeStep == IInv /\ [Next]_vars => TypeOK'
<1> SUFFICES ASSUME IInv, [Next]_vars PROVE TypeOK'
  OBVIOUS
<1>i. /\ TypeOK
      /\ \A r \in Requests : ReqType(req[r])
  BY DEF IInv
<1>1. req' \in [Requests -> RequestState]
  <2>1. CASE UNCHANGED req
    BY <2>1, <1>i DEF TypeOK
  <2>2. CASE OneStatement
    BY <2>1, <2>2 DEF OneStatement, HoldByHand, ReleaseEscrowAtomic,
                      RefundEscrowAtomic, GetOrderChat, DeleteOrder
  <2> QED
    BY <1>i, <2>1, <2>2, RequestTypes DEF Next, vars
<1>2. escrow' \in EscrowRow \cup {NoEscrow}
  <2>t. escrow \in EscrowRow \cup {NoEscrow}
    BY <1>i DEF TypeOK
  <2>1. CASE DeleteOrder
    BY <2>1 DEF DeleteOrder
  <2>2. ASSUME NEW f \in Freelancers, NEW mine \in BOOLEAN,
               escrow' = [status |-> "held", freelancer |-> f, mine |-> mine]
        PROVE  escrow' \in EscrowRow
    BY <2>2 DEF EscrowRow
  <2>3. ASSUME escrow.status = "held", NEW s \in {"released", "refunded"},
               escrow' = [escrow EXCEPT !.status = s]
        PROVE  escrow' \in EscrowRow
    BY <2>3, <2>t DEF EscrowRow, NoEscrow
  <2> QED
    BY <1>i, <2>t, <2>1, <2>2, <2>3, EscrowStep
<1>3. proposal' \in [Freelancers -> ProposalStatus \cup {"none"}]
  <2>t. proposal \in [Freelancers -> ProposalStatus \cup {"none"}]
    BY <1>i DEF TypeOK
  <2>1. CASE DeleteOrder
    BY <2>1 DEF DeleteOrder
  <2>2. ASSUME NEW r \in Requests,
               proposal' = [proposal EXCEPT ![req[r].f] = "pending"]
        PROVE  proposal' \in [Freelancers -> ProposalStatus \cup {"none"}]
    BY <2>2, <2>t DEF ProposalStatus
  <2>3. ASSUME NEW r \in Requests, StatusWrite(r),
               proposal' = [proposal EXCEPT ![req[r].f] = req[r].to]
        PROVE  proposal' \in [Freelancers -> ProposalStatus \cup {"none"}]
    <3>1. req[r].to \in ProposalStatus
      BY <1>i, <2>3 DEF StatusWrite, At, ReqType
    <3> QED
      BY <2>3, <2>t, <3>1
  <2> QED
    BY <1>i, <2>t, <2>1, <2>2, <2>3, ProposalStep
<1>4. conversation' \subseteq Freelancers
  <2>t. conversation \subseteq Freelancers
    BY <1>i DEF TypeOK
  <2>1. ASSUME NEW r \in Requests, EnsureConversation(r)
        PROVE  conversation' \subseteq Freelancers
    BY <1>i, <2>1, <2>t DEF EnsureConversation, At, ReqType
  <2>2. CASE GetOrderChat
    BY <1>i, <2>2, <2>t DEF GetOrderChat, TypeOK, OrderRow, Deleted
  <2>3. CASE DeleteOrder
    BY <2>3 DEF DeleteOrder
  <2> QED
    BY <2>t, <2>1, <2>2, <2>3, WhoWrites
<1>5. order' \in OrderRow \cup {Deleted}
  <2>t. order \in OrderRow \cup {Deleted}
    BY <1>i DEF TypeOK
  <2>1. ASSUME NEW r \in Requests, SaveOrder(r) \/ CompleteWrite(r)
        PROVE  order' \in OrderRow \cup {Deleted}
    BY <1>i, <2>1, <2>t DEF SaveOrder, CompleteWrite, At, ReqType
  <2>2. ASSUME NEW r \in Requests, AssignOrder(r)
        PROVE  order' \in OrderRow \cup {Deleted}
    <3>1. req[r].row \in OrderRow /\ req[r].f \in Freelancers
      BY <1>i, <2>2 DEF AssignOrder, At, ReqType
    <3>2. [req[r].row EXCEPT !.status = "in_progress", !.freelancer = req[r].f]
            \in OrderRow
      BY <3>1 DEF OrderRow, OrderStatus
    <3> QED
      BY <2>2, <2>t, <3>2 DEF AssignOrder
  <2>3. CASE DeleteOrder
    BY <2>3 DEF DeleteOrder
  <2> QED
    BY <2>t, <2>1, <2>2, <2>3, WhoWrites
<1>6. requirements' \in BOOLEAN
  <2>t. requirements \in BOOLEAN /\ \A r \in Requests : req[r].reqs \in BOOLEAN
    BY <1>i DEF TypeOK, RequestState
  <2>1. CASE UNCHANGED requirements
    BY <2>1, <2>t
  <2>2. ASSUME NEW r \in Requests, Starts(r) \/ Abort(r)
        PROVE  requirements' \in BOOLEAN
    BY <2>2, <2>1 DEF Starts, Abort, UpdateRead, PublishRead, ProposeRead,
                      CompleteReadOrder, StatusReadProposal
  <2>3. ASSUME NEW r \in Requests, Continues(r) PROVE requirements' \in BOOLEAN
    <3>1. CASE UpdateRequirements(r) \/ AssignOrder(r) \/ CompleteWrite(r)
      BY <3>1, <2>t DEF UpdateRequirements, AssignOrder, CompleteWrite
    <3>2. CASE \/ SaveOrder(r) \/ ProposeInsert(r) \/ EnsureConversation(r)
               \/ StatusReadOrder(r) \/ AcceptHold(r) \/ StatusWrite(r)
               \/ CompleteReadProposals(r) \/ CompleteReadRequirements(r)
               \/ CompleteReread(r) \/ CompleteRelease(r)
      BY <3>2, <2>1 DEF SaveOrder, ProposeInsert, EnsureConversation,
           StatusReadOrder, AcceptHold, StatusWrite, CompleteReadProposals,
           CompleteReadRequirements, CompleteReread, CompleteRelease
    <3> QED
      BY <2>3, <3>1, <3>2 DEF Continues
  <2>4. CASE OneStatement
    BY <2>4, <2>1 DEF OneStatement, HoldByHand, ReleaseEscrowAtomic,
                      RefundEscrowAtomic, GetOrderChat, DeleteOrder
  <2> QED
    BY <2>1, <2>2, <2>3, <2>4 DEF Next, vars
<1> QED
  BY <1>1, <1>2, <1>3, <1>4, <1>5, <1>6 DEF TypeOK

\* What was deleted stays empty.
LEMMA GoneStep == IInv /\ [Next]_vars => GoneIsEmpty'
<1> SUFFICES ASSUME IInv, [Next]_vars, ~Exists' PROVE GoneIsEmpty'
  BY DEF GoneIsEmpty
<1>i. /\ TypeOK /\ GoneIsEmpty
      /\ \A r \in Requests : ReqType(req[r])
  BY DEF IInv
<1>1. CASE DeleteOrder
  BY <1>1 DEF DeleteOrder, GoneIsEmpty
<1>2. CASE ~DeleteOrder /\ Exists
  <2>1. ASSUME NEW r \in Requests, SaveOrder(r) \/ AssignOrder(r) \/ CompleteWrite(r)
        PROVE  Exists'
    <3>1. order' = order \/ order' \in OrderRow
      <4>1. CASE SaveOrder(r) \/ CompleteWrite(r)
        BY <1>i, <4>1 DEF SaveOrder, CompleteWrite, At, ReqType
      <4>2. CASE AssignOrder(r)
        <5>1. req[r].row \in OrderRow /\ req[r].f \in Freelancers
          BY <1>i, <4>2 DEF AssignOrder, At, ReqType
        <5>2. [req[r].row EXCEPT !.status = "in_progress", !.freelancer = req[r].f]
                \in OrderRow
          BY <5>1 DEF OrderRow, OrderStatus
        <5> QED
          BY <4>2, <5>2 DEF AssignOrder
      <4> QED
        BY <2>1, <4>1, <4>2
    <3> QED
      BY <1>2, <3>1 DEF Exists, OrderRow, OrderStatus, Deleted
  <2> QED
    BY <1>2, <2>1, WhoWrites DEF Exists
<1>3. CASE ~Exists
  <2>1. /\ escrow = NoEscrow /\ conversation = {}
        /\ \A f \in Freelancers : proposal[f] = "none"
    BY <1>i, <1>3 DEF GoneIsEmpty
  <2>2. ~DeleteOrder
    BY <1>3 DEF DeleteOrder
  <2>3. UNCHANGED escrow
    BY <1>i, <1>3, <2>1, <2>2, EscrowStep DEF NoEscrow
  <2>4. UNCHANGED proposal
    <3>1. ASSUME NEW r \in Requests, StatusWrite(r) PROVE FALSE
      BY <1>i, <2>1, <3>1 DEF StatusWrite, At, ReqType
    <3> QED
      BY <1>i, <1>3, <2>2, <3>1, ProposalStep
  <2>5. UNCHANGED conversation
    <3>1. order.freelancer = NoOne
      BY <1>3 DEF Exists, Deleted
    <3> QED
      BY <1>3, <2>2, <3>1, WhoWrites DEF EnsureConversation, GetOrderChat
  <2> QED
    BY <2>1, <2>3, <2>4, <2>5 DEF GoneIsEmpty
<1> QED
  BY <1>1, <1>2, <1>3

\* A proposal is accepted only for the freelancer entitled to it.
LEMMA AcceptedStep ==
  IInv /\ [Next]_vars
    => \A f \in Freelancers : proposal'[f] = "accepted" => Entitled(f)'
<1> SUFFICES ASSUME IInv, [Next]_vars, NEW f \in Freelancers,
                    proposal'[f] = "accepted"
             PROVE  Entitled(f)'
  OBVIOUS
<1>i. /\ TypeOK
      /\ proposal[f] = "accepted" => Entitled(f)
      /\ \A r \in Requests : ReqType(req[r]) /\ ReqInv(req[r])
  BY DEF IInv
<1>t. proposal \in [Freelancers -> ProposalStatus \cup {"none"}]
  BY <1>i DEF TypeOK
<1>1. Entitled(f) => Entitled(f)'
  BY <1>i, EntitledStable
<1>2. CASE proposal[f] = "accepted"
  BY <1>i, <1>1, <1>2
<1>3. CASE DeleteOrder
  BY <1>3 DEF DeleteOrder, Entitled, Exists
<1>4. ASSUME NEW r \in Requests, proposal[f] # "accepted",
             proposal' = [proposal EXCEPT ![req[r].f] = "pending"]
      PROVE  FALSE
  BY <1>4, <1>t
<1>5. ASSUME NEW r \in Requests, StatusWrite(r), proposal[f] # "accepted",
             proposal' = [proposal EXCEPT ![req[r].f] = req[r].to]
      PROVE  Entitled(f)
  <2>1. req[r].f = f /\ req[r].to = "accepted"
    BY <1>5, <1>t
  <2> QED
    BY <1>i, <1>5, <2>1 DEF StatusWrite, At, ReqInv
<1> QED
  BY <1>i, <1>1, <1>2, <1>3, <1>4, <1>5, ProposalStep

\* Every step keeps the row of the order well formed.
LEMMA OrderStep == IInv /\ [Next]_vars => RowInv(order)'
<1> SUFFICES ASSUME IInv, [Next]_vars PROVE RowInv(order)'
  OBVIOUS
<1>i. /\ TypeOK /\ RowInv(order)
      /\ \A r \in Requests : ReqType(req[r]) /\ ReqInv(req[r])
  BY DEF IInv
<1>1. ASSUME NEW row \in OrderRow \cup {Deleted}, RowInv(row), order' = row
      PROVE  RowInv(order)'
  <2>1. RowInv(row)'
    BY <1>i, <1>1, RowStable
  <2> QED
    BY <1>1, <2>1 DEF RowInv, Entitled, FundedFor, Exists
<1>2. CASE UNCHANGED order
  <2>1. order \in OrderRow \cup {Deleted}
    BY <1>i DEF TypeOK
  <2> QED
    BY <1>i, <1>1, <1>2, <2>1
<1>3. CASE DeleteOrder
  <2>1. order' = Deleted
    BY <1>3 DEF DeleteOrder
  <2> QED
    BY <2>1 DEF Deleted, RowInv
<1>4. ASSUME NEW r \in Requests, SaveOrder(r) \/ CompleteWrite(r)
      PROVE  RowInv(order)'
  <2>1. order' = order \/ order' = req[r].row
    BY <1>4 DEF SaveOrder, CompleteWrite
  <2>2. req[r].row \in OrderRow \cup {Deleted} /\ RowInv(req[r].row)
    BY <1>i DEF TypeOK, RequestState, ReqInv
  <2> QED
    BY <1>1, <1>2, <2>1, <2>2
<1>5. ASSUME NEW r \in Requests, AssignOrder(r) PROVE RowInv(order)'
  <2> DEFINE f == req[r].f
             row == [req[r].row EXCEPT !.status = "in_progress", !.freelancer = f]
  <2>1. req[r].row \in OrderRow /\ f \in Freelancers /\ Entitled(f)
    BY <1>i, <1>5 DEF AssignOrder, At, ReqType, ReqInv
  <2>2. /\ row \in OrderRow /\ row.status = "in_progress"
        /\ row.freelancer = f
    BY <2>1 DEF OrderRow, OrderStatus
  <2>3. order' = order \/ order' = row
    BY <1>5 DEF AssignOrder
  <2> HIDE DEF row
  <2>4. RowInv(row)
    BY <2>1, <2>2, NoOneAssumption DEF RowInv
  <2> QED
    BY <1>1, <1>2, <2>2, <2>3, <2>4
<1> QED
  BY <1>2, <1>3, <1>4, <1>5, WhoWrites

\* A conversation is never opened without its proposal.
LEMMA ConversationStep == IInv /\ [Next]_vars => ConversationHasProposal'
<1> SUFFICES ASSUME IInv, [Next]_vars, NEW f \in conversation'
             PROVE  proposal'[f] # "none"
  BY DEF ConversationHasProposal
<1>i. /\ TypeOK /\ GoneIsEmpty /\ RowInv(order) /\ ConversationHasProposal
      /\ \A r \in Requests : ReqType(req[r]) /\ ReqInv(req[r])
  BY DEF IInv
<1>e. f \in Freelancers /\ Exists'
  BY TypeStep, GoneStep DEF TypeOK, GoneIsEmpty
<1>1. Exists
  BY <1>i, <1>e, EntitledStable
<1>2. CASE proposal[f] # "none"
  BY <1>i, <1>e, <1>1, <1>2, EntitledStable
<1>3. CASE f \in conversation
  BY <1>i, <1>2, <1>3 DEF ConversationHasProposal
<1>4. ~DeleteOrder
  BY <1>e DEF DeleteOrder, Exists
<1>5. CASE GetOrderChat /\ f \notin conversation
  <2>1. f = order.freelancer /\ order.freelancer # NoOne
    BY <1>5 DEF GetOrderChat
  <2>2. Entitled(f)
    BY <1>i, <2>1 DEF RowInv
  <2> QED
    BY <1>1, <1>2, <2>2 DEF Entitled
<1>6. ASSUME NEW r \in Requests, EnsureConversation(r), f \notin conversation
      PROVE  proposal'[f] # "none"
  <2>1. f = req[r].f /\ req[r].pc = "talk"
    BY <1>6 DEF EnsureConversation, At
  <2> QED
    BY <1>i, <1>1, <1>2, <2>1 DEF ReqInv
<1> QED
  BY <1>3, <1>4, <1>5, <1>6, WhoWrites

\* What is right about the state of a request stays right while the others
\* take steps.
LEMMA CopyStable ==
  ASSUME TypeOK, \A r \in Requests : ReqType(req[r]), [Next]_vars,
         NEW q \in RequestState, ReqType(q), ReqInv(q)
  PROVE  ReqInv(q)'
<1>1. RowInv(q.row)'
  BY RowStable DEF RequestState, ReqInv
<1>2. ASSUME q.f \in Freelancers, Entitled(q.f) PROVE Entitled(q.f)'
  BY <1>2, EntitledStable
<1>3. ASSUME q.pc \in {"readOrder", "hold", "write", "assign", "talk"}, Exists'
      PROVE  proposal'[q.f] # "none"
  <2>1. q.f \in Freelancers
    BY <1>3 DEF ReqType
  <2> QED
    BY <1>3, <2>1, EntitledStable DEF ReqInv
<1>4. (q.pc = "write" /\ q.to = "accepted") \/ q.pc = "assign" => q.f \in Freelancers
  BY DEF ReqType
<1> QED
  BY <1>1, <1>2, <1>3, <1>4 DEF ReqInv

\* Every request keeps to what it read and locked.
LEMMA RequestStep ==
  IInv /\ [Next]_vars
    => \A r \in Requests : ReqType(req[r])' /\ ReqInv(req[r])'
<1> SUFFICES ASSUME IInv, [Next]_vars, NEW r \in Requests
             PROVE  ReqType(req[r])' /\ ReqInv(req[r])'
  OBVIOUS
<1>i. /\ TypeOK /\ RowInv(order)
      /\ \A s \in Requests : ReqType(req[s]) /\ ReqInv(req[s])
      /\ \A f \in Freelancers : proposal[f] = "accepted" => Entitled(f)
  BY DEF IInv
<1>t. /\ req \in [Requests -> RequestState] /\ req' \in [Requests -> RequestState]
      /\ order \in OrderRow \cup {Deleted}
      /\ proposal \in [Freelancers -> ProposalStatus \cup {"none"}]
  BY <1>i, TypeStep DEF TypeOK
<1>p. req[r] \in RequestState /\ req'[r] \in RequestState
  BY <1>t
<1>g. ASSUME NEW q, req' = [req EXCEPT ![r] = q] PROVE req'[r] = q
  BY <1>g, <1>t
<1>q. ASSUME NEW q, req'[r] = q, ReqType(q), ReqInv(q)
      PROVE  ReqType(req[r])' /\ ReqInv(req[r])'
  <2>1. q \in RequestState
    BY <1>q, <1>p
  <2>2. ReqInv(q)'
    BY <1>i, <1>q, <2>1, CopyStable
  <2> QED
    BY <1>q, <2>2 DEF ReqType, ReqInv, RowInv, Entitled, FundedFor, Exists
<1>0. CASE req'[r] = req[r]
  BY <1>i, <1>q, <1>0
<1>d. RowInv(Deleted)
  BY DEF RowInv, Deleted
<1>1. ReqType(Idle) /\ ReqInv(Idle)
  BY <1>d DEF ReqType, ReqInv, Idle
<1>2. CASE UpdateRead(r)
  <2> DEFINE q == [Idle EXCEPT !.pc = "requirements", !.row = order]
  <2>1. req'[r] = q
    BY <1>2, <1>g DEF UpdateRead, Goes
  <2>2. order \in OrderRow
    BY <1>2, <1>t DEF UpdateRead, Exists
  <2>3. /\ q.pc = "requirements" /\ q.row = order /\ q.was = "none"
    BY DEF Idle
  <2> HIDE DEF q
  <2> QED
    BY <1>i, <1>q, <2>1, <2>2, <2>3 DEF ReqType, ReqInv
<1>3. CASE PublishRead(r)
  <2> DEFINE row == [order EXCEPT !.status = "published"]
             q == [Idle EXCEPT !.pc = "save", !.row = row]
  <2>1. req'[r] = q
    BY <1>3, <1>g DEF PublishRead, Goes
  <2>2. order.status = "draft" /\ order \in OrderRow /\ order.freelancer = NoOne
    BY <1>3, <1>i, <1>t DEF PublishRead, RowInv, Deleted
  <2>3. row \in OrderRow /\ row.status = "published" /\ row.freelancer = NoOne
    BY <2>2 DEF OrderRow, OrderStatus
  <2>4. q.pc = "save" /\ q.row = row /\ q.was = "none"
    BY DEF Idle
  <2> HIDE DEF q, row
  <2>5. RowInv(row)
    BY <2>3 DEF RowInv
  <2> QED
    BY <1>q, <2>1, <2>3, <2>4, <2>5 DEF ReqType, ReqInv
<1>4. ASSUME NEW f \in Freelancers, NEW pc \in {"insert", "proposals"},
             req'[r] = [Idle EXCEPT !.pc = pc, !.f = f]
      PROVE  ReqType(req[r])' /\ ReqInv(req[r])'
  <2> DEFINE q == [Idle EXCEPT !.pc = pc, !.f = f]
  <2>1. q.pc = pc /\ q.row = Deleted /\ q.was = "none" /\ q.f = f
    BY DEF Idle
  <2>2. req'[r] = q
    BY <1>4
  <2> HIDE DEF q
  <2> QED
    BY <1>d, <1>q, <2>1, <2>2 DEF ReqType, ReqInv
<1>5. ASSUME NEW f \in Freelancers, ProposeRead(r, f) \/ CompleteReadOrder(r, f)
      PROVE  ReqType(req[r])' /\ ReqInv(req[r])'
  BY <1>4, <1>5, <1>g DEF ProposeRead, CompleteReadOrder, Goes
<1>6. ASSUME NEW f \in Freelancers, NEW to \in ProposalStatus,
             StatusReadProposal(r, f, to)
      PROVE  ReqType(req[r])' /\ ReqInv(req[r])'
  <2> DEFINE q == [Idle EXCEPT !.pc = "readOrder", !.f = f, !.to = to,
                               !.was = proposal[f]]
  <2>1. req'[r] = q
    BY <1>6, <1>g DEF StatusReadProposal, Goes
  <2>2. /\ q.pc = "readOrder" /\ q.row = Deleted /\ q.was = proposal[f]
        /\ q.f = f /\ q.to = to
    BY DEF Idle
  <2>3. proposal[f] # "none"
    BY <1>6 DEF StatusReadProposal
  <2> HIDE DEF q
  <2> QED
    BY <1>i, <1>d, <1>q, <2>1, <2>2, <2>3 DEF ReqType, ReqInv
<1>7. CASE UpdateRequirements(r)
  <2> DEFINE q == [req[r] EXCEPT !.pc = "save"]
  <2>1. req'[r] = q /\ req[r].pc = "requirements"
    BY <1>7, <1>g DEF UpdateRequirements, Goes, At
  <2>2. q.pc = "save" /\ q.row = req[r].row /\ q.was = req[r].was /\ q.f = req[r].f
    BY <1>p DEF RequestState
  <2> HIDE DEF q
  <2> QED
    BY <1>i, <1>q, <2>1, <2>2 DEF ReqType, ReqInv
<1>8. CASE SaveOrder(r) \/ EnsureConversation(r) \/ CompleteWrite(r) \/ Abort(r)
  <2>1. req'[r] = Idle
    BY <1>8, <1>g DEF SaveOrder, EnsureConversation, CompleteWrite, Abort, Goes
  <2> QED
    BY <1>q, <1>1, <2>1
<1>9. ASSUME NEW f \in Freelancers, req'[r] = Talk(f), proposal[f] # "none"
      PROVE  ReqType(req[r])' /\ ReqInv(req[r])'
  <2>1. Talk(f).pc = "talk" /\ Talk(f).f = f /\ Talk(f).row = Deleted
        /\ Talk(f).was = "none"
    BY DEF Talk, Idle
  <2> QED
    BY <1>9, <1>d, <1>q, <2>1 DEF ReqType, ReqInv
<1>10. CASE ProposeInsert(r)
  <2> DEFINE f == req[r].f
  <2>1. f \in Freelancers
    BY <1>i, <1>10 DEF ProposeInsert, At, ReqType
  <2>2. req'[r] = Talk(f)
    BY <1>10, <1>g DEF ProposeInsert, Goes
  <2>3. proposal'[f] = "pending"
    BY <1>10, <1>t, <2>1 DEF ProposeInsert
  <2> HIDE DEF f
  <2>4. Talk(f).pc = "talk" /\ Talk(f).f = f /\ Talk(f).row = Deleted
        /\ Talk(f).was = "none"
    BY DEF Talk, Idle
  <2>5. req'[r].pc = "talk" /\ req'[r].f = f /\ req'[r].row = Deleted
        /\ req'[r].was = "none"
    BY <2>2, <2>4
  <2>6. ReqType(req[r])'
    BY <2>1, <2>5 DEF ReqType
  <2>7. RowInv(req[r].row)'
    BY <2>5 DEF RowInv, Deleted
  <2> QED
    BY <2>3, <2>5, <2>6, <2>7 DEF ReqInv
<1>11. CASE StatusReadOrder(r)
  <2>1. order \in OrderRow /\ req[r].pc = "readOrder"
    BY <1>11, <1>t DEF StatusReadOrder, Exists, At
  <2>2. CASE req[r].to = "accepted"
    <3> DEFINE q == [req[r] EXCEPT !.pc = "hold", !.row = order]
    <3>1. req'[r] = q
      BY <1>11, <1>g, <2>2 DEF StatusReadOrder, Goes
    <3>2. /\ q.pc = "hold" /\ q.row = order /\ q.was = req[r].was
          /\ q.f = req[r].f /\ q.to = "accepted"
      BY <1>p, <2>2 DEF RequestState
    <3> HIDE DEF q
    <3> QED
      BY <1>i, <1>q, <2>1, <3>1, <3>2 DEF ReqType, ReqInv, ProposalStatus
  <2>3. CASE req[r].to # "accepted"
    <3> DEFINE q == [req[r] EXCEPT !.pc = "write", !.was = "none"]
    <3>1. req'[r] = q
      BY <1>11, <1>g, <2>3 DEF StatusReadOrder, Goes
    <3>2. /\ q.pc = "write" /\ q.row = req[r].row /\ q.was = "none"
          /\ q.f = req[r].f /\ q.to = req[r].to
      BY <1>p DEF RequestState
    <3> HIDE DEF q
    <3> QED
      BY <1>i, <1>q, <2>1, <2>3, <3>1, <3>2 DEF ReqType, ReqInv
  <2> QED
    BY <2>2, <2>3
<1>12. CASE AcceptHold(r)
  <2>0. PICK f \in Freelancers : f = req[r].f
    BY <1>i, <1>12 DEF AcceptHold, At, ReqType
  <2> DEFINE q == [req[r] EXCEPT !.pc = "write", !.was = "none"]
  <2>1. req'[r] = q /\ req[r].pc = "hold" /\ UNCHANGED <<order, proposal>>
    BY <1>12, <1>g DEF AcceptHold, Goes, At
  <2>2. /\ q.pc = "write" /\ q.row = req[r].row /\ q.was = "none"
        /\ q.f = f /\ q.to = req[r].to
    BY <1>p, <2>0 DEF RequestState
  <2>3. /\ req[r].to = "accepted" /\ req[r].row \in OrderRow /\ f \in Freelancers
        /\ Exists => proposal[f] # "none"
    BY <1>i, <2>0, <2>1 DEF ReqType, ReqInv
  <2> HIDE DEF q
  <2>4. ReqType(q)
    BY <2>2, <2>3 DEF ReqType, ProposalStatus
  <2>5. CASE /\ UNCHANGED escrow
             /\ \/ req[r].was = "accepted"
                \/ escrow = [status |-> "held", freelancer |-> f, mine |-> TRUE]
    <3>1. Entitled(f)
      <4>1. CASE req[r].was = "accepted"
        BY <1>i, <2>0, <4>1 DEF ReqInv
      <4>2. CASE escrow = [status |-> "held", freelancer |-> f, mine |-> TRUE]
        <5>1. FundedFor(f)
          BY <4>2 DEF FundedFor, NoEscrow
        <5> QED
          BY <2>3, <5>1 DEF Entitled
      <4> QED
        BY <2>5, <4>1, <4>2
    <3>2. ReqInv(q)
      BY <1>i, <2>2, <2>3, <3>1 DEF ReqInv
    <3> QED
      BY <1>q, <2>1, <2>4, <3>2
  <2>6. CASE InsertEscrow(f, TRUE)
    <3>1. Entitled(f)'
      BY <2>1, <2>3, <2>6 DEF InsertEscrow, Entitled, FundedFor, NoEscrow, Exists
    <3>2. RowInv(req[r].row) /\ req[r].row \in OrderRow \cup {Deleted}
      BY <1>i, <2>3 DEF ReqInv
    <3>3. ASSUME NEW row, row = req[r].row PROVE RowInv(row)'
      BY <1>i, <3>2, <3>3, RowStable
    <3>4. RowInv(req[r].row)'
      BY <2>1, <2>2, <3>3 DEF RowInv, Entitled, FundedFor, Exists
    <3>5. ReqType(req[r])'
      BY <2>1, <2>4 DEF ReqType
    <3>6. /\ req'[r].pc = "write" /\ req'[r].was = "none" /\ req'[r].f = f
      BY <2>1, <2>2
    <3>7. ReqInv(req[r])'
      BY <2>1, <2>3, <3>1, <3>4, <3>6 DEF ReqInv, Entitled, FundedFor, Exists
    <3> QED
      BY <3>5, <3>7
  <2> QED
    BY <1>12, <2>0, <2>5, <2>6 DEF AcceptHold
<1>13. CASE StatusWrite(r)
  <2> DEFINE q == [req[r] EXCEPT !.pc = "assign", !.to = "none"]
             f == req[r].f
  <2>1. req[r].pc = "write" /\ f \in Freelancers /\ proposal[f] # "none"
    BY <1>13, <1>i DEF StatusWrite, At, ReqType
  <2>2. \/ req'[r] = Idle
        \/ req'[r] = Talk(f)
        \/ req[r].to = "accepted" /\ req'[r] = q
    BY <1>13, <1>g DEF StatusWrite, Goes
  <2>3. CASE req[r].to = "accepted" /\ req'[r] = q
    <3>1. /\ q.pc = "assign" /\ q.row = req[r].row /\ q.was = req[r].was
          /\ q.f = f /\ q.to = "none"
      BY <1>p DEF RequestState
    <3>2. req[r].row \in OrderRow /\ Entitled(f)
      BY <1>i, <2>1, <2>3 DEF ReqType, ReqInv
    <3> HIDE DEF q
    <3> QED
      BY <1>i, <1>q, <2>1, <2>3, <3>1, <3>2 DEF ReqType, ReqInv
  <2> QED
    BY <1>1, <1>9, <1>q, <2>1, <2>2, <2>3
<1>14. CASE AssignOrder(r)
  <2> DEFINE f == req[r].f
  <2>1. /\ f \in Freelancers /\ UNCHANGED proposal /\ req'[r] = Talk(f)
        /\ Exists => proposal[f] # "none"
    BY <1>14, <1>i, <1>g DEF AssignOrder, At, ReqType, ReqInv, Goes
  <2> HIDE DEF f
  <2>2. Talk(f).pc = "talk" /\ Talk(f).f = f /\ Talk(f).row = Deleted
        /\ Talk(f).was = "none"
    BY DEF Talk, Idle
  <2>3. ReqType(Talk(f)) /\ ReqInv(Talk(f))
    BY <1>d, <2>1, <2>2 DEF ReqType, ReqInv
  <2> QED
    BY <1>q, <2>1, <2>3
<1>15. ASSUME NEW pc \in {"copy", "finish"}, NEW q, req'[r] = q,
              req[r].pc \in {"proposals", "release"},
              pc = "finish" => req[r].pc = "release",
              q = [req[r] EXCEPT !.pc = pc]
       PROVE  ReqType(req[r])' /\ ReqInv(req[r])'
  <2>1. q.pc = pc /\ q.row = req[r].row /\ q.was = req[r].was /\ q.f = req[r].f
    BY <1>15, <1>p DEF RequestState
  <2> QED
    BY <1>i, <1>q, <1>15, <2>1 DEF ReqType, ReqInv
<1>16. CASE CompleteReadProposals(r) \/ CompleteRelease(r)
  BY <1>15, <1>16, <1>g DEF CompleteReadProposals, CompleteRelease, Goes, At
<1>17. CASE CompleteReadRequirements(r)
  <2> DEFINE q == [req[r] EXCEPT !.pc = "reread", !.reqs = requirements]
  <2>1. req'[r] = q /\ req[r].pc = "copy"
    BY <1>17, <1>g DEF CompleteReadRequirements, Goes, At
  <2>2. q.pc = "reread" /\ q.row = req[r].row /\ q.was = req[r].was /\ q.f = req[r].f
    BY <1>p DEF RequestState
  <2> HIDE DEF q
  <2> QED
    BY <1>i, <1>q, <2>1, <2>2 DEF ReqType, ReqInv
<1>18. CASE CompleteReread(r)
  <2> DEFINE row == [order EXCEPT !.status = "completed"]
             q == [req[r] EXCEPT !.pc = "release", !.row = row]
  <2>1. req'[r] = q /\ req[r].pc = "reread" /\ order \in OrderRow
    BY <1>18, <1>g, <1>t DEF CompleteReread, Goes, At, Exists
  <2>2. q.pc = "release" /\ q.row = row /\ q.was = req[r].was /\ q.f = req[r].f
    BY <1>p DEF RequestState
  <2>3. row \in OrderRow /\ row.status = "completed" /\ row.freelancer = order.freelancer
    BY <2>1 DEF OrderRow, OrderStatus
  <2> HIDE DEF q, row
  <2>4. RowInv(row)
    BY <1>i, <2>3 DEF RowInv
  <2> QED
    BY <1>i, <1>q, <2>1, <2>2, <2>3, <2>4 DEF ReqType, ReqInv
<1>19. ASSUME NEW s \in Requests \ {r}, Starts(s) \/ Continues(s) \/ Abort(s)
       PROVE  req'[r] = req[r]
  <2>1. \E q : req' = [req EXCEPT ![s] = q]
    <3>1. CASE Starts(s) \/ Abort(s)
      BY <3>1 DEF Starts, Abort, UpdateRead, PublishRead, ProposeRead,
                  CompleteReadOrder, StatusReadProposal, Goes
    <3>2. CASE Continues(s)
      BY <3>2 DEF Continues, UpdateRequirements, SaveOrder, ProposeInsert,
           EnsureConversation, StatusReadOrder, AcceptHold, StatusWrite,
           AssignOrder, CompleteReadProposals, CompleteReadRequirements,
           CompleteReread, CompleteRelease, CompleteWrite, Goes
    <3> QED
      BY <1>19, <3>1, <3>2
  <2> QED
    BY <2>1, <1>t
<1>20. CASE OneStatement \/ UNCHANGED vars
  BY <1>0, <1>20 DEF OneStatement, HoldByHand, ReleaseEscrowAtomic,
                     RefundEscrowAtomic, GetOrderChat, DeleteOrder, vars
<1>21. CASE Starts(r)
  BY <1>2, <1>3, <1>5, <1>6, <1>21 DEF Starts
<1>22. CASE Continues(r)
  BY <1>7, <1>8, <1>10, <1>11, <1>12, <1>13, <1>14, <1>16, <1>17, <1>18, <1>22
     DEF Continues
<1> QED
  BY <1>0, <1>8, <1>19, <1>20, <1>21, <1>22 DEF Next

-----------------------------------------------------------------------------
(***************************************************************************)
(* The theorems.                                                           *)
(***************************************************************************)
LEMMA InitIInv == Init => IInv
<1> SUFFICES ASSUME Init PROVE IInv
  OBVIOUS
<1>1. /\ order \in OrderRow /\ order.freelancer = NoOne /\ order.status = "draft"
  BY DEF Init, OrderRow, OrderStatus
<1>2. \A r \in Requests : req[r] = Idle
  BY DEF Init
<1>3. Idle \in RequestState
  BY DEF Idle, RequestState, Pc
<1>4. TypeOK
  BY <1>1, <1>3 DEF Init, TypeOK
<1>5. GoneIsEmpty /\ ConversationHasProposal
  BY DEF Init, GoneIsEmpty, ConversationHasProposal
<1>6. \A f \in Freelancers : proposal[f] # "accepted"
  BY DEF Init
<1>7. RowInv(order)
  BY <1>1 DEF RowInv
<1>8. RowInv(Deleted)
  BY DEF RowInv, Deleted
<1>9. ReqType(Idle) /\ ReqInv(Idle)
  BY <1>8 DEF ReqType, ReqInv, Idle
<1> QED
  BY <1>2, <1>4, <1>5, <1>6, <1>7, <1>9 DEF IInv

\* Every step keeps the invariant.
LEMMA Inductive == IInv /\ [Next]_vars => IInv'
<1> SUFFICES ASSUME IInv, [Next]_vars PROVE IInv'
  OBVIOUS
<1>1. TypeOK' /\ GoneIsEmpty' /\ RowInv(order)' /\ ConversationHasProposal'
  BY TypeStep, GoneStep, OrderStep, ConversationStep
<1>2. \A f \in Freelancers : proposal'[f] = "accepted" => Entitled(f)'
  BY AcceptedStep
<1>3. \A r \in Requests : ReqType(req[r])' /\ ReqInv(req[r])'
  BY RequestStep
<1> QED
  BY <1>1, <1>2, <1>3 DEF IInv

\* The invariant holds in every reachable state.
LEMMA Invariance == Spec => []IInv
BY InitIInv, Inductive, PTL DEF Spec

\* Type correctness: no interleaving of the statements of the requests
\* leaves a half-written row.
THEOREM TypeCorrect == Spec => []TypeOK
<1>1. IInv => TypeOK
  BY DEF IInv
<1> QED
  BY <1>1, Invariance, PTL

\* A proposal is accepted only for the freelancer the order's escrow is for.
THEOREM AcceptedFunded == Spec => []AcceptedIsFunded
<1>1. IInv => AcceptedIsFunded
  BY DEF IInv, GoneIsEmpty, AcceptedIsFunded, Entitled
<1> QED
  BY <1>1, Invariance, PTL

\* An order never has two accepted proposals.
THEOREM OneAccepted == Spec => []AtMostOneAccepted
<1>1. AcceptedIsFunded => AtMostOneAccepted
  BY DEF AcceptedIsFunded, AtMostOneAccepted, FundedFor
<1> QED
  BY <1>1, AcceptedFunded, PTL

\* The freelancer an order names is the one its escrow is for.
THEOREM AssignedFunded == Spec => []AssignedIsFunded
<1>1. IInv => AssignedIsFunded
  <2> SUFFICES ASSUME IInv, order.freelancer # NoOne
               PROVE  FundedFor(order.freelancer)
    BY DEF AssignedIsFunded
  <2>1. RowInv(order)
    BY DEF IInv
  <2>2. Exists
    BY DEF Exists, Deleted
  <2> QED
    BY <2>1, <2>2 DEF RowInv, Entitled
<1> QED
  BY <1>1, Invariance, PTL

\* An order in progress has a freelancer; only one in progress or completed has.
THEOREM InProgressAssigned == Spec => []InProgressIsAssigned
<1>1. IInv => InProgressIsAssigned
  BY DEF IInv, RowInv, InProgressIsAssigned
<1> QED
  BY <1>1, Invariance, PTL

\* Whoever has a conversation about the order has sent a proposal for it.
THEOREM ConversationsHaveProposals == Spec => []ConversationHasProposal
<1>1. IInv => ConversationHasProposal
  BY DEF IInv
<1> QED
  BY <1>1, Invariance, PTL

\* The handlers of an order implement the life of an escrow.
THEOREM EscrowImplementsLife == Spec => EscrowLivesOnce
<1>1. Init => Life!Init
  BY DEF Init, Life!Init, NoEscrow, Exists, Deleted
<1>2. IInv /\ [Next]_vars
        => [Life!Next]_<<IF Exists THEN escrow.status ELSE "deleted",
                         IF escrow = NoEscrow THEN <<>>
                         ELSE <<escrow.freelancer, escrow.mine>> >>
  <2> SUFFICES ASSUME IInv, [Next]_vars
               PROVE  \/ Life!Next
                      \/ UNCHANGED <<IF Exists THEN escrow.status ELSE "deleted",
                                     IF escrow = NoEscrow THEN <<>>
                                     ELSE <<escrow.freelancer, escrow.mine>> >>
    BY DEF Exists
  <2>i. /\ TypeOK /\ GoneIsEmpty
        /\ \A r \in Requests : ReqType(req[r])
    BY DEF IInv
  <2>t. escrow \in EscrowRow \cup {NoEscrow}
    BY <2>i DEF TypeOK
  <2>g. GoneIsEmpty'
    BY GoneStep
  <2>1. CASE ~Exists
    <3>1. UNCHANGED order /\ escrow = NoEscrow
      BY <2>1, <2>i, StaysDeleted DEF GoneIsEmpty
    <3>2. escrow' = NoEscrow
      BY <2>1, <2>g, <3>1 DEF GoneIsEmpty, Exists
    <3> QED
      BY <2>1, <3>1, <3>2 DEF Exists
  <2>2. CASE Exists /\ ~Exists'
    <3>1. escrow' = NoEscrow
      BY <2>2, <2>g DEF GoneIsEmpty
    <3>2. Life!Delete
      BY <2>2, <2>t, <3>1 DEF Life!Delete, Exists, EscrowRow, NoEscrow
    <3> QED
      BY <3>2 DEF Life!Next
  <2>3. CASE Exists /\ Exists'
    <3>1. ~DeleteOrder
      BY <2>3 DEF DeleteOrder, Exists
    <3>2. CASE UNCHANGED escrow
      BY <2>3, <3>2 DEF Exists
    <3>3. ASSUME escrow = NoEscrow, NEW f \in Freelancers, NEW mine \in BOOLEAN,
                 escrow' = [status |-> "held", freelancer |-> f, mine |-> mine]
          PROVE  Life!Hold
      BY <2>3, <3>3 DEF Life!Hold, Exists, NoEscrow
    <3>4. ASSUME escrow.status = "held", NEW s \in {"released", "refunded"},
                 escrow' = [escrow EXCEPT !.status = s]
          PROVE  Life!Settle
      BY <2>3, <2>t, <3>4 DEF Life!Settle, Exists, NoEscrow, EscrowRow
    <3> QED
      BY <2>i, <3>1, <3>2, <3>3, <3>4, EscrowStep DEF Life!Next
  <2> QED
    BY <2>1, <2>2, <2>3
<1> QED
  BY <1>1, <1>2, Invariance, PTL DEF Spec, EscrowLivesOnce, Life!Spec

=============================================================================
