------------------------------ MODULE OrderDeal ------------------------------
(***************************************************************************)
(* One order from its creation to its completion or deletion: the rows of  *)
(* orders, order_requirements, proposals, conversations and escrow, and    *)
(* the requests that change them concurrently.                             *)
(*                                                                         *)
(* No handler of an order holds a lock or a transaction around what it     *)
(* does: it reads a row, decides on the copy, and executes further         *)
(* statements one by one.  UpdateOrder, PublishOrder and                   *)
(* UpdateProposalStatus end with an UPDATE of every column of orders from  *)
(* the copy.  Each statement is therefore a step of its own, and other     *)
(* requests, a failing statement, a cancelled request context or a crash   *)
(* may fall between any two.                                               *)
(*                                                                         *)
(* Every early return after the first statement (validation, ownership,    *)
(* no funds, past deadline, failing statement) leaves what was executed    *)
(* and ends the request: that is Abort.  The amount of the escrow and the  *)
(* client's funds are in EscrowLedger; here a hold may simply fail.        *)
(***************************************************************************)
EXTENDS FiniteSets

CONSTANTS
  Freelancers,   \* the users who may send a proposal
  Requests,      \* the requests that are served at the same time
  NoOne          \* orders.freelancer_id IS NULL

ASSUME NoOneAssumption == NoOne \notin Freelancers

VARIABLES
  order,         \* the columns status and freelancer_id of the order's row
  requirements,  \* whether the order has rows in order_requirements
  proposal,      \* the status of each freelancer's proposal: UNIQUE
  conversation,  \* the freelancers with a conversation about the order
  escrow,        \* the escrow row: UNIQUE (order_id)
  req            \* what each request has read and is about to do

vars == <<order, requirements, proposal, conversation, escrow, req>>

OrderStatus == {"draft", "published", "in_progress", "completed", "cancelled"}
OrderRow == [status : OrderStatus, freelancer : Freelancers \cup {NoOne}]
Deleted == [status |-> "deleted", freelancer |-> NoOne]
Exists == order # Deleted

\* models.ValidProposalStatuses; "shortlisted", which no statement below tells
\* from "pending", is left out.
ProposalStatus == {"pending", "accepted", "rejected"}

\* mine: whether the escrow's client is the order's client, since
\* POST /payments/escrow takes any order id.
NoEscrow == [status |-> "none", freelancer |-> NoOne, mine |-> FALSE]
EscrowRow == [status : {"held", "released", "refunded"},
              freelancer : Freelancers, mine : BOOLEAN]

\* pc is the next statement of the request.  f, to and was are the freelancer,
\* the requested status and the copy of the status of the proposal; row and
\* reqs are the copies of the order and its requirements.  A field a request
\* no longer needs has its value in Idle.
Pc == {"idle", "requirements", "save", "readOrder", "hold", "write", "assign",
       "talk", "insert", "proposals", "copy", "reread", "release", "finish"}
Idle == [pc |-> "idle", f |-> NoOne, to |-> "none", was |-> "none",
         row |-> Deleted, reqs |-> FALSE]
RequestState ==
  [pc : Pc, f : Freelancers \cup {NoOne}, to : ProposalStatus \cup {"none"},
   was : ProposalStatus \cup {"none"}, row : OrderRow \cup {Deleted},
   reqs : BOOLEAN]

Init ==
  /\ order = [status |-> "draft", freelancer |-> NoOne]
  /\ requirements \in BOOLEAN
  /\ proposal = [f \in Freelancers |-> "none"]
  /\ conversation = {}
  /\ escrow = NoEscrow
  /\ req = [r \in Requests |-> Idle]

Goes(r, state) == req' = [req EXCEPT ![r] = state]
At(r, pc) == req[r].pc = pc
Talk(f) == [Idle EXCEPT !.pc = "talk", !.f = f]

-----------------------------------------------------------------------------
(***************************************************************************)
(* PUT /orders/:id: UpdateOrderUseCase copies the row ...                  *)
(***************************************************************************)
UpdateRead(r) ==
  /\ At(r, "idle") /\ Exists
  /\ Goes(r, [Idle EXCEPT !.pc = "requirements", !.row = order])
  /\ UNCHANGED <<order, requirements, proposal, conversation, escrow>>

\* ... replaces the requirements (the handler never passes nil) ...
UpdateRequirements(r) ==
  /\ At(r, "requirements") /\ Exists
  /\ requirements' \in BOOLEAN
  /\ Goes(r, [req[r] EXCEPT !.pc = "save"])
  /\ UNCHANGED <<order, proposal, conversation, escrow>>

\* ... and OrderRepositoryAdapter.Update writes every column from the copy,
\* without a condition on what the row is by now.
SaveOrder(r) ==
  /\ At(r, "save")
  /\ order' = IF Exists THEN req[r].row ELSE order
  /\ Goes(r, Idle)
  /\ UNCHANGED <<requirements, proposal, conversation, escrow>>

\* POST /orders/:id/publish: Order.Publish on the copy, then SaveOrder.
PublishRead(r) ==
  /\ At(r, "idle") /\ order.status = "draft"
  /\ Goes(r, [Idle EXCEPT !.pc = "save",
                          !.row = [order EXCEPT !.status = "published"]])
  /\ UNCHANGED <<order, requirements, proposal, conversation, escrow>>

-----------------------------------------------------------------------------
(***************************************************************************)
(* POST /orders/:id/proposals: OrderService.CreateProposal.  The check for *)
(* an earlier proposal is subsumed by UNIQUE (order_id, freelancer_id).    *)
(***************************************************************************)
ProposeRead(r, f) ==
  /\ At(r, "idle") /\ order.status = "published"
  /\ Goes(r, [Idle EXCEPT !.pc = "insert", !.f = f])
  /\ UNCHANGED <<order, requirements, proposal, conversation, escrow>>

ProposeInsert(r) ==
  /\ At(r, "insert") /\ Exists
  /\ proposal[req[r].f] = "none"
  /\ proposal' = [proposal EXCEPT ![req[r].f] = "pending"]
  /\ Goes(r, Talk(req[r].f))
  /\ UNCHANGED <<order, requirements, conversation, escrow>>

\* The last statements of CreateProposal and of an accepting
\* UpdateProposalStatus: the conversation, unless there is one.
EnsureConversation(r) ==
  /\ At(r, "talk") /\ Exists
  /\ conversation' = conversation \cup {req[r].f}
  /\ Goes(r, Idle)
  /\ UNCHANGED <<order, requirements, proposal, escrow>>

-----------------------------------------------------------------------------
(***************************************************************************)
(* PUT /orders/:id/proposals/:proposalId/status by the order's client:     *)
(* OrderService.UpdateProposalStatus copies the proposal ...               *)
(***************************************************************************)
StatusReadProposal(r, f, to) ==
  /\ At(r, "idle") /\ proposal[f] # "none"
  /\ Goes(r, [Idle EXCEPT !.pc = "readOrder", !.f = f, !.to = to,
                          !.was = proposal[f]])
  /\ UNCHANGED <<order, requirements, proposal, conversation, escrow>>

\* ... and the order ...
StatusReadOrder(r) ==
  /\ At(r, "readOrder") /\ Exists
  /\ order.status \notin {"completed", "cancelled"}
  /\ Goes(r, IF req[r].to = "accepted"
             THEN [req[r] EXCEPT !.pc = "hold", !.row = order]
             ELSE [req[r] EXCEPT !.pc = "write", !.was = "none"])
  /\ UNCHANGED <<order, requirements, proposal, conversation, escrow>>

\* Mutant of InsertEscrow: a refunded escrow gives way to a new one.
InsertEscrow_AfterRefund(f, mine) ==
  /\ Exists /\ escrow.status \in {"none", "refunded"}
  /\ escrow' = [status |-> "held", freelancer |-> f, mine |-> mine]

\* INSERT INTO escrow: one row per order, whatever its status.
InsertEscrow(f, mine) ==
  /\ Exists /\ escrow = NoEscrow
  /\ escrow' = [status |-> "held", freelancer |-> f, mine |-> mine]

\* Mutant of AcceptHold: whose escrow is held is not compared.
AcceptHold_AnyFreelancer(r) ==
  /\ At(r, "hold")
  /\ \/ /\ \/ req[r].was = "accepted"
           \/ escrow.status = "held" /\ escrow.mine
        /\ UNCHANGED escrow
     \/ InsertEscrow(req[r].f, TRUE)
  /\ Goes(r, [req[r] EXCEPT !.pc = "write", !.was = "none"])
  /\ UNCHANGED <<order, requirements, proposal, conversation>>

\* ... for an acceptance holds the amount, unless the proposal was accepted
\* when it was copied or the order's escrow is already held for this pair ...
AcceptHold(r) ==
  /\ At(r, "hold")
  /\ \/ /\ \/ req[r].was = "accepted"
           \/ escrow = [status |-> "held", freelancer |-> req[r].f, mine |-> TRUE]
        /\ UNCHANGED escrow
     \/ InsertEscrow(req[r].f, TRUE)
  /\ Goes(r, [req[r] EXCEPT !.pc = "write", !.was = "none"])
  /\ UNCHANGED <<order, requirements, proposal, conversation>>

\* ... writes the status, whatever the proposal's status is by now ...
StatusWrite(r) ==
  LET q == req[r] IN
  /\ At(r, "write") /\ proposal[q.f] # "none"
  /\ proposal' = [proposal EXCEPT ![q.f] = q.to]
  /\ Goes(r, IF q.to # "accepted" THEN Idle
             ELSE IF q.row.status # "published" THEN Talk(q.f)
             ELSE [q EXCEPT !.pc = "assign", !.to = "none"])
  /\ UNCHANGED <<order, requirements, conversation, escrow>>

\* Mutant of AssignOrder: the freelancer is not put into the order.
AssignOrder_NoFreelancer(r) ==
  LET q == req[r] IN
  /\ At(r, "assign")
  /\ \/ /\ Exists
        /\ order' = [q.row EXCEPT !.status = "in_progress"]
        /\ requirements' = FALSE
     \/ UNCHANGED <<order, requirements>>
  /\ Goes(r, Talk(q.f))
  /\ UNCHANGED <<proposal, conversation, escrow>>

\* ... and, if the order was published when it was copied, writes the copy
\* back as in progress with no requirements.  A failure is only logged.
AssignOrder(r) ==
  LET q == req[r] IN
  /\ At(r, "assign")
  /\ \/ /\ Exists
        /\ order' = [q.row EXCEPT !.status = "in_progress", !.freelancer = q.f]
        /\ requirements' = FALSE
     \/ UNCHANGED <<order, requirements>>
  /\ Goes(r, Talk(q.f))
  /\ UNCHANGED <<proposal, conversation, escrow>>

-----------------------------------------------------------------------------
(***************************************************************************)
(* POST /orders/:id/complete-by-freelancer: the handler reads the order,   *)
(* the proposals and the requirements ...                                  *)
(***************************************************************************)
CompleteReadOrder(r, f) ==
  /\ At(r, "idle") /\ order.status = "in_progress"
  /\ Goes(r, [Idle EXCEPT !.pc = "proposals", !.f = f])
  /\ UNCHANGED <<order, requirements, proposal, conversation, escrow>>

CompleteReadProposals(r) ==
  /\ At(r, "proposals") /\ proposal[req[r].f] = "accepted"
  /\ Goes(r, [req[r] EXCEPT !.pc = "copy"])
  /\ UNCHANGED <<order, requirements, proposal, conversation, escrow>>

CompleteReadRequirements(r) ==
  /\ At(r, "copy")
  /\ Goes(r, [req[r] EXCEPT !.pc = "reread", !.reqs = requirements])
  /\ UNCHANGED <<order, requirements, proposal, conversation, escrow>>

\* ... and OrderService.UpdateOrder reads the order again.  It refuses a
\* cancelled order, and accepts every other status ...
CompleteReread(r) ==
  /\ At(r, "reread") /\ Exists /\ order.status # "cancelled"
  /\ Goes(r, [req[r] EXCEPT !.pc = "release",
                            !.row = [order EXCEPT !.status = "completed"]])
  /\ UNCHANGED <<order, requirements, proposal, conversation, escrow>>

\* ... releases the escrow, where every failure is only logged ...
CompleteRelease(r) ==
  /\ At(r, "release")
  /\ \/ escrow.status = "held" /\ escrow' = [escrow EXCEPT !.status = "released"]
     \/ UNCHANGED escrow
  /\ Goes(r, [req[r] EXCEPT !.pc = "finish"])
  /\ UNCHANGED <<order, requirements, proposal, conversation>>

\* ... and writes the copies of the order and the requirements back.
CompleteWrite(r) ==
  /\ At(r, "finish") /\ Exists
  /\ order' = req[r].row
  /\ requirements' = req[r].reqs
  /\ Goes(r, Idle)
  /\ UNCHANGED <<proposal, conversation, escrow>>

-----------------------------------------------------------------------------
\* POST /payments/escrow: CreateEscrowAtomic for any freelancer and client.
HoldByHand(f, mine) ==
  /\ InsertEscrow(f, mine)
  /\ UNCHANGED <<order, requirements, proposal, conversation, req>>

\* POST /payments/escrow/:orderId/release and refund by the escrow's client.
ReleaseEscrowAtomic ==
  /\ escrow.status = "held"
  /\ escrow' = [escrow EXCEPT !.status = "released"]
  /\ UNCHANGED <<order, requirements, proposal, conversation, req>>

RefundEscrowAtomic ==
  /\ escrow.status = "held"
  /\ escrow' = [escrow EXCEPT !.status = "refunded"]
  /\ UNCHANGED <<order, requirements, proposal, conversation, req>>

\* GET /orders/:id/chat: the conversation with the assigned freelancer.
GetOrderChat ==
  /\ order.freelancer # NoOne
  /\ conversation' = conversation \cup {order.freelancer}
  /\ UNCHANGED <<order, requirements, proposal, escrow, req>>

\* Mutant of DeleteOrder: the proposals outlive the order.
DeleteOrder_KeepsProposals ==
  /\ Exists
  /\ order' = Deleted
  /\ requirements' = FALSE
  /\ conversation' = {}
  /\ escrow' = NoEscrow
  /\ UNCHANGED <<proposal, req>>

\* Mutant of DeleteOrder: the conversations outlive the order.
DeleteOrder_KeepsConversations ==
  /\ Exists
  /\ order' = Deleted
  /\ requirements' = FALSE
  /\ proposal' = [f \in Freelancers |-> "none"]
  /\ escrow' = NoEscrow
  /\ UNCHANGED <<conversation, req>>

\* DELETE /orders/:id in any status: every dependent row cascades.
DeleteOrder ==
  /\ Exists
  /\ order' = Deleted
  /\ requirements' = FALSE
  /\ proposal' = [f \in Freelancers |-> "none"]
  /\ conversation' = {}
  /\ escrow' = NoEscrow
  /\ UNCHANGED req

\* The request ends early; see the header.
Abort(r) ==
  /\ ~At(r, "idle")
  /\ Goes(r, Idle)
  /\ UNCHANGED <<order, requirements, proposal, conversation, escrow>>

Starts(r) ==
  \/ UpdateRead(r)
  \/ PublishRead(r)
  \/ \E f \in Freelancers : \/ ProposeRead(r, f)
                            \/ CompleteReadOrder(r, f)
                            \/ \E to \in ProposalStatus : StatusReadProposal(r, f, to)

Continues(r) ==
  \/ UpdateRequirements(r) \/ SaveOrder(r)
  \/ ProposeInsert(r) \/ EnsureConversation(r)
  \/ StatusReadOrder(r) \/ AcceptHold(r) \/ StatusWrite(r) \/ AssignOrder(r)
  \/ CompleteReadProposals(r) \/ CompleteReadRequirements(r)
  \/ CompleteReread(r) \/ CompleteRelease(r) \/ CompleteWrite(r)

OneStatement ==
  \/ \E f \in Freelancers, mine \in BOOLEAN : HoldByHand(f, mine)
  \/ ReleaseEscrowAtomic
  \/ RefundEscrowAtomic
  \/ GetOrderChat
  \/ DeleteOrder

Next ==
  \/ \E r \in Requests : Starts(r) \/ Continues(r) \/ Abort(r)
  \/ OneStatement

Spec == Init /\ [][Next]_vars

-----------------------------------------------------------------------------
(***************************************************************************)
(* Properties                                                              *)
(***************************************************************************)

\* Type invariant: no interleaving of the statements leaves a half-written row.
TypeOK ==
  /\ order \in OrderRow \cup {Deleted}
  /\ requirements \in BOOLEAN
  /\ proposal \in [Freelancers -> ProposalStatus \cup {"none"}]
  /\ conversation \subseteq Freelancers
  /\ escrow \in EscrowRow \cup {NoEscrow}
  /\ req \in [Requests -> RequestState]

\* The order's client has held an amount for freelancer f (and may have
\* released it or taken it back since).
FundedFor(f) == escrow # NoEscrow /\ escrow.freelancer = f /\ escrow.mine

\* UpdateProposalStatus skips the hold when its stale copy says "accepted",
\* accepts an escrow that was made by hand, and writes the status without
\* looking again.  Still a proposal is accepted only for the freelancer the
\* order's escrow is for, through retries, rejections, refunds and deletions.
AcceptedIsFunded ==
  \A f \in Freelancers : proposal[f] = "accepted" => FundedFor(f)

\* However many acceptances run at once, an order never has two accepted
\* proposals (no constraint of the table proposals says so: what prevents it
\* is that the order has one escrow row for ever).
AtMostOneAccepted ==
  \A f, g \in Freelancers :
    proposal[f] = "accepted" /\ proposal[g] = "accepted" => f = g

\* Whichever stale copy of the order is written last, the freelancer it names
\* is the one the escrow is for, although the proposal may be rejected again.
AssignedIsFunded ==
  order.freelancer # NoOne => FundedFor(order.freelancer)

\* The row is overwritten from copies by four handlers, yet an order in
\* progress has a freelancer, and only an order in progress or completed has.
\* (A completed one may have none: the completion reads the order twice, and
\* an edit in between may take it out of in_progress.)
InProgressIsAssigned ==
  /\ order.status = "in_progress" => order.freelancer # NoOne
  /\ order.freelancer # NoOne => order.status \in {"in_progress", "completed"}

\* Whoever has a conversation about the order has sent a proposal for it:
\* also the chat GetOrderChat opens with the freelancer the order names.
ConversationHasProposal ==
  \A f \in conversation : proposal[f] # "none"


\* Seen from outside, the acceptances, completions, payments and deletions of
\* an order take its escrow through the life EscrowLife promises.
Life == INSTANCE EscrowLife WITH
  Terms <- Freelancers \X BOOLEAN,
  NoTerms <- <<>>,
  status <- IF Exists THEN escrow.status ELSE "deleted",
  terms <- IF escrow = NoEscrow THEN <<>> ELSE <<escrow.freelancer, escrow.mine>>

EscrowLivesOnce == Life!Spec

=============================================================================
