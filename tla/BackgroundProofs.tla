-------------------------- MODULE BackgroundProofs --------------------------
(***************************************************************************)
(* The goroutines in the background: the hub, for any users, connections,  *)
(* emitters and capacities (WsHub), and the AI's runs, for any proposals   *)
(* and any number of runs that overlap (AIAnalysis).                       *)
(***************************************************************************)
EXTENDS WsHub, AIAnalysis, TLAPS

\* Closing some connections only ever adds goroutines that wait for removal.
LEMMA CloseAdds ==
  ASSUME closers \in [Conns -> 0..ClosersBound], NEW C, Close(C)
  PROVE  /\ closers' \in [Conns -> 0..ClosersBound]
         /\ \A c \in Conns : closers[c] > 0 => closers'[c] > 0
         /\ \A c \in Conns : c \in C => closers'[c] > 0
  BY WsHubAssumption DEF Close

\* No queue exceeds its capacity, and missing an event adds a closer.
LEMMA EnqueueFits ==
  ASSUME closers \in [Conns -> 0..ClosersBound],
         queue \in [Conns -> 0..QueueLimit], NEW C, Enqueue(C)
  PROVE  /\ queue' \in [Conns -> 0..QueueLimit]
         /\ closers' \in [Conns -> 0..ClosersBound]
         /\ \A c \in Conns : closers[c] > 0 => closers'[c] > 0
<1> DEFINE full == {c \in C : queue[c] = QueueLimit}
<1>1. Close(full)
  BY DEF Enqueue
<1>2. \A c \in Conns : c \in C \ full => queue[c] + 1 \in 0..QueueLimit
  BY WsHubAssumption
<1>3. queue' = [c \in Conns |-> IF c \in C \ full THEN queue[c] + 1 ELSE queue[c]]
  BY DEF Enqueue
<1>4. queue' \in [Conns -> 0..QueueLimit]
  <2> HIDE DEF full
  <2> QED
    BY <1>2, <1>3
<1> HIDE DEF full
<1> QED
  BY <1>1, <1>4, CloseAdds

\* Every step keeps the types.
LEMMA TypeStep == TypeOK /\ [Next]_vars => TypeOK'
<1> SUFFICES ASSUME TypeOK, [Next]_vars PROVE TypeOK'
  OBVIOUS
<1> USE WsHubAssumption DEF TypeOK, Pc
<1>1. CASE UNCHANGED vars
  BY <1>1 DEF vars
<1>2. ASSUME HubSend PROVE TypeOK'
  <2>1. channel' \in Seq(Users) /\ Len(channel') <= ChannelLimit
    BY <1>2 DEF HubSend
  <2> QED
    BY <1>2, <2>1, EnqueueFits DEF HubSend
<1>3. ASSUME BroadcastGlobal PROVE TypeOK'
  BY <1>3, EnqueueFits DEF BroadcastGlobal
<1>4. CASE Stop
  BY <1>4 DEF Stop
<1>5. ASSUME NEW c \in Conns, HubRegister(c) PROVE TypeOK'
  BY <1>5 DEF HubRegister, Goes
<1>6. ASSUME NEW c \in Conns, HubUnregister(c) PROVE TypeOK'
  BY <1>6 DEF HubUnregister
<1>7. ASSUME NEW c \in Conns, Upgrade(c) PROVE TypeOK'
  BY <1>7 DEF Upgrade, Goes
<1>8. ASSUME NEW c \in Conns, Pong(c) PROVE TypeOK'
  BY <1>8 DEF Pong
<1>9. ASSUME NEW c \in Conns, Command(c) PROVE TypeOK'
  BY <1>9 DEF Command, Goes
<1>10. ASSUME NEW c \in Conns, NEW u \in Users, CommandEnds(c, u) PROVE TypeOK'
  <2>1. channel' \in Seq(Users) /\ Len(channel') <= ChannelLimit
    BY <1>10 DEF CommandEnds
  <2>2. queue' \in [Conns -> 0..QueueLimit]
    BY <1>10 DEF CommandEnds, Answer
  <2> QED
    BY <1>10, <2>1, <2>2 DEF CommandEnds, Goes
<1>11. ASSUME NEW c \in Conns, ReadEnds(c) PROVE TypeOK'
  BY <1>11, CloseAdds DEF ReadEnds, Goes
<1>12. ASSUME NEW c \in Conns, WriteEvent(c) PROVE TypeOK'
  BY <1>12 DEF WriteEvent
<1>13. ASSUME NEW c \in Conns, SocketFails(c) PROVE TypeOK'
  BY <1>13 DEF SocketFails
<1>14. ASSUME NEW c \in Conns, CloseSocket(c) PROVE TypeOK'
  BY <1>14 DEF CloseSocket
<1>15. ASSUME NEW e \in Emitters, Push(e) PROVE TypeOK'
  <2>1. channel' \in Seq(Users) /\ Len(channel') <= ChannelLimit
    BY <1>15 DEF Push
  <2> QED
    BY <1>15, <2>1 DEF Push
<1>16. ASSUME NEW e \in Emitters, NEW u \in Users, Emit(e, u) PROVE TypeOK'
  BY <1>16 DEF Emit
<1>17. ASSUME NEW u \in Users, Expire(u) PROVE TypeOK'
  BY <1>17 DEF Expire
<1>18. ASSUME NEW c \in Conns, QuietCommand(c) PROVE TypeOK'
  BY <1>18 DEF QuietCommand, Answer
<1> QED
  BY <1>1, <1>2, <1>3, <1>4, <1>5, <1>6, <1>7, <1>8, <1>9, <1>10, <1>11,
     <1>12, <1>13, <1>14, <1>15, <1>16, <1>17, <1>18
  DEF Next, Hub, Connection

\* In every reachable state the counters are within the capacities.
THEOREM TypeCorrect == Spec => []TypeOK
<1>1. Init => TypeOK
  BY WsHubAssumption DEF Init, TypeOK, Pc
<1> QED
  BY <1>1, TypeStep, PTL DEF Spec

-----------------------------------------------------------------------------
\* The hub keeps a closed connection only while its removal is still to come.
LEMMA ZombieStep == TypeOK /\ NoZombie /\ [Next]_vars => NoZombie'
<1> SUFFICES ASSUME TypeOK, NoZombie, [Next]_vars, NEW d \in clients'
             PROVE  pc'[d] \in {"reading", "emitting"} \/ closers'[d] > 0
  BY DEF NoZombie
<1>t. /\ pc \in [Conns -> Pc]
      /\ closers \in [Conns -> 0..ClosersBound]
      /\ queue \in [Conns -> 0..QueueLimit]
      /\ clients \subseteq Conns
  BY DEF TypeOK
<1>n. d \in clients => pc[d] \in {"reading", "emitting"} \/ closers[d] > 0
  BY DEF NoZombie
<1>1. CASE UNCHANGED <<clients, pc, closers>>
  BY <1>1, <1>n
<1>2. ASSUME NEW C, Enqueue(C), UNCHANGED <<clients, pc>>
      PROVE  pc'[d] \in {"reading", "emitting"} \/ closers'[d] > 0
  BY <1>2, <1>n, <1>t, EnqueueFits
<1>3. ASSUME NEW c \in Conns, HubRegister(c)
      PROVE  pc'[d] \in {"reading", "emitting"} \/ closers'[d] > 0
  BY <1>3, <1>n, <1>t DEF HubRegister, Goes
<1>4. ASSUME NEW c \in Conns, HubUnregister(c)
      PROVE  pc'[d] \in {"reading", "emitting"} \/ closers'[d] > 0
  BY <1>4, <1>n, <1>t DEF HubUnregister
<1>5. ASSUME NEW c \in Conns, ReadEnds(c)
      PROVE  pc'[d] \in {"reading", "emitting"} \/ closers'[d] > 0
  <2>1. closers'[c] > 0 /\ (closers[d] > 0 => closers'[d] > 0)
    BY <1>5, <1>t, CloseAdds DEF ReadEnds
  <2> QED
    BY <1>5, <2>1, <1>n, <1>t DEF ReadEnds, Goes
<1>6. ASSUME NEW c \in Conns, NEW from \in {"none", "reading", "emitting"},
             NEW to \in {"registering", "reading", "emitting"},
             pc[c] = from, Goes(c, to), from = "none" <=> to = "registering",
             UNCHANGED <<clients, closers>>
      PROVE  pc'[d] \in {"reading", "emitting"} \/ closers'[d] > 0
  BY <1>6, <1>n, <1>t DEF Goes
<1>7. ASSUME NEW c \in Conns, Connection(c)
      PROVE  pc'[d] \in {"reading", "emitting"} \/ closers'[d] > 0
  <2>1. CASE Upgrade(c)
    BY <2>1, <1>6 DEF Upgrade
  <2>2. CASE Command(c)
    BY <2>2, <1>6 DEF Command
  <2>3. CASE \E u \in Users : CommandEnds(c, u)
    BY <2>3, <1>6 DEF CommandEnds
  <2>4. CASE ReadEnds(c)
    BY <2>4, <1>5
  <2>5. CASE Pong(c) \/ QuietCommand(c) \/ WriteEvent(c)
             \/ SocketFails(c) \/ CloseSocket(c)
    BY <2>5, <1>1 DEF Pong, QuietCommand, WriteEvent, SocketFails, CloseSocket
  <2> QED
    BY <1>7, <2>1, <2>2, <2>3, <2>4, <2>5 DEF Connection
<1>8. CASE Hub
  <2>1. CASE HubSend
    BY <2>1, <1>2 DEF HubSend
  <2> QED
    BY <1>8, <2>1, <1>3, <1>4 DEF Hub
<1>9. CASE BroadcastGlobal
  BY <1>9, <1>2 DEF BroadcastGlobal
<1>10. CASE \/ UNCHANGED vars \/ Stop
            \/ \E e \in Emitters : Push(e) \/ \E u \in Users : Emit(e, u)
            \/ \E u \in Users : Expire(u)
  BY <1>10, <1>1 DEF vars, Stop, Push, Emit, Expire
<1> QED
  BY <1>7, <1>8, <1>9, <1>10 DEF Next

\* Whoever closes a connection in whatever order, the hub keeps none that
\* nobody will unregister.
THEOREM NeverZombie == Spec => []NoZombie
<1>1. Init => NoZombie
  BY DEF Init, NoZombie
<1> QED
  BY <1>1, TypeCorrect, ZombieStep, PTL DEF Spec

-----------------------------------------------------------------------------
(***************************************************************************)
(* The AI's runs                                                           *)
(***************************************************************************)

Slot ==
  [pc : {"idle", "listed", "order", "analyse", "recommend", "mark", "tell"},
   read : SUBSET Proposals, text : Nat, needs : BOOLEAN, todo : SUBSET Proposals,
   expired : BOOLEAN, late : SUBSET Proposals]

AnalysisTypeOK ==
  /\ present \subseteq Proposals /\ text \in Nat
  /\ marked \in BOOLEAN /\ touched \in BOOLEAN
  /\ analysis \in [Proposals -> Nat]
  /\ best \in Proposals \cup {None}
  /\ slots \in [Slots -> Slot]
  /\ due \in BOOLEAN
  /\ edit \in [on : BOOLEAN, best : Proposals \cup {None}]
  /\ writes \in Nat /\ visits \in Nat /\ faults \in Nat
  /\ missed \subseteq Proposals /\ alone \in BOOLEAN

\* The analysis of p is from the order's text, or p is one that was missed.
Fine(p) == p \in missed \/ analysis[p] = text

\* What a list that is not answered yet, and the run that it starts, may rely
\* on: whatever it does not know of has been missed, its text is the order's
\* unless everything is late, and it has dealt with what is not left to do.
Knows(s) ==
  LET r == slots[s] IN
  r.pc # "idle" =>
    /\ r.read \subseteq present
    /\ \A p \in present \ r.read : Fine(p)
    /\ r.pc # "listed" => \A p \in Proposals \ r.late : r.text = text
    /\ Running(s) => \A p \in r.read \ r.todo : Fine(p)
    /\ Running(s) /\ r.pc # "analyse" => r.todo = {}

\* The recommendation of the order and the one that an edit will write back.
BestIsThere ==
  /\ best \in present \cup {None}
  /\ edit.best \in present \cup {None}

Settled == marked /\ ~touched

\* A run that is on its own is the only one, and until it has set its mark it
\* is on its way to it.
Alone ==
  alone =>
    /\ \A s, t \in Slots : Running(s) /\ Running(t) => s = t
    /\ Settled \/ \E s \in Slots : slots[s].pc \in {"analyse", "recommend", "mark"}

AnalysisInv ==
  /\ AnalysisTypeOK /\ BestIsThere /\ Alone
  /\ \A s \in Slots : Knows(s)
  /\ Settled => \A p \in present : Fine(p)

-----------------------------------------------------------------------------
\* Every step changes a slot in its fields only.
LEMMA SlotsKept ==
  ASSUME AnalysisTypeOK, AnalysisNext
  PROVE  slots' \in [Slots -> Slot]
<1>0. slots \in [Slots -> Slot] /\ present \subseteq Proposals /\ text \in Nat
  BY DEF AnalysisTypeOK
<1>i. Idle \in Slot /\ \A ps \in SUBSET Proposals : [Idle EXCEPT !.pc = "listed", !.read = ps] \in Slot
  BY DEF Idle, Slot
<1>l. \A ps \in SUBSET Proposals : Late(ps) \in [Slots -> Slot]
  BY <1>0 DEF Late, Slot
<1>n. \A f \in [Slots -> Slot] : Noticed(f) \in [Slots -> Slot]
  BY DEF Noticed, Slot
<1>1. ASSUME NEW p \in Proposals, CreateProposal(p) \/ UpdateProposalStatus(p)
      PROVE  slots' \in [Slots -> Slot]
  BY <1>0, <1>l, <1>n, <1>1 DEF CreateProposal, UpdateProposalStatus
<1>2. CASE TouchOrder \/ EditRead \/ EditWrite \/ Restart \/ Done
  BY <1>0, <1>i, <1>l, <1>2 DEF TouchOrder, EditRead, EditWrite, Restart, Done,
     analysisVars
<1>3. ASSUME NEW s \in Slots, Visit(s) \/ Refetch(s) \/ Tell(s) PROVE slots' \in [Slots -> Slot]
  BY <1>0, <1>i, <1>3 DEF Visit, Refetch, Read, Tell
<1>4. ASSUME NEW s \in Slots, NEW ok \in BOOLEAN, GetOrder(s, ok) PROVE slots' \in [Slots -> Slot]
  <2>1. [slots[s] EXCEPT !.pc = "order", !.text = text, !.needs = ~marked \/ touched] \in Slot
    BY <1>0 DEF Slot
  <2> QED
    BY <1>0, <1>i, <1>4, <2>1 DEF GetOrder
<1>5. ASSUME NEW s \in Slots, NEW ok \in BOOLEAN, Check(s, ok) PROVE slots' \in [Slots -> Slot]
  <2>1. [slots[s] EXCEPT !.pc = "analyse", !.todo = slots[s].read] \in Slot
    BY <1>0 DEF Slot
  <2> QED
    BY <1>0, <1>i, <1>5, <2>1 DEF Check, Regenerate
<1>6. ASSUME NEW s \in Slots, NEW at \in {"recommend", "mark", "tell"},
             slots' = [slots EXCEPT ![s].pc = at]
      PROVE  slots' \in [Slots -> Slot]
  BY <1>0, <1>6 DEF Slot
<1>7. ASSUME NEW s \in Slots, RunExpires(s) PROVE slots' \in [Slots -> Slot]
  BY <1>0, <1>7 DEF RunExpires, Slot
<1>8. ASSUME NEW s \in Slots, NEW p \in Proposals, NEW written \in BOOLEAN, Analyse(s, p, written)
      PROVE  slots' \in [Slots -> Slot]
  <2>1. [slots EXCEPT ![s].todo = @ \ {p}] \in [Slots -> Slot]
    BY <1>0 DEF Slot
  <2> QED
    BY <1>8, <1>n, <2>1 DEF Analyse
<1> QED
  BY <1>1, <1>2, <1>3, <1>4, <1>5, <1>6, <1>7, <1>8
  DEF AnalysisNext, Step, Analysed, Recommend, MarkAIAnalysisUpdated

\* The rows of proposals and order.
LEMMA RowsKept ==
  ASSUME AnalysisTypeOK, AnalysisNext
  PROVE  /\ present' \subseteq Proposals /\ text' \in Nat /\ missed' \subseteq Proposals
         /\ analysis' \in [Proposals -> Nat] /\ best' \in Proposals \cup {None}
<1> DEFINE Goal == /\ present' \subseteq Proposals /\ text' \in Nat /\ missed' \subseteq Proposals
                   /\ analysis' \in [Proposals -> Nat] /\ best' \in Proposals \cup {None}
<1> USE DEF AnalysisTypeOK
<1>1. ASSUME NEW p \in Proposals, CreateProposal(p) \/ UpdateProposalStatus(p) PROVE Goal
  BY <1>1 DEF CreateProposal, UpdateProposalStatus, Changed, bounds
<1>2. CASE TouchOrder \/ EditRead
  BY <1>2 DEF TouchOrder, EditRead, row
<1>3. CASE EditWrite \/ Restart \/ Done
  BY <1>3 DEF EditWrite, Changed, Restart, Fault, NoEdit, Done, analysisVars,
     row, bounds
<1>4. ASSUME NEW s \in Slots, NEW ok \in BOOLEAN,
             Visit(s) \/ Refetch(s) \/ GetOrder(s, ok) \/ Check(s, ok) PROVE Goal
  BY <1>4 DEF Visit, Refetch, GetOrder, Check, Regenerate, row, bounds
<1>5. ASSUME NEW s \in Slots, Analysed(s) \/ Tell(s) \/ RunExpires(s) PROVE Goal
  BY <1>5 DEF Analysed, Tell, RunExpires, Fault, row, bounds
<1>6. ASSUME NEW s \in Slots, NEW p \in Proposals, NEW written \in BOOLEAN, Analyse(s, p, written) PROVE Goal
  <2>1. slots[s].text \in Nat
    BY DEF Slot
  <2> QED
    BY <1>6, <2>1 DEF Analyse
<1>7. ASSUME NEW s \in Slots, NEW named, NEW written \in BOOLEAN, Recommend(s, named, written) PROVE Goal
  <2>1. slots[s].read \subseteq Proposals
    BY DEF Slot
  <2>2. best' \in Proposals \cup {None}
    BY <1>7, <2>1 DEF Recommend, BestOf
  <2> QED
    BY <1>7, <2>2 DEF Recommend
<1>8. ASSUME NEW s \in Slots, NEW written \in BOOLEAN, MarkAIAnalysisUpdated(s, written) PROVE Goal
  BY <1>8 DEF MarkAIAnalysisUpdated
<1> QED
  BY <1>1, <1>2, <1>3, <1>4, <1>5, <1>6, <1>7, <1>8 DEF AnalysisNext, Step

\* The flags.
LEMMA FlagsKept ==
  ASSUME AnalysisTypeOK, AnalysisNext
  PROVE  /\ marked' \in BOOLEAN /\ touched' \in BOOLEAN
         /\ due' \in BOOLEAN /\ alone' \in BOOLEAN
<1> DEFINE Goal == /\ marked' \in BOOLEAN /\ touched' \in BOOLEAN
                   /\ due' \in BOOLEAN /\ alone' \in BOOLEAN
<1> USE DEF AnalysisTypeOK
<1>1. ASSUME NEW p \in Proposals, CreateProposal(p) \/ UpdateProposalStatus(p) PROVE Goal
  BY <1>1 DEF CreateProposal, UpdateProposalStatus, Changed, bounds
<1>2. CASE TouchOrder \/ EditRead
  BY <1>2 DEF TouchOrder, EditRead, row
<1>3. CASE EditWrite \/ Restart \/ Done
  BY <1>3 DEF EditWrite, Changed, Restart, Fault, NoEdit, Done, analysisVars,
     row, bounds
<1>4. ASSUME NEW s \in Slots, NEW ok \in BOOLEAN,
             Visit(s) \/ Refetch(s) \/ GetOrder(s, ok) \/ Check(s, ok) PROVE Goal
  BY <1>4 DEF Visit, Refetch, GetOrder, Check, Regenerate, row, bounds
<1>5. ASSUME NEW s \in Slots, Analysed(s) \/ Tell(s) \/ RunExpires(s) PROVE Goal
  BY <1>5 DEF Analysed, Tell, RunExpires, Fault, row, bounds
<1>6. ASSUME NEW s \in Slots, NEW p \in Proposals, NEW written \in BOOLEAN, Analyse(s, p, written) PROVE Goal
  BY <1>6 DEF Analyse
<1>7. ASSUME NEW s \in Slots, NEW named, NEW written \in BOOLEAN, Recommend(s, named, written) PROVE Goal
  BY <1>7 DEF Recommend
<1>8. ASSUME NEW s \in Slots, NEW written \in BOOLEAN, MarkAIAnalysisUpdated(s, written) PROVE Goal
  BY <1>8 DEF MarkAIAnalysisUpdated
<1> QED
  BY <1>1, <1>2, <1>3, <1>4, <1>5, <1>6, <1>7, <1>8 DEF AnalysisNext, Step

\* The edit and the bounds.
LEMMA BoundsKept ==
  ASSUME AnalysisTypeOK, AnalysisNext
  PROVE  /\ edit' \in [on : BOOLEAN, best : Proposals \cup {None}]
         /\ writes' \in Nat /\ visits' \in Nat /\ faults' \in Nat
<1> DEFINE Goal == /\ edit' \in [on : BOOLEAN, best : Proposals \cup {None}]
                   /\ writes' \in Nat /\ visits' \in Nat /\ faults' \in Nat
<1> USE DEF AnalysisTypeOK
<1>1. ASSUME NEW p \in Proposals, CreateProposal(p) \/ UpdateProposalStatus(p) PROVE Goal
  BY <1>1 DEF CreateProposal, UpdateProposalStatus, Changed, bounds
<1>2. CASE TouchOrder \/ EditRead
  <2>0. edit' = edit \/ edit' = [on |-> TRUE, best |-> best]
    BY <1>2 DEF TouchOrder, EditRead
  <2>1. edit' \in [on : BOOLEAN, best : Proposals \cup {None}]
    <3>1. /\ edit \in [on : BOOLEAN, best : Proposals \cup {None}] /\ best \in Proposals \cup {None}
          /\ TRUE \in BOOLEAN /\ FALSE \in BOOLEAN
      OBVIOUS
    <3>2. CASE edit' = edit
      BY <3>1, <3>2
    <3>3. CASE edit' = [on |-> TRUE, best |-> best]
      BY <3>1, <3>3
    <3> QED
      BY <2>0, <3>2, <3>3
  <2>2. writes' \in Nat /\ visits' \in Nat /\ faults' \in Nat
    BY <1>2 DEF TouchOrder, EditRead, row
  <2> QED
    BY <2>1, <2>2
<1>3. CASE EditWrite \/ Restart \/ Done
  <2>0. edit' = edit \/ edit' = [on |-> FALSE, best |-> None]
    BY <1>3 DEF EditWrite, Restart, NoEdit, Done, analysisVars
  <2>1. edit' \in [on : BOOLEAN, best : Proposals \cup {None}]
    <3>1. /\ edit \in [on : BOOLEAN, best : Proposals \cup {None}] /\ best \in Proposals \cup {None}
          /\ TRUE \in BOOLEAN /\ FALSE \in BOOLEAN
      OBVIOUS
    <3>2. CASE edit' = edit
      BY <3>1, <3>2
    <3>3. CASE edit' = [on |-> FALSE, best |-> None]
      BY <3>1, <3>3
    <3> QED
      BY <2>0, <3>2, <3>3
  <2>2. writes' \in Nat /\ visits' \in Nat /\ faults' \in Nat
    BY <1>3 DEF EditWrite, Changed, Restart, Fault, NoEdit, Done, analysisVars,
       row, bounds
  <2> QED
    BY <2>1, <2>2
<1>4. ASSUME NEW s \in Slots, NEW ok \in BOOLEAN,
             Visit(s) \/ Refetch(s) \/ GetOrder(s, ok) \/ Check(s, ok) PROVE Goal
  BY <1>4 DEF Visit, Refetch, GetOrder, Check, Regenerate, Fault, row, bounds
<1>5. ASSUME NEW s \in Slots, Analysed(s) \/ Tell(s) \/ RunExpires(s) PROVE Goal
  BY <1>5 DEF Analysed, Tell, RunExpires, Fault, row, bounds
<1>6. ASSUME NEW s \in Slots, NEW p \in Proposals, NEW written \in BOOLEAN, Analyse(s, p, written) PROVE Goal
  BY <1>6 DEF Analyse, Outcome, Fault
<1>7. ASSUME NEW s \in Slots, NEW named, NEW written \in BOOLEAN, Recommend(s, named, written) PROVE Goal
  BY <1>7 DEF Recommend, Outcome, Fault
<1>8. ASSUME NEW s \in Slots, NEW written \in BOOLEAN, MarkAIAnalysisUpdated(s, written) PROVE Goal
  BY <1>8 DEF MarkAIAnalysisUpdated, Outcome, Fault
<1> QED
  BY <1>1, <1>2, <1>3, <1>4, <1>5, <1>6, <1>7, <1>8 DEF AnalysisNext, Step

\* Every step keeps the types.
LEMMA AnalysisTypeKept ==
  ASSUME AnalysisTypeOK, AnalysisNext
  PROVE  AnalysisTypeOK'
  BY SlotsKept, RowsKept, FlagsKept, BoundsKept DEF AnalysisTypeOK

\* The recommended proposal, and the one an edit carries, still exists.
LEMMA BestKept ==
  ASSUME AnalysisInv, AnalysisNext
  PROVE  BestIsThere'
<1>0. AnalysisTypeOK /\ BestIsThere
  BY DEF AnalysisInv
<1>1. CASE best' = best /\ edit' = edit /\ present \subseteq present'
  BY <1>0, <1>1 DEF BestIsThere
<1>2. CASE EditRead \/ EditWrite \/ Restart
  BY <1>0, <1>2 DEF EditRead, EditWrite, Restart, NoEdit, BestIsThere, row
<1>3. ASSUME NEW s \in Slots, NEW named \in Proposals \cup {Foreign}, NEW written \in BOOLEAN,
             Recommend(s, named, written)
      PROVE  BestIsThere'
  <2>1. slots[s].read \subseteq present
    BY <1>3 DEF AnalysisInv, Knows, Recommend
  <2>2. best' \in slots[s].read \/ best' = best
    BY <1>3 DEF Recommend, BestOf
  <2> QED
    BY <1>0, <1>3, <2>1, <2>2 DEF Recommend, BestIsThere
<1>4. ASSUME NEW s \in Slots, NEW p \in Proposals, NEW written \in BOOLEAN, Analyse(s, p, written)
      PROVE  BestIsThere'
  BY <1>1, <1>4 DEF Analyse
<1>5. ASSUME NEW s \in Slots, NEW written \in BOOLEAN, MarkAIAnalysisUpdated(s, written)
      PROVE  BestIsThere'
  BY <1>1, <1>5 DEF MarkAIAnalysisUpdated
<1> QED
  BY <1>1, <1>2, <1>3, <1>4, <1>5
  DEF AnalysisNext, Step, CreateProposal, UpdateProposalStatus, TouchOrder, Done,
     Visit, Refetch, GetOrder,
      Check, Regenerate, Analysed, Tell, RunExpires, row, analysisVars

\* While a list or a run is on its way, nothing is forgotten: what is missed
\* is noted, what is written is of the current text.
LEMMA FineKept ==
  ASSUME AnalysisInv, AnalysisNext, Busy # {}
  PROVE  /\ present \subseteq present'
         /\ \A p \in present : Fine(p) => Fine(p)'
         /\ \A p \in present' \ present : Fine(p)'
<1>0. AnalysisTypeOK /\ present \subseteq Proposals
  BY DEF AnalysisInv, AnalysisTypeOK
<1>1. CASE present' = present /\ analysis' = analysis /\ text' = text /\ missed' = missed
  BY <1>1 DEF Fine
<1>2. ASSUME NEW p \in Proposals, CreateProposal(p)
      PROVE  /\ present \subseteq present'
             /\ \A q \in present : Fine(q) => Fine(q)'
             /\ \A q \in present' \ present : Fine(q)'
  BY <1>2 DEF CreateProposal, Changed, Fine
<1>3. CASE EditWrite
  BY <1>0, <1>3 DEF EditWrite, Changed, Fine
<1>4. ASSUME NEW s \in Slots, NEW p \in Proposals, NEW written \in BOOLEAN, Analyse(s, p, written)
      PROVE  /\ present' = present
             /\ \A q \in present : Fine(q) => Fine(q)'
  <2>1. slots[s].pc = "analyse" /\ present' = present /\ text' = text
    BY <1>4 DEF Analyse
  <2>2. p \notin slots[s].late => slots[s].text = text
    BY <2>1 DEF AnalysisInv, Knows
  <2>3. analysis \in [Proposals -> Nat]
    BY <1>0 DEF AnalysisTypeOK
  <2>4. CASE written
    <3>1. analysis' = [analysis EXCEPT ![p] = slots[s].text]
          /\ missed' = IF p \notin slots[s].late THEN missed \ {p} ELSE missed \cup {p}
      BY <1>4, <2>4 DEF Analyse
    <3> QED
      BY <1>0, <2>1, <2>2, <2>3, <3>1 DEF Fine
  <2>5. CASE ~written
    BY <1>4, <2>1, <2>5 DEF Analyse, Fine
  <2> QED
    BY <2>1, <2>4, <2>5
<1> QED
  BY <1>1, <1>2, <1>3, <1>4
  DEF AnalysisNext, Step, UpdateProposalStatus, TouchOrder, EditRead, Restart, Done,
     Visit, Refetch, GetOrder,
      Check, Regenerate, Analysed, Tell, RunExpires, Recommend, MarkAIAnalysisUpdated, row, analysisVars

\* What p is after the step of a run that has just dealt with it.
LEMMA Dealt ==
  ASSUME AnalysisInv, NEW s \in Slots, NEW p \in Proposals, NEW written \in BOOLEAN, Analyse(s, p, written)
  PROVE  Fine(p)'
<1>1. slots[s].pc = "analyse" /\ text' = text /\ analysis \in [Proposals -> Nat]
  BY DEF Analyse, AnalysisInv, AnalysisTypeOK
<1>2. p \notin slots[s].late => slots[s].text = text
  BY <1>1 DEF AnalysisInv, Knows
<1> QED
  BY <1>1, <1>2 DEF Analyse, Fine

\* Besides the steps below, only edits and changes of proposals write what
\* lists and runs rely on.
LEMMA KnowsKept ==
  ASSUME AnalysisInv, AnalysisNext, NEW s \in Slots
  PROVE  Knows(s)'
<1> DEFINE r == slots[s]
<1>0. /\ AnalysisTypeOK /\ AnalysisTypeOK' /\ slots \in [Slots -> Slot] /\ present \subseteq Proposals
      /\ Knows(s)
  BY AnalysisTypeKept DEF AnalysisInv, AnalysisTypeOK
<1>f. r.pc # "idle" => /\ present \subseteq present'
                       /\ \A p \in present : Fine(p) => Fine(p)'
                       /\ \A p \in present' \ present : Fine(p)'
  BY FineKept DEF Busy
\* The slot is as before, or it has only become later, and the text is the same.
<1>1. ASSUME slots'[s].pc = r.pc, slots'[s].read = r.read, slots'[s].text = r.text,
             slots'[s].todo = r.todo, r.late \subseteq slots'[s].late,
             text' = text \/ Proposals \subseteq slots'[s].late
      PROVE  Knows(s)'
  BY <1>0, <1>f, <1>1 DEF Knows, Running
<1>2. CASE slots' = slots /\ text' = text
  BY <1>1, <1>2
<1>3. ASSUME slots'[s].pc = "idle" PROVE Knows(s)'
  BY <1>3 DEF Knows, Running
<1>4. ASSUME NEW p \in Proposals, CreateProposal(p) \/ UpdateProposalStatus(p) PROVE Knows(s)'
  <2>1. CASE CreateProposal(p)
    BY <1>0, <1>1, <2>1 DEF CreateProposal, Late, Noticed, Slot
  <2>2. CASE UpdateProposalStatus(p)
    BY <1>0, <1>1, <2>2 DEF UpdateProposalStatus, Noticed, Slot
  <2> QED
    BY <1>4, <2>1, <2>2
<1>5. CASE EditWrite
  <2>1. CASE r.pc = "idle"
    BY <1>0, <1>3, <1>5, <2>1 DEF EditWrite, Late
  <2>2. CASE r.pc # "idle"
    BY <1>0, <1>1, <1>5, <2>2 DEF EditWrite, Late, Slot
  <2> QED
    BY <2>1, <2>2
<1>6. CASE Restart
  BY <1>3, <1>6 DEF Restart, Idle
<1>8. ASSUME Visit(s) \/ Refetch(s) PROVE Knows(s)'
  <2>1. slots'[s] = [Idle EXCEPT !.pc = "listed", !.read = present] /\ present' = present
    BY <1>0, <1>8 DEF Visit, Refetch, Read
  <2>2. slots'[s].pc = "listed" /\ slots'[s].read = present
    BY <2>1 DEF Idle
  <2> QED
    BY <2>1, <2>2 DEF Knows, Running
<1>9. ASSUME NEW ok \in BOOLEAN, GetOrder(s, ok) PROVE Knows(s)'
  <2>1. CASE r.read = {} \/ ~ok
    BY <1>0, <1>3, <1>9, <2>1 DEF GetOrder, Idle
  <2>2. CASE r.read # {} /\ ok
    <3>1. /\ r.pc = "listed" /\ slots'[s].pc = "order" /\ slots'[s].read = r.read
          /\ slots'[s].text = text /\ text' = text
      BY <1>0, <1>9, <2>2 DEF GetOrder, Slot, row
    <3> QED
      BY <1>0, <1>f, <3>1 DEF Knows, Running
  <2> QED
    BY <2>1, <2>2
<1>10. ASSUME NEW ok \in BOOLEAN, Check(s, ok) PROVE Knows(s)'
  <2>1. CASE ~r.needs /\ ok
    BY <1>0, <1>3, <1>10, <2>1 DEF Check, Regenerate, Idle
  <2>2. CASE r.needs \/ ~ok
    <3>1. /\ r.pc = "order" /\ slots'[s].pc = "analyse" /\ slots'[s].read = r.read
          /\ slots'[s].todo = r.read /\ slots'[s].text = r.text /\ slots'[s].late = r.late
          /\ text' = text
      BY <1>0, <1>10, <2>2 DEF Check, Regenerate, Slot, row
    <3> QED
      BY <1>0, <1>f, <3>1 DEF Knows, Running
  <2> QED
    BY <2>1, <2>2
<1>11. ASSUME NEW t \in Slots, NEW p \in Proposals, NEW written \in BOOLEAN, Analyse(t, p, written)
       PROVE  Knows(s)'
  <2>1. /\ slots'[s].pc = r.pc /\ slots'[s].read = r.read /\ slots'[s].text = r.text
        /\ slots'[s].late = r.late /\ text' = text
        /\ slots'[s].todo = IF t = s THEN r.todo \ {p} ELSE r.todo
    BY <1>0, <1>11 DEF Analyse, Noticed, Slot
  <2>2. CASE t = s
    <3>1. Fine(p)' /\ r.pc = "analyse"
      BY <1>11, <2>2, Dealt DEF Analyse
    <3> QED
      BY <1>0, <1>f, <2>1, <2>2, <3>1 DEF Knows, Running
  <2>3. CASE t # s
    BY <1>1, <2>1, <2>3
  <2> QED
    BY <2>2, <2>3
<1>12. ASSUME Analysed(s) PROVE Knows(s)'
  <2>1. /\ r.pc = "analyse" /\ r.todo = {} /\ slots'[s].pc = "recommend"
        /\ slots'[s].read = r.read /\ slots'[s].todo = {} /\ slots'[s].text = r.text
        /\ slots'[s].late = r.late /\ text' = text
    BY <1>0, <1>12 DEF Analysed, Slot, row
  <2> QED
    BY <1>0, <1>f, <2>1 DEF Knows, Running
<1>13. ASSUME NEW at \in {"mark", "tell"}, r.pc \in {"recommend", "mark"}, text' = text,
              slots' = [slots EXCEPT ![s].pc = at]
       PROVE  Knows(s)'
  <2>1. /\ slots'[s].pc = at /\ slots'[s].read = r.read /\ slots'[s].todo = r.todo
        /\ slots'[s].text = r.text /\ slots'[s].late = r.late
    BY <1>0, <1>13 DEF Slot
  <2> QED
    BY <1>0, <1>f, <1>13, <2>1 DEF Knows, Running
<1>14. ASSUME Tell(s) PROVE Knows(s)'
  BY <1>0, <1>3, <1>14 DEF Tell, Idle
<1>15. ASSUME RunExpires(s) PROVE Knows(s)'
  BY <1>0, <1>1, <1>15 DEF RunExpires, Slot, row
<1>16. ASSUME NEW t \in Slots, t # s,
              \/ Visit(t) \/ Refetch(t) \/ (\E ok \in BOOLEAN : GetOrder(t, ok) \/ Check(t, ok)) \/ Analysed(t) \/ Tell(t) \/ RunExpires(t)
              \/ \E named, written : Recommend(t, named, written)
              \/ \E written : MarkAIAnalysisUpdated(t, written)
       PROVE  Knows(s)'
  <2>1. slots'[s] = slots[s] /\ text' = text
    BY <1>0, <1>16 DEF Visit, Refetch, Read, GetOrder, Check, Regenerate, Analysed,
       Tell, RunExpires, Recommend,
                      MarkAIAnalysisUpdated, row
  <2> QED
    BY <1>1, <2>1
<1>17. CASE TouchOrder \/ EditRead \/ Done
  BY <1>2, <1>17 DEF TouchOrder, EditRead, Done, analysisVars, row
<1>18. ASSUME NEW named, NEW written, Recommend(s, named, written) \/ MarkAIAnalysisUpdated(s, written)
       PROVE  Knows(s)'
  BY <1>13, <1>18 DEF Recommend, MarkAIAnalysisUpdated
<1> QED
  BY <1>4, <1>5, <1>6, <1>8, <1>9, <1>10, <1>11, <1>12, <1>14, <1>15, <1>16, <1>17,
     <1>18 DEF AnalysisNext, Step

\* The order passes for current only while no proposal is unaccounted for.
LEMMA SettledKept ==
  ASSUME AnalysisInv, AnalysisNext
  PROVE  Settled' => \A p \in present' : Fine(p)'
<1> SUFFICES ASSUME Settled' PROVE \A p \in present' : Fine(p)'
  OBVIOUS
<1>0. AnalysisTypeOK /\ (Settled => \A p \in present : Fine(p))
  BY DEF AnalysisInv
<1>1. CASE present' = present /\ analysis' = analysis /\ text' = text /\ missed' = missed /\ Settled
  BY <1>0, <1>1 DEF Fine
\* A run that has dealt with what it listed sets the mark.
<1>2. ASSUME NEW s \in Slots, slots[s].pc \in {"recommend", "mark"},
             present' = present, analysis' = analysis, text' = text, missed' = missed
      PROVE  \A p \in present' : Fine(p)'
  <2>1. \A p \in present : Fine(p)
    BY <1>2 DEF AnalysisInv, Knows, Running
  <2> QED
    BY <1>2, <2>1 DEF Fine
<1>3. ASSUME NEW s \in Slots, NEW p \in Proposals, NEW written \in BOOLEAN, Analyse(s, p, written)
      PROVE  \A q \in present' : Fine(q)'
  <2>1. Busy # {} /\ marked' = marked /\ touched' = (touched \/ written) /\ present' = present
    BY <1>3 DEF Analyse, Busy
  <2>2. Settled
    BY <2>1 DEF Settled
  <2> QED
    BY <1>0, <1>3, <2>1, <2>2, FineKept
<1>4. CASE touched' = TRUE
  BY <1>4 DEF Settled
<1>5. ASSUME NEW s \in Slots, NEW named, NEW written,
             Recommend(s, named, written) \/ MarkAIAnalysisUpdated(s, written)
      PROVE  \A p \in present' : Fine(p)'
  BY <1>2, <1>5 DEF Recommend, MarkAIAnalysisUpdated
<1>6. ASSUME UNCHANGED <<present, row, missed>> PROVE \A p \in present' : Fine(p)'
  BY <1>1, <1>6 DEF row, Settled
<1> QED
  BY <1>3, <1>4, <1>5, <1>6
  DEF AnalysisNext, Step, CreateProposal, UpdateProposalStatus, Changed, TouchOrder,
     EditRead, EditWrite, Restart,
      Done, Visit, Refetch, GetOrder, Check, Regenerate, Analysed, Tell, RunExpires, analysisVars

\* On its way to the mark.
Marking(s) == slots[s].pc \in {"analyse", "recommend", "mark"}

\* A run alone with the order leaves the mark behind every write.
LEMMA AloneKept ==
  ASSUME AnalysisInv, AnalysisNext
  PROVE  Alone'
<1> SUFFICES ASSUME alone' PROVE Alone'
  BY DEF Alone
<1>0. /\ AnalysisTypeOK /\ slots \in [Slots -> Slot]
      /\ alone => /\ \A s, t \in Slots : Running(s) /\ Running(t) => s = t
                  /\ Settled \/ \E s \in Slots : Marking(s)
  BY DEF AnalysisInv, AnalysisTypeOK, Alone, Marking
\* Nobody else has begun to run, and whoever was on its way still is, or the
\* mark is set.
<1>1. ASSUME alone, \A s \in Slots : Running(s)' => Running(s),
             Settled => Settled' \/ \E s \in Slots : Marking(s)',
             \A s \in Slots : Marking(s) => Marking(s)' \/ Settled'
      PROVE  Alone'
  BY <1>0, <1>1 DEF Alone, Marking
<1>2. ASSUME NEW s \in Slots, NEW ok \in BOOLEAN, GetOrder(s, ok) \/ Visit(s) \/ Refetch(s) \/ Analysed(s) PROVE Alone'
  <2>1. UNCHANGED <<alone, marked, touched>>
    BY <1>2 DEF GetOrder, Visit, Refetch, Analysed, row
  <2>2. /\ \A t \in Slots : t # s => slots'[t] = slots[t]
        /\ \/ slots[s].pc \in {"idle", "listed"} /\ slots'[s].pc \in {"idle", "listed", "order"}
           \/ slots[s].pc = "analyse" /\ slots'[s].pc = "recommend"
    <3>1. CASE GetOrder(s, ok)
      BY <1>0, <3>1 DEF GetOrder, Idle, Slot
    <3>2. CASE Visit(s) \/ Refetch(s)
      BY <1>0, <3>2 DEF Visit, Refetch, Read, Idle
    <3>3. CASE Analysed(s)
      BY <1>0, <3>3 DEF Analysed, Slot
    <3> QED
      BY <1>2, <3>1, <3>2, <3>3
  <2>3. \A t \in Slots : (Running(t)' => Running(t)) /\ (Marking(t) => Marking(t)')
    BY <2>2 DEF Running, Marking
  <2> QED
    BY <1>1, <2>1, <2>3 DEF Settled
<1>3. ASSUME NEW s \in Slots, NEW ok \in BOOLEAN, Check(s, ok) PROVE Alone'
  <2>1. CASE slots[s].needs \/ ~ok
    <3>1. Busy = {s} /\ slots' = [slots EXCEPT ![s] = [slots[s] EXCEPT !.pc = "analyse", !.todo = slots[s].read]]
      BY <1>3, <2>1 DEF Check, Regenerate
    <3>2. slots'[s].pc = "analyse" /\ \A t \in Slots : t # s => slots'[t].pc = "idle"
      BY <1>0, <3>1 DEF Busy, Slot
    <3> QED
      BY <3>2 DEF Alone, Running
  <2>2. CASE ~slots[s].needs /\ ok
    <3>1. alone /\ (Settled => Settled') /\ slots[s].pc = "order" /\ slots' = [slots EXCEPT ![s] = Idle]
      BY <1>3, <2>2 DEF Check, Regenerate, row, Settled
    <3>2. \A t \in Slots : (Running(t)' => Running(t)) /\ (Marking(t) => Marking(t)')
      BY <1>0, <3>1 DEF Idle, Running, Marking
    <3> QED
      BY <1>1, <3>1, <3>2
  <2> QED
    BY <2>1, <2>2
<1>4. ASSUME NEW s \in Slots, NEW p \in Proposals, NEW written \in BOOLEAN, Analyse(s, p, written) PROVE Alone'
  <2>1. alone /\ slots[s].pc = "analyse" /\ \A t \in Slots : slots'[t].pc = slots[t].pc
    BY <1>0, <1>4 DEF Analyse, Noticed, Slot
  <2> QED
    BY <1>1, <2>1 DEF Running, Marking
<1>5. ASSUME NEW s \in Slots, NEW named, NEW written \in BOOLEAN, Recommend(s, named, written) PROVE Alone'
  <2>1. /\ alone /\ slots[s].pc = "recommend" /\ slots' = [slots EXCEPT ![s].pc = "mark"]
        /\ Settled => Settled'
    BY <1>5 DEF Recommend, Settled
  <2>2. \A t \in Slots : (Running(t)' => Running(t)) /\ (Marking(t) => Marking(t)')
    BY <1>0, <2>1 DEF Running, Marking, Slot
  <2> QED
    BY <1>1, <2>1, <2>2
<1>6. ASSUME NEW s \in Slots, NEW written \in BOOLEAN, MarkAIAnalysisUpdated(s, written) PROVE Alone'
  <2>1. alone /\ written /\ slots[s].pc = "mark" /\ Settled' /\ slots' = [slots EXCEPT ![s].pc = "tell"]
    BY <1>6 DEF MarkAIAnalysisUpdated, Settled
  <2>2. \A t \in Slots : Running(t)' => Running(t)
    BY <1>0, <2>1 DEF Running, Slot
  <2> QED
    BY <1>1, <2>1, <2>2
\* Who tells has set the mark: it is alone, and not on its way.
<1>7. ASSUME NEW s \in Slots, Tell(s) PROVE Alone'
  <2>1. /\ alone /\ slots[s].pc = "tell" /\ slots' = [slots EXCEPT ![s] = Idle]
        /\ marked' = marked /\ touched' = touched
    BY <1>7 DEF Tell, row
  <2>2. \A t \in Slots : Running(t)' => Running(t)
    BY <1>0, <2>1 DEF Running, Idle
  <2>3. \A t \in Slots : Marking(t) => Running(t) /\ t # s
    BY <2>1 DEF Running, Marking
  <2>4. Running(s)
    BY <2>1 DEF Running
  <2>5. Settled /\ \A t \in Slots : ~Marking(t)
    BY <1>0, <2>1, <2>3, <2>4
  <2> QED
    BY <1>1, <2>1, <2>2, <2>5 DEF Settled
<1>8. CASE EditRead \/ Done
  <2>1. UNCHANGED <<slots, alone, marked, touched>>
    BY <1>8 DEF EditRead, Done, analysisVars, row
  <2> QED
    BY <1>1, <2>1 DEF Running, Marking, Settled
<1> QED
  BY <1>2, <1>3, <1>4, <1>5, <1>6, <1>7, <1>8
  DEF AnalysisNext, Step, CreateProposal, UpdateProposalStatus, Changed, TouchOrder,
     EditWrite, Restart, RunExpires

-----------------------------------------------------------------------------
\* At first no run is on its way.
LEMMA AnalysisInvInit == AnalysisInit => AnalysisInv
<1> SUFFICES ASSUME AnalysisInit PROVE AnalysisInv
  OBVIOUS
<1>1. slots \in [Slots -> Slot] /\ \A s \in Slots : slots[s].pc = "idle"
  BY DEF AnalysisInit, Idle, Slot
<1>2. edit \in [on : BOOLEAN, best : Proposals \cup {None}] /\ edit.best = None
  BY DEF AnalysisInit, NoEdit
<1>3. AnalysisTypeOK
  BY <1>1, <1>2 DEF AnalysisInit, AnalysisTypeOK
<1>4. BestIsThere /\ Alone /\ ~Settled /\ \A s \in Slots : Knows(s)
  BY <1>1, <1>2 DEF AnalysisInit, BestIsThere, Alone, Settled, Knows
<1> QED
  BY <1>3, <1>4 DEF AnalysisInv

\* Every step keeps the invariant.
LEMMA AnalysisInvKept == AnalysisInv /\ [AnalysisNext]_analysisVars => AnalysisInv'
<1> SUFFICES ASSUME AnalysisInv, [AnalysisNext]_analysisVars PROVE AnalysisInv'
  OBVIOUS
<1>1. CASE AnalysisNext
  <2>1. AnalysisTypeOK' /\ BestIsThere' /\ Alone' /\ \A s \in Slots : Knows(s)'
    BY <1>1, AnalysisTypeKept, BestKept, AloneKept, KnowsKept DEF AnalysisInv
  <2>2. (Settled => \A p \in present : Fine(p))'
    BY <1>1, SettledKept
  <2> QED
    BY <2>1, <2>2 DEF AnalysisInv
<1>2. CASE UNCHANGED analysisVars
  BY <1>2 DEF analysisVars, row, bounds, AnalysisInv, AnalysisTypeOK, BestIsThere, Alone, Knows,
     Running, Settled, Fine
<1> QED
  BY <1>1, <1>2

\* The invariant holds in every reachable state.
LEMMA AnalysisInvAlways == AnalysisSpec => []AnalysisInv
  BY AnalysisInvInit, AnalysisInvKept, PTL DEF AnalysisSpec

\* The rows, the runs and the edit keep their types, whatever runs overlap.
THEOREM AnalysisTypeCorrect == AnalysisSpec => []AnalysisTypeOK
<1>1. AnalysisInv => AnalysisTypeOK
  BY DEF AnalysisInv
<1> QED
  BY <1>1, AnalysisInvAlways, PTL

\* What passes for current is current, for any number of proposals and of
\* runs that overlap with each other and with edits (generateAIAnalysisAsync).
THEOREM CurrentIsCurrent == AnalysisSpec => []AnalysisIsCurrent
<1>1. AnalysisInv => AnalysisIsCurrent
  BY DEF AnalysisInv, BestIsThere, Settled, Fine, AnalysisIsCurrent
<1> QED
  BY <1>1, AnalysisInvAlways, PTL

\* A run that had the order to itself leaves nothing to do for the next list
\* (MarkAIAnalysisUpdated, needsAIRegeneration).
THEOREM AloneLeavesNothing == AnalysisSpec => []AloneSettles
<1>1. AnalysisInv => AloneSettles
  BY DEF AnalysisInv, Alone, Settled, Busy, AloneSettles
<1> QED
  BY <1>1, AnalysisInvAlways, PTL


=============================================================================
