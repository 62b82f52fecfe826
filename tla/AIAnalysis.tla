----------------------------- MODULE AIAnalysis -----------------------------
(***************************************************************************)
(* The AI's analysis of the proposals for one order.  When the order's     *)
(* client lists the proposals and the analysis is older than the last      *)
(* change of a proposal or of the order, the server starts a run in the    *)
(* background: a text for each proposal it has just listed, the best of    *)
(* them, and at last the mark "analysed now".  Every run tells the client, *)
(* whose page then lists again.                                            *)
(*                                                                         *)
(* Timestamps are compared with the mark only, so that two flags stand for *)
(* them: marked (the mark is not NULL) and touched (an updated_at, which   *)
(* triggers set on every write, is after the mark).  An analysis is known  *)
(* by the version of the order's text it was made from; that the AI did    *)
(* not answer and a text without it was stored makes no difference here.   *)
(***************************************************************************)
EXTENDS Integers, FiniteSets

CONSTANTS
  Proposals,   \* the proposals there may be
  None,        \* not a proposal: NULL
  Foreign,     \* an id that the AI makes up
  Slots,       \* lists and the runs they start, as many as there are at once
  MaxEdits,    \* bound: edits of the order and other writes of its row
  MaxVisits,   \* bound: lists that no event asks for
  MaxFaults    \* bound: restarts, runs that expire, requests and writes that fail

ASSUME AnalysisAssumption ==
  /\ None \notin Proposals /\ Foreign \notin Proposals \cup {None}
  /\ {MaxEdits, MaxVisits, MaxFaults} \subseteq Nat

VARIABLES
  present,    \* the proposals of the order
  text,       \* the version of its title and description
  marked,     \* orders.ai_analysis_updated_at is not NULL
  touched,    \* a proposal or the order has been written after it
  analysis,   \* per proposal: the version ai_analysis_for_client is about, or 0
  best,       \* orders.best_recommendation_proposal_id
  slots,      \* the client's lists and background runs
  due,        \* proposal.ai_analysis_ready has come, and the page lists again
  edit,       \* the best recommendation that a running UpdateOrder has read
  writes, visits, faults

(***************************************************************************)
(* History variables: the proposals that changed while a run was on its    *)
(* way, or whose write failed, and that no later run has written since;    *)
(* and whether the last run to start has had the order to itself.          *)
(***************************************************************************)
VARIABLES missed, alone

row == <<text, marked, touched, analysis, best>>
bounds == <<writes, visits, faults>>
analysisVars == <<present, row, slots, due, edit, bounds, missed, alone>>

Idle == [pc |-> "idle", read |-> {}, text |-> 0, needs |-> FALSE, todo |-> {},
         expired |-> FALSE, late |-> {}]
NoEdit == [on |-> FALSE, best |-> None]

AnalysisInit ==
  /\ present = {} /\ text = 1
  /\ marked = FALSE /\ touched = FALSE
  /\ analysis = [p \in Proposals |-> 0]
  /\ best = None
  /\ slots = [s \in Slots |-> Idle]
  /\ due = FALSE /\ edit = NoEdit
  /\ writes = 0 /\ visits = 0 /\ faults = 0
  /\ missed = {} /\ alone = FALSE

Running(s) == slots[s].pc \in {"analyse", "recommend", "mark", "tell"}
Busy == {s \in Slots : slots[s].pc # "idle"}

-----------------------------------------------------------------------------
(***************************************************************************)
(* Changes                                                                 *)
(***************************************************************************)

\* ps have changed: whoever listed before does not know.
Changed(ps) ==
  /\ missed' = IF Busy = {} THEN missed ELSE missed \cup ps
  /\ alone' = FALSE
  /\ touched' = TRUE

Late(ps) == [s \in Slots |-> IF slots[s].pc = "idle" THEN slots[s]
                             ELSE [slots[s] EXCEPT !.late = @ \cup ps]]

\* needsAIRegeneration reads the order first and the proposals then: a write
\* of a proposal in between is found to be after the mark.
Noticed(f) == [s \in Slots |-> [f[s] EXCEPT !.needs = @ \/ f[s].pc = "order"]]

CreateProposal(p) ==
  /\ p \notin present
  /\ present' = present \cup {p}
  /\ slots' = Noticed(Late({p}))
  /\ Changed({p})
  /\ UNCHANGED <<text, marked, analysis, best, due, edit, bounds>>

\* UpdateProposalStatus: the analysis says nothing of the status.
UpdateProposalStatus(p) ==
  /\ p \in present /\ writes < MaxEdits
  /\ writes' = writes + 1
  /\ touched' = TRUE /\ alone' = FALSE
  /\ slots' = Noticed(slots)
  /\ UNCHANGED <<present, text, marked, analysis, best, due, edit, visits, faults, missed>>

\* A write of the order's row that leaves its text: UpdateAISummary.
TouchOrder ==
  /\ writes < MaxEdits
  /\ writes' = writes + 1
  /\ touched' = TRUE /\ alone' = FALSE
  /\ UNCHANGED <<present, text, marked, analysis, best, slots, due, edit, visits, faults, missed>>

\* UpdateOrder reads the order and writes the whole row, with the mark and
\* the recommendation it has read; the order is newer than either mark then.
EditRead ==
  /\ ~edit.on /\ writes < MaxEdits
  /\ edit' = [on |-> TRUE, best |-> best]
  /\ writes' = writes + 1
  /\ UNCHANGED <<present, row, slots, due, visits, faults, missed, alone>>

EditWrite ==
  /\ edit.on
  /\ text' = text + 1
  /\ best' = edit.best
  /\ edit' = NoEdit
  /\ slots' = Late(Proposals)
  /\ Changed(Proposals)
  /\ UNCHANGED <<present, marked, analysis, due, writes, visits, faults>>

-----------------------------------------------------------------------------
(***************************************************************************)
(* ListProposals                                                           *)
(***************************************************************************)
Fault == faults < MaxFaults /\ faults' = faults + 1

\* The page is opened or listed again for a reason of its own, or because a
\* run is ready.
Read(s) == slots' = [slots EXCEPT ![s] = [Idle EXCEPT !.pc = "listed", !.read = present]]

Visit(s) ==
  /\ slots[s].pc = "idle" /\ visits < MaxVisits
  /\ visits' = visits + 1
  /\ Read(s)
  /\ UNCHANGED <<present, row, due, edit, writes, faults, missed, alone>>

Refetch(s) ==
  /\ slots[s].pc = "idle" /\ due
  /\ due' = FALSE
  /\ Read(s)
  /\ UNCHANGED <<present, row, edit, bounds, missed, alone>>

\* GetByID, which the run keeps; nothing to analyse without proposals, or
\* when it fails.
GetOrder(s, found) ==
  /\ slots[s].pc = "listed"
  /\ IF found THEN UNCHANGED faults ELSE Fault
  /\ slots' = [slots EXCEPT ![s] =
       IF @.read = {} \/ ~found THEN Idle
       ELSE [@ EXCEPT !.pc = "order", !.text = text, !.needs = ~marked \/ touched]]
  /\ UNCHANGED <<present, row, due, edit, writes, visits, missed, alone>>

\* needsAIRegeneration compares, unless GetProposalsLastUpdateTime fails; a
\* run for these proposals starts, whoever else runs.
Regenerate(s, answered, todo) ==
  LET r == slots[s]
      needs == r.needs \/ ~answered IN
  /\ r.pc = "order"
  /\ IF answered THEN UNCHANGED faults ELSE Fault
  /\ slots' = [slots EXCEPT ![s] = IF needs THEN [r EXCEPT !.pc = "analyse", !.todo = todo] ELSE Idle]
  /\ alone' = IF needs THEN Busy = {s} /\ r.late = {} ELSE alone
  /\ UNCHANGED <<present, row, due, edit, writes, visits, missed>>

\* Mutant of Check: a proposal that has an analysis keeps it.
Check_OnlyNew(s, answered) == Regenerate(s, answered, {p \in slots[s].read : analysis[p] = 0})

Check(s, answered) == Regenerate(s, answered, slots[s].read)

-----------------------------------------------------------------------------
(***************************************************************************)
(* generateAIAnalysisAsync.  Its context ends after five minutes; the AI   *)
(* is not asked then, and nothing is written.  Every error is ignored.     *)
(***************************************************************************)
\* A request or a write of s goes well, or it does not.
Outcome(s, written) ==
  /\ written => ~slots[s].expired
  /\ IF written \/ slots[s].expired THEN UNCHANGED faults ELSE Fault

RunExpires(s) ==
  /\ Running(s) /\ ~slots[s].expired
  /\ Fault
  /\ slots' = [slots EXCEPT ![s].expired = TRUE]
  /\ alone' = FALSE
  /\ UNCHANGED <<present, row, due, edit, writes, visits, missed>>

\* UpdateProposalAIFeedback, whose error is ignored: the proposal's row is
\* written, and so its updated_at.
Analyse(s, p, written) ==
  LET r == slots[s]
      next == [slots EXCEPT ![s].todo = @ \ {p}]
  IN
  /\ r.pc = "analyse" /\ p \in r.todo
  /\ Outcome(s, written)
  /\ analysis' = IF written THEN [analysis EXCEPT ![p] = r.text] ELSE analysis
  /\ touched' = (touched \/ written)
  /\ slots' = IF written THEN Noticed(next) ELSE next
  /\ missed' = IF written /\ p \notin r.late THEN missed \ {p} ELSE missed \cup {p}
  /\ UNCHANGED <<present, text, marked, best, due, edit, writes, visits, alone>>

Analysed(s) ==
  /\ slots[s].pc = "analyse" /\ slots[s].todo = {}
  /\ slots' = [slots EXCEPT ![s].pc = "recommend"]
  /\ UNCHANGED <<present, row, due, edit, bounds, missed, alone>>

\* The proposal that the reply names: one of those listed, or, when none of
\* them is named, the one with most skills, or the first.
BestOf(read, named) == IF named \in read THEN {named} ELSE read

\* RecommendBestProposal and UpdateBestRecommendation, with the mark, for two
\* proposals or more; the AI may fail, and so may the write.
Recommend(s, named, written) ==
  LET r == slots[s] IN
  /\ r.pc = "recommend"
  /\ IF Cardinality(r.read) < 2 THEN ~written /\ UNCHANGED faults ELSE Outcome(s, written)
  /\ IF written
       THEN /\ best' \in BestOf(r.read, named)
            /\ marked' = TRUE /\ touched' = FALSE
       ELSE UNCHANGED <<best, marked, touched>>
  /\ slots' = [slots EXCEPT ![s].pc = "mark"]
  /\ UNCHANGED <<present, text, analysis, due, edit, writes, visits, missed, alone>>

\* Mutant of MarkAIAnalysisUpdated: only a recommendation is marked.
MarkAIAnalysisUpdated_Many(s, written) ==
  /\ slots[s].pc = "mark"
  /\ Outcome(s, written)
  /\ IF written /\ Cardinality(slots[s].read) >= 2
       THEN marked' = TRUE /\ touched' = FALSE
       ELSE UNCHANGED <<marked, touched>>
  /\ alone' = (alone /\ written)
  /\ slots' = [slots EXCEPT ![s].pc = "tell"]
  /\ UNCHANGED <<present, text, analysis, best, due, edit, writes, visits, missed>>

\* One proposal is enough for the mark; the error is ignored.
MarkAIAnalysisUpdated(s, written) ==
  /\ slots[s].pc = "mark"
  /\ Outcome(s, written)
  /\ IF written
       THEN marked' = TRUE /\ touched' = FALSE
       ELSE UNCHANGED <<marked, touched>>
  /\ alone' = (alone /\ written)
  /\ slots' = [slots EXCEPT ![s].pc = "tell"]
  /\ UNCHANGED <<present, text, analysis, best, due, edit, writes, visits, missed>>

\* BroadcastToUser: proposal.ai_analysis_ready; the page's query is stale.
Tell(s) ==
  /\ slots[s].pc = "tell"
  /\ slots' = [slots EXCEPT ![s] = Idle]
  /\ due' = TRUE
  /\ UNCHANGED <<present, row, edit, bounds, missed, alone>>

\* The server restarts: nobody takes up the runs that it had started.
Restart ==
  /\ Busy # {}
  /\ Fault
  /\ slots' = [s \in Slots |-> Idle]
  /\ edit' = NoEdit
  /\ alone' = FALSE
  /\ UNCHANGED <<present, row, due, writes, visits, missed>>

-----------------------------------------------------------------------------
Step(s) ==
  \/ \E ok \in BOOLEAN : GetOrder(s, ok) \/ Check(s, ok)
  \/ \E p \in Proposals, written \in BOOLEAN : Analyse(s, p, written)
  \/ Analysed(s)
  \/ \E named \in Proposals \cup {Foreign}, written \in BOOLEAN : Recommend(s, named, written)
  \/ \E written \in BOOLEAN : MarkAIAnalysisUpdated(s, written)
  \/ Tell(s)

Done ==
  /\ Busy = {} /\ ~due /\ ~edit.on
  /\ UNCHANGED analysisVars

AnalysisNext ==
  \/ \E p \in Proposals : CreateProposal(p) \/ UpdateProposalStatus(p)
  \/ TouchOrder \/ EditRead \/ EditWrite \/ Restart \/ Done
  \/ \E s \in Slots : Visit(s) \/ Refetch(s) \/ Step(s) \/ RunExpires(s)

AnalysisSpec == AnalysisInit /\ [][AnalysisNext]_analysisVars

-----------------------------------------------------------------------------
(***************************************************************************)
(* Properties                                                              *)
(***************************************************************************)

\* When nothing runs and the analysis passes for current, every proposal has
\* one, made from the order's current text: except those that changed while
\* a run was on its way, whose end hides the change from the next list, and
\* those whose write failed.  The recommended proposal is always one of the
\* order's, whatever the AI has named (generateAIAnalysisAsync,
\* needsAIRegeneration, parseBestProposalResponse).
AnalysisIsCurrent ==
  /\ best \in present \cup {None}
  /\ Busy = {} /\ marked /\ ~touched
     => \A p \in present \ missed : analysis[p] = text

\* A run that nobody disturbs, neither by a change nor by another run, leaves
\* the analysis current: the list that its event asks for starts no other,
\* even for a single proposal (MarkAIAnalysisUpdated).
AloneSettles == Busy = {} /\ alone => marked /\ ~touched

=============================================================================
