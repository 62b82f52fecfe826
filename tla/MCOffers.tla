------------------------------ MODULE MCOffers ------------------------------
(***************************************************************************)
(* What freelancers offer: AIAnalysis, of their proposals, and Portfolio.  *)
(* They share no variable, and one takes its steps while the other has not *)
(* begun: TLC finds the states of each, and no product of them.            *)
(***************************************************************************)
EXTENDS AIAnalysis, Portfolio

\* Bound: either one photo and any works, or any photos and one work.
FewPhotos == \A p, q \in Photos : posted[p] # "none" /\ posted[q] # "none" => p = q
FewWorks ==
  /\ Len(entries) <= 1 /\ Len(items) <= 1 /\ Len(kept.works) <= 1
  /\ \A p \in Photos : card[p].at <= 1

OffersVars == <<analysisVars, portfolioVars>>

OffersInit == AnalysisInit /\ PortfolioInit

OffersNext ==
  \/ PortfolioInit /\ AnalysisNext /\ UNCHANGED portfolioVars
  \/ AnalysisInit /\ PortfolioNext /\ (FewPhotos \/ FewWorks)' /\ UNCHANGED analysisVars

OffersSpec == OffersInit /\ [][OffersNext]_OffersVars

\* Proposals are alike, and so are photos, saves, and slots.
Symmetry == Permutations(Proposals) \cup Permutations(Slots)

=============================================================================
