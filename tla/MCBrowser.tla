------------------------------ MODULE MCBrowser ------------------------------
(***************************************************************************)
(* A browser tab and what the server tells it: EventStream and             *)
(* UnreadBadge.  They share no variable, and one takes its steps while the *)
(* other has not begun: TLC finds the states of each, and no product.      *)
(***************************************************************************)
EXTENDS EventStream, UnreadBadge, TLC

BrowserVars == <<vars, badgeVars>>

BrowserInit == Init /\ BadgeInit

BrowserNext ==
  \/ BadgeInit /\ Next /\ UNCHANGED badgeVars
  \/ Init /\ BadgeNext /\ UNCHANGED vars

BrowserSpec == BrowserInit /\ [][BrowserNext]_BrowserVars

\* Events differ only in their kind; requests are interchangeable.
Symmetry == Permutations(Calls) \cup Permutations(Events \ Calls)

=============================================================================
