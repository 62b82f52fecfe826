------------------------------- MODULE MCChat -------------------------------
(***************************************************************************)
(* Chat for TLC.  Everything there is besides messages is looked at for    *)
(* one message at a time; for two, and the page, only reactions are.       *)
(***************************************************************************)
EXTENDS Chat

CONSTANTS client, freelancer

\* The chat with attachments and receipts as well.
Full == INSTANCE Chat WITH Extras <- {"files", "reactions", "receipts"}

\* There is nothing of either, nor on its way.
Plain ==
  /\ marks = {} /\ \A m \in Messages : ~msg[m].files
  /\ \A u \in Members :
       /\ marking[u] = {} /\ seen[u] = {} /\ job[u].pc \notin {"files", "attach"}
       /\ \A e \in inbox[u] : e[1] = "message"

\* Bound: one message, or a plain chat.  What a plain chat does before the second
\* message, the full one does as well.
ChatNext ==
  \/ Count <= 1 /\ Full!Next /\ Count' <= 1
  \/ Plain /\ Next /\ Count' > 1

ChatSpec == Init /\ [][ChatNext]_vars

=============================================================================
