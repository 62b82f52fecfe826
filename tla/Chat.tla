-------------------------------- MODULE Chat --------------------------------
(***************************************************************************)
(* The chat of an order's client and a freelancer: conversation, messages  *)
(* with attachments, reactions and read receipts on the server, and the    *)
(* window in which each of the two sees them.                              *)
(*                                                                         *)
(* The server answers a request with several statements, and no            *)
(* transaction holds them together.  A window shows what it has fetched;   *)
(* an event makes it fetch again.  That events arrive is the business of   *)
(* EventStream: here they are late, and in any order.                      *)
(***************************************************************************)
EXTENDS Integers, FiniteSets, FiniteSetsExt

CONSTANTS
  Client, Freelancer,
  MaxMessages,   \* bound: messages that are written
  Page,          \* how many messages a window asks for: the newest 50
  Extras,        \* bound: what there is besides messages
  Watching       \* bound: whose window is followed; the other's may show anything

ASSUME ChatAssumption ==
  /\ Client # Freelancer /\ MaxMessages \in Nat \ {0} /\ Page \in Nat \ {0}
  /\ Extras \subseteq {"files", "reactions", "receipts"}
  /\ Watching \subseteq {Client, Freelancer}

VARIABLES
  chats,      \* rows of conversations
  opening,    \* who has found no conversation and will insert one
  msg,        \* messages, in the order of their creation
  reactions, marks,   \* message_reactions and message_reads, by message and member
  job,        \* the request of a member that changes a message
  inbox,      \* events on their way to a member
  data,       \* what a member's cache holds of the chat
  window,     \* the member's window, and its query
  marking,    \* receipts that a window is sending
  seen        \* messages that a window shows as read by the other

\* History variable: members whose cache may have missed something.
VARIABLE missed

vars == <<chats, opening, msg, reactions, marks, job, inbox, data, window, marking, seen, missed>>
rows == <<msg, reactions, marks>>
view == <<data, window, marking, seen>>

Members == {Client, Freelancer}
Messages == 1 .. MaxMessages
Other(u) == IF u = Client THEN Freelancer ELSE Client

NoData == {<<"none">>}
NoJob == [pc |-> "none", m |-> 0]
Closed == [open |-> FALSE, invalid |-> FALSE, fetch |-> "no", ids |-> {}]
Unwritten == [st |-> "none", by |-> Client, files |-> FALSE, sent |-> FALSE]

Init ==
  /\ chats = 0 /\ opening = [u \in Members |-> FALSE]
  /\ msg = [m \in Messages |-> Unwritten] /\ reactions = {} /\ marks = {}
  /\ job = [u \in Members |-> NoJob]
  /\ inbox = [u \in Members |-> {}]
  /\ data = [u \in Members |-> NoData]
  /\ window = [u \in Members |-> Closed]
  /\ marking = [u \in Members |-> {}] /\ seen = [u \in Members |-> {}]
  /\ missed = {}

\* The rows that are there, and what they say.
Stored == {m \in Messages : msg[m].st = "row"}
Facts(M) ==
  {<<"message", m>> : m \in M}
    \cup {<<"files", m>> : m \in {k \in M : msg[k].files}}
    \cup {<<"reaction", r>> : r \in {q \in reactions : q[1] \in M}}

-----------------------------------------------------------------------------
(***************************************************************************)
(* The window                                                              *)
(***************************************************************************)
\* An answered change or an event: an open window fetches again, and drops
\* the answer it waits for, unless it waits for its first.  A closed one
\* will, if nothing that is under way already makes it believe it has.
Refreshed(u) ==
  LET w == window[u]
      waits == w.fetch # "no" /\ (data[u] = NoData \/ ~w.open)
  IN
  CASE waits -> w
    [] ~waits /\ w.open -> [w EXCEPT !.fetch = "asked", !.ids = {}]
    [] OTHER -> [w EXCEPT !.invalid = TRUE]

Invalidate(u) ==
  /\ window' = [window EXCEPT ![u] = Refreshed(u)]
  /\ missed' = IF Refreshed(u) = window[u] /\ window[u].fetch # "no" THEN missed \cup {u}
               ELSE IF window[u].open THEN missed \ {u} ELSE missed

\* A query that is mounted fetches if it has nothing, or nothing valid; what
\* is old it fetches again.
OpenWindow(u, old) ==
  LET w == window[u]
      asks == w.fetch = "no" /\ (data[u] = NoData \/ w.invalid \/ old) IN
  /\ u \in Watching /\ ~w.open /\ chats > 0 /\ ~opening[u]
  /\ window' = [window EXCEPT ![u].open = TRUE,
                              ![u].fetch = IF asks THEN "asked" ELSE @]
  /\ missed' = IF asks THEN missed \ {u} ELSE missed
  /\ UNCHANGED <<chats, opening, rows, job, inbox, data, marking, seen>>

CloseWindow(u) ==
  /\ window[u].open
  /\ window' = [window EXCEPT ![u].open = FALSE]
  /\ seen' = [seen EXCEPT ![u] = {}]
  /\ UNCHANGED <<chats, opening, rows, job, inbox, data, marking, missed>>

\* Mutant of Newest: the oldest.
Newest_Oldest(M) == {m \in M : Cardinality({k \in M : k < m}) < Page}

\* The newest of M: limit 50, offset 0.
Newest(M) == {m \in M : Cardinality({k \in M : k > m}) < Page}

\* ListMessages: the newest messages, then of each its attachments and
\* reactions.  A window never asks for older ones.
ListMessages(u) ==
  /\ window[u].fetch = "asked"
  /\ window' = [window EXCEPT ![u].fetch = "listed", ![u].ids = Newest(Stored)]
  /\ UNCHANGED <<chats, opening, rows, job, inbox, data, marking, seen, missed>>

\* The window marks the last message of the other that it has got.
Latest(u, M) == {m \in M : msg[m].by # u /\ \A k \in M : msg[k].by # u => k <= m}

Fetched(u) ==
  /\ window[u].fetch = "listed"
  /\ data' = [data EXCEPT ![u] = Facts(window[u].ids)]
  /\ window' = [window EXCEPT ![u].fetch = "no", ![u].invalid = FALSE, ![u].ids = {}]
  /\ marking' = IF window[u].open /\ "receipts" \in Extras
                  THEN [marking EXCEPT ![u] = @ \cup (Latest(u, window[u].ids) \X {"http"})]
                  ELSE marking
  /\ UNCHANGED <<chats, opening, rows, job, inbox, seen, missed>>

\* Tried again once, then given up until something asks again.
FetchFails(u) ==
  /\ window[u].fetch # "no"
  /\ window' = [window EXCEPT ![u].fetch = "no", ![u].ids = {}]
  /\ missed' = missed \cup {u}
  /\ UNCHANGED <<chats, opening, rows, job, inbox, data, marking, seen>>

\* Mutant of Receive: a message refreshes the key of another query.
Receive_OtherKey(u) ==
  \E e \in inbox[u] :
    /\ inbox' = [inbox EXCEPT ![u] = @ \ {e}]
    /\ IF e[1] = "read" /\ window[u].open /\ e[3] # u
         THEN seen' = [seen EXCEPT ![u] = @ \cup {e[2]}]
         ELSE UNCHANGED seen
    /\ UNCHANGED <<chats, opening, rows, job, data, window, marking, missed>>

\* Mutant of Receive: it is not looked at who has read.
Receive_AnyReader(u) ==
  \E e \in inbox[u] :
    /\ inbox' = [inbox EXCEPT ![u] = @ \ {e}]
    /\ IF e[1] = "message"
         THEN Invalidate(u) /\ UNCHANGED seen
         ELSE /\ seen' = IF window[u].open THEN [seen EXCEPT ![u] = @ \cup {e[2]}] ELSE seen
              /\ UNCHANGED <<window, missed>>
    /\ UNCHANGED <<chats, opening, rows, job, data, marking>>

\* A message refreshes the chat; a receipt of the other goes to an open
\* window, and the key it refreshes no query has.
Receive(u) ==
  \E e \in inbox[u] :
    /\ inbox' = [inbox EXCEPT ![u] = @ \ {e}]
    /\ IF e[1] = "message"
         THEN Invalidate(u) /\ UNCHANGED seen
         ELSE /\ seen' = IF window[u].open /\ e[3] # u THEN [seen EXCEPT ![u] = @ \cup {e[2]}] ELSE seen
              /\ UNCHANGED <<window, missed>>
    /\ UNCHANGED <<chats, opening, rows, job, data, marking>>

-----------------------------------------------------------------------------
(***************************************************************************)
(* Conversations                                                           *)
(***************************************************************************)
\* GetOrderChat and GetConversation: it is looked for, and if there is none
\* it will be inserted.
LookForChat(u) ==
  /\ chats = 0 /\ ~opening[u]
  /\ opening' = [opening EXCEPT ![u] = TRUE]
  /\ UNCHANGED <<chats, rows, job, inbox, view, missed>>

\* Order, client and freelancer are unique: the second insert fails.
CreateChat(u) ==
  /\ opening[u]
  /\ chats' = IF chats = 0 THEN 1 ELSE chats
  /\ opening' = [opening EXCEPT ![u] = FALSE]
  /\ UNCHANGED <<rows, job, inbox, view, missed>>

-----------------------------------------------------------------------------
(***************************************************************************)
(* Messages                                                                *)
(***************************************************************************)
Step(u, pc) == job' = [job EXCEPT ![u].pc = pc]
Ends(u) == job' = [job EXCEPT ![u] = NoJob]

\* The freelancer may write once, and again when the window shows an answer.
Locked(u) ==
  LET shown == {f[2] : f \in {d \in data[u] \ NoData : d[1] = "message"}} IN
  u = Freelancer /\ \E m \in shown : msg[m].by = u /\ \A k \in shown : msg[k].by = u

SendMessage(u, files) ==
  /\ chats > 0 /\ job[u] = NoJob /\ (files => "files" \in Extras)
  /\ u \in Watching => window[u].open /\ ~Locked(u)
  /\ job' = [job EXCEPT ![u] = [pc |-> IF files THEN "files" ELSE "create", m |-> 0]]
  /\ UNCHANGED <<chats, opening, rows, inbox, view, missed>>

Count == Cardinality({m \in Messages : msg[m].st # "none"})

\* The row, and with it the time of the conversation, by which lists sort.
CreateMessage(u) ==
  LET m == Count + 1 IN
  /\ job[u].pc \in {"create", "files"}
  /\ m \in Messages
  /\ msg' = [msg EXCEPT ![m] = [Unwritten EXCEPT !.st = "row", !.by = u]]
  /\ job' = [job EXCEPT ![u] = [pc |-> IF @.pc = "files" THEN "attach" ELSE "emit", m |-> m]]
  /\ UNCHANGED <<chats, opening, reactions, marks, inbox, view, missed>>

\* The message is still there, or the attachments have nothing to hold on to.
AddAttachments(u) ==
  /\ job[u].pc = "attach"
  /\ IF job[u].m \in Stored
       THEN Step(u, "emit") /\ msg' = [msg EXCEPT ![job[u].m].files = TRUE]
       ELSE Ends(u) /\ UNCHANGED msg
  /\ UNCHANGED <<chats, opening, reactions, marks, inbox, view, missed>>

\* Both hear of it: the event that is lost is not missed by its author, who
\* gets an answer.
Emit(u, told) ==
  /\ job[u].pc = "emit"
  /\ inbox' = [v \in Members |-> IF v \in told \cap Watching THEN inbox[v] \cup {<<"message">>} ELSE inbox[v]]
  /\ missed' = missed \cup (Watching \ told)
  /\ msg' = [msg EXCEPT ![job[u].m].sent = TRUE]
  /\ Step(u, "answer")
  /\ UNCHANGED <<chats, opening, reactions, marks, view>>

\* A statement fails, or the network: what is written stays, nobody hears.
JobFails(u) ==
  /\ job[u] # NoJob
  /\ Ends(u)
  /\ missed' = missed \cup ({u} \cap Watching)
  /\ UNCHANGED <<chats, opening, rows, inbox, view>>

\* The author's own window fetches again.
Answered(u) ==
  /\ job[u].pc = "answer"
  /\ IF u \in Watching THEN Invalidate(u) ELSE UNCHANGED <<window, missed>>
  /\ Ends(u)
  /\ UNCHANGED <<chats, opening, rows, inbox, data, marking, seen>>

IsOwnedBy(m, u) == m \in Stored /\ msg[m].by = u

\* The author's own message; what belongs to it goes with it.  Nobody is told.
\* (UpdateMessage does the same to the text, which is left out.)
DeleteMessage(u, m) ==
  /\ IsOwnedBy(m, u)
  /\ msg' = [msg EXCEPT ![m] = [@ EXCEPT !.st = "gone", !.files = FALSE, !.sent = FALSE]]
  /\ reactions' = {r \in reactions : r[1] # m}
  /\ marks' = {r \in marks : r[1] # m}
  /\ UNCHANGED <<chats, opening, job, inbox, view, missed>>

\* A member reacts to a message that is shown, with one statement, and the
\* window fetches again when it is answered.
React(u, m) ==
  /\ "reactions" \in Extras
  /\ job[u] = NoJob /\ window[u].open /\ <<"message", m>> \in data[u]
  /\ job' = [job EXCEPT ![u] = [pc |-> "answer", m |-> m]]
  /\ UNCHANGED <<chats, opening, msg, marks, inbox, view, missed>>

\* The message is still there.
AddReaction(u, m) ==
  /\ React(u, m) /\ m \in Stored
  /\ reactions' = reactions \cup {<<m, u>>}

\* The member's own.
RemoveReaction(u, m) ==
  /\ React(u, m)
  /\ reactions' = reactions \ {<<m, u>>}

-----------------------------------------------------------------------------
(***************************************************************************)
(* Receipts                                                                *)
(***************************************************************************)
\* What a window that is not followed shows, and marks, one at a time.
Marks(u, m) ==
  /\ "receipts" \in Extras /\ u \notin Watching
  /\ m \in Stored /\ msg[m].by # u /\ marking[u] = {}
  /\ marking' = [marking EXCEPT ![u] = @ \cup {<<m, "http">>}]
  /\ UNCHANGED <<chats, opening, rows, job, inbox, data, window, seen, missed>>

\* MarkConversationRead: over HTTP first, and if that has failed not at all.
MarkRead(u, m, ok) ==
  /\ <<m, "http">> \in marking[u]
  /\ LET marked == ok /\ m \in Stored IN
       /\ marks' = IF marked THEN marks \cup {<<m, u>>} ELSE marks
       /\ marking' = [marking EXCEPT ![u] = (@ \ {<<m, "http">>}) \cup IF marked THEN {<<m, "ws">>} ELSE {}]
  /\ UNCHANGED <<chats, opening, msg, reactions, job, inbox, data, window, seen, missed>>

\* chat.message.read.upsert: marked once more, and both are told.
UpsertRead(u, m, ok) ==
  /\ <<m, "ws">> \in marking[u]
  /\ LET marked == ok /\ m \in Stored IN
       /\ marks' = IF marked THEN marks \cup {<<m, u>>} ELSE marks
       /\ inbox' = [v \in Members |->
                      IF marked /\ v \in Watching THEN inbox[v] \cup {<<"read", m, u>>} ELSE inbox[v]]
  /\ marking' = [marking EXCEPT ![u] = @ \ {<<m, "ws">>}]
  /\ UNCHANGED <<chats, opening, msg, reactions, job, data, window, seen, missed>>

-----------------------------------------------------------------------------
Window(u) ==
  \/ \E old \in BOOLEAN : OpenWindow(u, old)
  \/ CloseWindow(u) \/ ListMessages(u) \/ Fetched(u) \/ FetchFails(u) \/ Receive(u)
  \/ \E m \in Messages : Marks(u, m)
  \/ \E m \in Messages, ok \in BOOLEAN : MarkRead(u, m, ok) \/ UpsertRead(u, m, ok)

Write(u) ==
  \/ \E files \in BOOLEAN : SendMessage(u, files)
  \/ CreateMessage(u) \/ AddAttachments(u)
  \/ \E told \in {{}, {Client}, Members} : Emit(u, told)
  \/ JobFails(u) \/ Answered(u)
  \/ \E m \in Messages : AddReaction(u, m) \/ RemoveReaction(u, m) \/ DeleteMessage(u, m)

Next == \E u \in Members : LookForChat(u) \/ CreateChat(u) \/ Window(u) \/ Write(u)

Spec == Init /\ [][Next]_vars

-----------------------------------------------------------------------------
(***************************************************************************)
(* Properties                                                              *)
(***************************************************************************)

\* Messages that are not yet as far back as a window looks, whichever of the
\* later ones are deleted: a deletion brings an older one to the page, but
\* nobody is told.
Recent == {m \in Stored : m > Count - Page}

\* An open window that is at rest and has missed nothing shows every recent
\* message that was sent, with its attachments, and the member's own reactions
\* to recent messages and no other ones of the member's (SendMessage,
\* EmitToUsers, useSendMessage, useRealtimeSync, getMessages).
AtRest(u) ==
  /\ window[u].open /\ window[u].fetch = "no"
  /\ inbox[u] = {} /\ job[u] = NoJob /\ u \notin missed

Owed(u) ==
  {f \in Facts({m \in Recent : msg[m].sent}) : f[1] \in {"message", "files"}}
    \cup {<<"reaction", r>> : r \in {q \in reactions : q[1] \in Recent /\ q[2] = u}}

ViewSettles ==
  \A u \in Members : AtRest(u) =>
    /\ Owed(u) \subseteq data[u]
    /\ \A f \in data[u] : (f[1] = "reaction" /\ f[2][2] = u /\ f[2][1] \in Stored) => f[2] \in reactions

\* What a window shows as read is recorded as read by the other, as long as
\* the message is there (MarkConversationRead, chat.message.read.upsert).
ReceiptIsKept ==
  \A u \in Members : \A m \in seen[u] \cap Stored : <<m, Other(u)>> \in marks

=============================================================================
