----------------------------- MODULE ChatProofs -----------------------------
(***************************************************************************)
(* The chat for any number of messages and any windows that are followed.  *)
(***************************************************************************)
EXTENDS Chat, FiniteSetTheorems, TLAPS

Events == {<<"message">>} \cup ({"read"} \X Messages \X Members)

Message == [st : {"none", "row", "gone"}, by : Members, files : BOOLEAN, sent : BOOLEAN]
Job == [pc : {"none", "create", "files", "attach", "emit", "answer"}, m : 0 .. MaxMessages]
View == [open : BOOLEAN, invalid : BOOLEAN, fetch : {"no", "asked", "listed"}, ids : SUBSET Messages]

TypeOK ==
  /\ chats \in {0, 1} /\ opening \in [Members -> BOOLEAN]
  /\ msg \in [Messages -> Message]
  /\ reactions \subseteq Messages \X Members /\ marks \subseteq Messages \X Members
  /\ job \in [Members -> Job]
  /\ inbox \in [Members -> SUBSET Events]
  /\ DOMAIN data = Members
  /\ window \in [Members -> View]
  /\ marking \in [Members -> SUBSET (Messages \X {"http", "ws"})]
  /\ seen \in [Members -> SUBSET Messages]
  /\ missed \subseteq Members

\* Messages are numbered in the order of their creation.
Written == {m \in Messages : msg[m].st # "none"}
Numbered == \E n \in 0 .. MaxMessages : Written = 1 .. n

\* A request that has written its message has it for itself, and attaches
\* before it tells.
Busy == {"attach", "emit"}
OwnJobs ==
  /\ \A u \in Members : job[u].pc \in Busy => job[u].m \in Written
  /\ \A u, v \in Members : job[u].pc \in Busy /\ job[v].pc \in Busy /\ job[u].m = job[v].m => u = v
  /\ \A u \in Members : job[u].pc = "attach" /\ job[u].m \in Stored => ~msg[job[u].m].sent

\* Only what is recorded is said, and shown, to be read.
Receipts ==
  \A u \in Members :
    /\ seen[u] \subseteq Written
    /\ \A m \in seen[u] \cap Stored : <<m, Other(u)>> \in marks
    /\ \A m \in Messages, v \in Members : <<"read", m, v>> \in inbox[u] =>
         m \in Written /\ (m \in Stored => <<m, v>> \in marks)

\* What a cache should hold, and does not hold in vain.
UpToDate(u) ==
  /\ Owed(u) \subseteq data[u]
  /\ \A f \in data[u] : f[1] = "reaction" /\ f[2][2] = u =>
       f[2][1] \in Written /\ (f[2][1] \in Stored => f[2] \in reactions)

\* Something will make the window fetch, or it may have missed something.
Due(u) == u \in missed \/ <<"message">> \in inbox[u] \/ job[u].pc = "answer"

\* What is owed to a window of which nothing is due is listed or there, unless
\* it will fetch when it opens.
Covers(u) ==
  LET w == window[u] IN
  /\ w.fetch = "listed" =>
       /\ \A m \in Recent : msg[m].sent => m \in w.ids
       /\ \A r \in reactions : r[2] = u /\ r[1] \in Recent => r[1] \in w.ids
  /\ w.fetch = "no" => (~w.open /\ (w.invalid \/ data[u] = NoData)) \/ UpToDate(u)

Watched ==
  /\ \A u \in Members : window[u].open => u \in Watching
  /\ \A u \in Watching : ~Due(u) => Covers(u)
  /\ \A u \in Members : window[u].ids \subseteq Written
  /\ \A r \in reactions : r[1] \in Stored

IInv == TypeOK /\ Numbered /\ OwnJobs /\ Receipts /\ Watched

-----------------------------------------------------------------------------
\* Of two members each has one other.
LEMMA Other2 == \A u \in Members : Other(u) \in Members /\ Other(u) # u /\ \A v \in Members : v # u => v = Other(u)
  BY ChatAssumption DEF Members, Other

\* The watched windows are members' windows.
LEMMA WatchingMembers == Watching \subseteq Members
  BY ChatAssumption DEF Members

\* What the window does when it is told to fetch again.
LEMMA RefreshedIs ==
  ASSUME TypeOK, NEW u \in Members
  PROVE  LET w == Refreshed(u)
         IN  /\ w \in View /\ w.open = window[u].open /\ w.ids \subseteq window[u].ids
             /\ \/ w = window[u] /\ window[u].fetch # "no"
                \/ w.open /\ w.fetch = "asked"
                \/ ~w.open /\ w.fetch = "no" /\ w.invalid
<1> DEFINE w == window[u]
<1>1. w \in View
  BY DEF TypeOK
<1>2. CASE w.fetch # "no" /\ (data[u] = NoData \/ ~w.open)
  <2>1. Refreshed(u) = w
    BY <1>2 DEF Refreshed
  <2> QED
    BY <1>1, <1>2, <2>1
<1>3. CASE ~(w.fetch # "no" /\ (data[u] = NoData \/ ~w.open)) /\ w.open
  <2>1. Refreshed(u) = [w EXCEPT !.fetch = "asked", !.ids = {}]
    BY <1>3 DEF Refreshed
  <2> QED
    BY <1>1, <1>3, <2>1 DEF View
<1>4. CASE ~w.open /\ w.fetch = "no"
  <2>1. Refreshed(u) = [w EXCEPT !.invalid = TRUE]
    BY <1>4 DEF Refreshed
  <2> QED
    BY <1>1, <1>4, <2>1 DEF View
<1> QED
  BY <1>1, <1>2, <1>3, <1>4 DEF View

\* Invalidation shrinks nothing but one window, and asks for it again.
LEMMA InvalidateTypes ==
  ASSUME TypeOK, NEW u \in Members, Invalidate(u)
  PROVE  /\ window' \in [Members -> View] /\ missed' \subseteq Members
         /\ \A v \in Members : /\ window'[v].open = window[v].open
                               /\ window'[v].ids \subseteq window[v].ids
                               /\ v # u => window'[v] = window[v] /\ (v \in missed <=> v \in missed')
         /\ u \notin missed' => window'[u].fetch = "asked" \/
              (~window'[u].open /\ window'[u].fetch = "no" /\ window'[u].invalid)
<1>1. /\ window' = [window EXCEPT ![u] = Refreshed(u)]
      /\ missed' = IF Refreshed(u) = window[u] /\ window[u].fetch # "no" THEN missed \cup {u}
                   ELSE IF window[u].open THEN missed \ {u} ELSE missed
  BY DEF Invalidate
<1>2. window \in [Members -> View] /\ missed \subseteq Members
  BY DEF TypeOK
<1> QED
  BY <1>1, <1>2, RefreshedIs

\* A page holds only what it is chosen from.
LEMMA NewestOf == \A M : Newest(M) \subseteq M
  BY DEF Newest

\* Messages are finitely many, and so are those that are written.
LEMMA Counted ==
  /\ IsFiniteSet(Messages) /\ Count = Cardinality(Written) /\ Count \in Nat /\ Count' \in Nat
  /\ Written \subseteq Written' => Count <= Count'
<1>1. IsFiniteSet(Messages)
  BY FS_Interval, ChatAssumption DEF Messages
<1>2. Count = Cardinality(Written) /\ Count' = Cardinality(Written')
  BY DEF Count, Written
<1>3. Written \subseteq Messages /\ Written' \subseteq Messages
  BY DEF Written
<1>4. IsFiniteSet(Written) /\ IsFiniteSet(Written')
  BY <1>1, <1>3, FS_Subset
<1>5. Count \in Nat /\ Count' \in Nat
  BY <1>2, <1>4, FS_CardinalityType
<1>6. Written \subseteq Written' => Cardinality(Written) <= Cardinality(Written')
  BY <1>4, FS_Subset
<1> QED
  BY <1>1, <1>2, <1>5, <1>6

\* As more are written, no old message becomes a recent one.
LEMMA RecentShrinks ==
  ASSUME Written \subseteq Written'
  PROVE  /\ \A m \in Stored : m \in Recent' => m \in Recent
         /\ Recent \subseteq Stored /\ Recent' \subseteq Stored'
<1>1. Count \in Nat /\ Count' \in Nat /\ Count <= Count' /\ Page \in Nat
  BY Counted, ChatAssumption
<1>2. \A m \in Stored : m \in Int
  BY DEF Stored, Messages
<1> QED
  BY <1>1, <1>2 DEF Recent

\* What is recent is on the newest page: fewer than a page were written since.
LEMMA RecentIsNewest ==
  ASSUME Numbered
  PROVE  Recent \subseteq Newest(Stored)
<1>1. PICK n \in 0 .. MaxMessages : Written = 1 .. n
  BY DEF Numbered
<1>2. n \in Nat /\ Count = n /\ Page \in Nat
  BY <1>1, FS_Interval, Counted, ChatAssumption
<1>3. SUFFICES ASSUME NEW m \in Recent PROVE m \in Newest(Stored)
  OBVIOUS
<1>4. m \in Stored /\ m \in 1 .. n /\ m > n - Page
  BY <1>1, <1>2 DEF Recent, Stored, Written
<1>5. {k \in Stored : k > m} \subseteq (m + 1) .. n
  BY <1>1, <1>4 DEF Stored, Written
<1>6. IsFiniteSet((m + 1) .. n) /\ Cardinality((m + 1) .. n) <= n - m /\ Cardinality((m + 1) .. n) \in Nat
  <2>1. m + 1 \in Int /\ n \in Int /\ m <= n
    BY <1>2, <1>4
  <2>2. IsFiniteSet((m + 1) .. n) /\ Cardinality((m + 1) .. n) = (IF m + 1 > n THEN 0 ELSE n - (m + 1) + 1)
    BY <2>1, FS_Interval
  <2> QED
    BY <1>2, <1>4, <2>1, <2>2
<1>7. Cardinality({k \in Stored : k > m}) <= Cardinality((m + 1) .. n)
      /\ Cardinality({k \in Stored : k > m}) \in Nat
  BY <1>5, <1>6, FS_Subset, FS_CardinalityType
<1>8. Cardinality({k \in Stored : k > m}) < Page
  BY <1>2, <1>4, <1>6, <1>7
<1> QED
  BY <1>4, <1>8 DEF Newest

\* Every variable keeps to its type.
LEMMA TypeOfWindows ==
  ASSUME TypeOK, NEW u \in Members, Window(u)
  PROVE  TypeOK'
<1>v. window \in [Members -> View] /\ window[u] \in View
  BY DEF TypeOK
<1>w. ASSUME NEW x \in View, window' = [window EXCEPT ![u] = x]
      PROVE  window' \in [Members -> View]
  BY <1>v, <1>w
<1>1. ASSUME NEW old \in BOOLEAN, OpenWindow(u, old) PROVE TypeOK'
  <2>1. PICK f \in {window[u].fetch, "asked"} :
          window' = [window EXCEPT ![u] = [window[u] EXCEPT !.open = TRUE, !.fetch = f]]
    BY <1>1, <1>v DEF OpenWindow
  <2>2. [window[u] EXCEPT !.open = TRUE, !.fetch = f] \in View
    BY <1>v DEF View
  <2>3. window' \in [Members -> View] /\ missed' \subseteq Members
    BY <1>1, <1>w, <2>1, <2>2 DEF OpenWindow, TypeOK
  <2> QED
    BY <1>1, <2>3 DEF TypeOK, OpenWindow, rows
<1>2. CASE CloseWindow(u)
  <2>1. [window[u] EXCEPT !.open = FALSE] \in View
    BY <1>v DEF View
  <2>2. window' \in [Members -> View]
    BY <1>2, <1>v, <1>w, <2>1 DEF CloseWindow
  <2>3. seen' \in [Members -> SUBSET Messages]
    BY <1>2 DEF CloseWindow, TypeOK
  <2> QED
    BY <1>2, <2>2, <2>3 DEF TypeOK, CloseWindow, rows
<1>3. CASE ListMessages(u)
  <2>1. Newest(Stored) \subseteq Messages
    BY NewestOf DEF Stored
  <2>2. [window[u] EXCEPT !.fetch = "listed", !.ids = Newest(Stored)] \in View
    BY <1>v, <2>1 DEF View
  <2>3. window' = [window EXCEPT ![u] = [window[u] EXCEPT !.fetch = "listed", !.ids = Newest(Stored)]]
    BY <1>3, <1>v DEF ListMessages
  <2>4. window' \in [Members -> View]
    BY <1>w, <2>2, <2>3
  <2> QED
    BY <1>3, <2>4 DEF TypeOK, ListMessages, rows
<1>4. CASE Fetched(u)
  <2>1. Latest(u, window[u].ids) \X {"http"} \subseteq Messages \X {"http", "ws"}
    <3>1. window[u].ids \subseteq Messages
      BY <1>v DEF View
    <3>2. Latest(u, window[u].ids) \subseteq Messages
      BY <3>1 DEF Latest
    <3> QED
      BY <3>2
  <2>2. marking' \in [Members -> SUBSET (Messages \X {"http", "ws"})]
    BY <1>4, <2>1 DEF Fetched, TypeOK
  <2> DEFINE x == [window[u] EXCEPT !.fetch = "no", !.invalid = FALSE, !.ids = {}]
  <2>x. x \in View
    BY <1>v DEF View
  <2>y. window' = [window EXCEPT ![u] = x]
    BY <1>4, <1>v DEF Fetched
  <2>3. window' \in [Members -> View]
    BY <1>w, <2>x, <2>y
  <2> QED
    BY <1>4, <2>2, <2>3 DEF TypeOK, Fetched, rows
<1>5. CASE FetchFails(u)
  <2> DEFINE x == [window[u] EXCEPT !.fetch = "no", !.ids = {}]
  <2>x. x \in View
    BY <1>v DEF View
  <2>y. window' = [window EXCEPT ![u] = x]
    BY <1>5, <1>v DEF FetchFails
  <2>1. window' \in [Members -> View] /\ missed' \subseteq Members
    BY <1>5, <1>w, <2>x, <2>y DEF FetchFails, TypeOK
  <2> QED
    BY <1>5, <2>1 DEF TypeOK, FetchFails, rows
<1>6. CASE Receive(u)
  <2>1. PICK e \in inbox[u] :
          /\ inbox' = [inbox EXCEPT ![u] = @ \ {e}]
          /\ IF e[1] = "message"
               THEN Invalidate(u) /\ UNCHANGED seen
               ELSE /\ seen' = IF window[u].open /\ e[3] # u THEN [seen EXCEPT ![u] = @ \cup {e[2]}] ELSE seen
                    /\ UNCHANGED <<window, missed>>
          /\ UNCHANGED <<chats, opening, rows, job, data, marking>>
    BY <1>6 DEF Receive
  <2>2. e \in Events /\ inbox' \in [Members -> SUBSET Events]
    BY <2>1 DEF TypeOK
  <2>3. CASE e[1] = "message"
    <3>1. window' \in [Members -> View] /\ missed' \subseteq Members
      BY <2>1, <2>3, InvalidateTypes
    <3> QED
      BY <2>1, <2>2, <2>3, <3>1 DEF TypeOK, rows
  <2>4. CASE e[1] # "message"
    <3>1. e[2] \in Messages
      BY <2>2, <2>4 DEF Events
    <3>2. seen' \in [Members -> SUBSET Messages]
      BY <2>1, <2>4, <3>1 DEF TypeOK
    <3> QED
      BY <2>1, <2>2, <2>4, <3>2 DEF TypeOK, rows
  <2> QED
    BY <2>3, <2>4
<1>7. ASSUME NEW m \in Messages, Marks(u, m) PROVE TypeOK'
  <2>1. marking' \in [Members -> SUBSET (Messages \X {"http", "ws"})]
    BY <1>7 DEF TypeOK, Marks
  <2> QED
    BY <1>7, <2>1 DEF TypeOK, Marks, rows
<1>8. ASSUME NEW m \in Messages, NEW ok \in BOOLEAN, MarkRead(u, m, ok) PROVE TypeOK'
  <2>1. marking' \in [Members -> SUBSET (Messages \X {"http", "ws"})] /\ marks' \subseteq Messages \X Members
    BY <1>8 DEF TypeOK, MarkRead
  <2> QED
    BY <1>8, <2>1 DEF TypeOK, MarkRead
<1>9. ASSUME NEW m \in Messages, NEW ok \in BOOLEAN, UpsertRead(u, m, ok) PROVE TypeOK'
  <2>1. marking' \in [Members -> SUBSET (Messages \X {"http", "ws"})] /\ marks' \subseteq Messages \X Members
    BY <1>9 DEF TypeOK, UpsertRead
  <2>2. <<"read", m, u>> \in Events
    BY DEF Events
  <2>3. inbox' \in [Members -> SUBSET Events]
    BY <1>9, <2>2 DEF TypeOK, UpsertRead
  <2> QED
    BY <1>9, <2>1, <2>3 DEF TypeOK, UpsertRead
<1> QED
  BY <1>1, <1>2, <1>3, <1>4, <1>5, <1>6, <1>7, <1>8, <1>9 DEF Window

\* The server's steps keep the types.
LEMMA TypeOfWrites ==
  ASSUME TypeOK, OwnJobs, NEW u \in Members, LookForChat(u) \/ CreateChat(u) \/ Write(u)
  PROVE  TypeOK'
<1>j. ASSUME NEW x \in Job, job' = [job EXCEPT ![u] = x]
      PROVE  job' \in [Members -> Job]
  BY <1>j DEF TypeOK
<1>m. ASSUME NEW x \in Message, NEW m \in Messages, msg' = [msg EXCEPT ![m] = x]
      PROVE  msg' \in [Messages -> Message]
  BY <1>m DEF TypeOK
<1>n. NoJob \in Job /\ job[u] \in Job /\ job \in [Members -> Job]
  BY ChatAssumption DEF NoJob, Job, TypeOK
<1>e. Ends(u) => job' \in [Members -> Job]
  BY <1>j, <1>n DEF Ends
<1>1. CASE LookForChat(u)
  <2>1. opening' \in [Members -> BOOLEAN]
    BY <1>1 DEF LookForChat, TypeOK
  <2> QED
    BY <1>1, <2>1 DEF LookForChat, TypeOK, rows, view
<1>2. CASE CreateChat(u)
  <2>1. opening' \in [Members -> BOOLEAN] /\ chats' \in {0, 1}
    BY <1>2 DEF CreateChat, TypeOK
  <2> QED
    BY <1>2, <2>1 DEF CreateChat, TypeOK, rows, view
<1>3. ASSUME NEW files \in BOOLEAN, SendMessage(u, files) PROVE TypeOK'
  <2>1. [pc |-> IF files THEN "files" ELSE "create", m |-> 0] \in Job
    BY ChatAssumption DEF Job
  <2>2. job' \in [Members -> Job]
    BY <1>3, <1>j, <2>1 DEF SendMessage
  <2> QED
    BY <1>3, <2>2 DEF SendMessage, TypeOK, rows, view
<1>4. CASE CreateMessage(u)
  <2> DEFINE m == Count + 1
  <2>1. /\ m \in Messages
        /\ msg' = [msg EXCEPT ![m] = [Unwritten EXCEPT !.st = "row", !.by = u]]
        /\ job' = [job EXCEPT ![u] = [pc |-> IF job[u].pc = "files" THEN "attach" ELSE "emit", m |-> m]]
    BY <1>4, <1>n DEF CreateMessage
  <2>2. [Unwritten EXCEPT !.st = "row", !.by = u] \in Message
    BY DEF Message, Unwritten
  <2>3. msg' \in [Messages -> Message]
    <3> HIDE DEF m
    <3> QED
      BY <1>m, <2>1, <2>2
  <2>4. [pc |-> IF job[u].pc = "files" THEN "attach" ELSE "emit", m |-> m] \in Job
    <3> HIDE DEF m
    <3> QED
      BY <2>1, ChatAssumption DEF Job, Messages
  <2>5. job' \in [Members -> Job]
    BY <1>j, <2>1, <2>4
  <2> QED
    BY <1>4, <2>3, <2>5 DEF CreateMessage, TypeOK, view
<1>5. CASE AddAttachments(u)
  <2>1. CASE job[u].m \in Stored
    <3>1. job[u].m \in Messages /\ msg[job[u].m] \in Message
      BY <2>1 DEF Stored, TypeOK
    <3>2. [job[u] EXCEPT !.pc = "emit"] \in Job /\ [msg[job[u].m] EXCEPT !.files = TRUE] \in Message
      BY <1>n, <3>1 DEF Job, Message
    <3>3. /\ job' = [job EXCEPT ![u] = [job[u] EXCEPT !.pc = "emit"]]
          /\ msg' = [msg EXCEPT ![job[u].m] = [msg[job[u].m] EXCEPT !.files = TRUE]]
      BY <1>5, <1>n, <2>1 DEF AddAttachments, Step
    <3>4. job' \in [Members -> Job] /\ msg' \in [Messages -> Message]
      BY <1>j, <1>m, <3>1, <3>2, <3>3
    <3> QED
      BY <1>5, <3>4 DEF AddAttachments, TypeOK, view
  <2>2. CASE job[u].m \notin Stored
    BY <1>5, <1>e, <2>2 DEF AddAttachments, TypeOK, view
  <2> QED
    BY <2>1, <2>2
<1>6. ASSUME NEW told \in {{}, {Client}, Members}, Emit(u, told) PROVE TypeOK'
  <2>0. job[u].m \in Messages /\ msg[job[u].m] \in Message
    BY <1>6 DEF Emit, OwnJobs, Busy, Written, TypeOK
  <2>1. [job[u] EXCEPT !.pc = "answer"] \in Job /\ [msg[job[u].m] EXCEPT !.sent = TRUE] \in Message
    BY <1>n, <2>0 DEF Job, Message
  <2>2. /\ job' = [job EXCEPT ![u] = [job[u] EXCEPT !.pc = "answer"]]
        /\ msg' = [msg EXCEPT ![job[u].m] = [msg[job[u].m] EXCEPT !.sent = TRUE]]
    BY <1>6, <1>n DEF Emit, Step
  <2>3. job' \in [Members -> Job] /\ msg' \in [Messages -> Message]
    BY <1>j, <1>m, <2>0, <2>1, <2>2
  <2>4. inbox' \in [Members -> SUBSET Events] /\ missed' \subseteq Members
    BY <1>6, ChatAssumption DEF Emit, TypeOK, Events, Members
  <2> QED
    BY <1>6, <2>3, <2>4 DEF Emit, TypeOK, view
<1>7. CASE JobFails(u)
  BY <1>7, <1>e DEF JobFails, TypeOK, rows, view
<1>8. CASE Answered(u)
  <2>1. window' \in [Members -> View] /\ missed' \subseteq Members
    BY <1>8, InvalidateTypes DEF Answered, TypeOK
  <2> QED
    BY <1>8, <1>e, <2>1 DEF Answered, TypeOK, rows
<1>9. ASSUME NEW m \in Messages, AddReaction(u, m) \/ RemoveReaction(u, m) PROVE TypeOK'
  <2>1. [pc |-> "answer", m |-> m] \in Job
    BY ChatAssumption DEF Job, Messages
  <2>2. job' \in [Members -> Job] /\ reactions' \subseteq Messages \X Members
    BY <1>9, <1>j, <2>1 DEF AddReaction, RemoveReaction, React, TypeOK
  <2> QED
    BY <1>9, <2>2 DEF AddReaction, RemoveReaction, React, TypeOK, view
<1>10. ASSUME NEW m \in Messages, DeleteMessage(u, m) PROVE TypeOK'
  <2> DEFINE x == [msg[m] EXCEPT !.st = "gone", !.files = FALSE, !.sent = FALSE]
  <2>0. msg[m] \in Message
    BY DEF TypeOK
  <2>1. x \in Message
    BY <2>0 DEF Message
  <2>2. msg' \in [Messages -> Message]
    BY <1>10, <1>m, <2>1 DEF DeleteMessage
  <2> QED
    BY <1>10, <2>2 DEF DeleteMessage, TypeOK, view
<1> QED
  BY <1>1, <1>2, <1>3, <1>4, <1>5, <1>6, <1>7, <1>8, <1>9, <1>10 DEF Write

-----------------------------------------------------------------------------
\* What the requests that change messages do to them.
LEMMA Created ==
  ASSUME TypeOK, Numbered, NEW u \in Members, CreateMessage(u)
  PROVE  \E n \in Messages :
           /\ n \notin Written /\ Written' = Written \cup {n} /\ Stored' = Stored \cup {n}
           /\ ~msg'[n].sent /\ \A k \in Messages : k # n => msg'[k] = msg[k]
           /\ job' = [job EXCEPT ![u] = [pc |-> IF job[u].pc = "files" THEN "attach" ELSE "emit", m |-> n]]
           /\ Numbered'
<1> DEFINE n == Count + 1
<1>1. PICK c \in 0 .. MaxMessages : Written = 1 .. c
  BY DEF Numbered
<1>2. Cardinality(1 .. c) = c
  BY <1>1, FS_Interval, ChatAssumption
<1>3. n = c + 1 /\ n \in Messages
  BY <1>1, <1>2, Counted DEF CreateMessage
<1>4. /\ msg' = [msg EXCEPT ![n] = [Unwritten EXCEPT !.st = "row", !.by = u]]
      /\ job' = [job EXCEPT ![u] = [pc |-> IF job[u].pc = "files" THEN "attach" ELSE "emit", m |-> n]]
  BY DEF CreateMessage, TypeOK
<1> HIDE DEF n
<1>5. /\ msg'[n] = [Unwritten EXCEPT !.st = "row", !.by = u]
      /\ \A k \in Messages : k # n => msg'[k] = msg[k]
  BY <1>3, <1>4 DEF TypeOK
<1>6. msg'[n].st = "row" /\ ~msg'[n].sent
  BY <1>5 DEF Unwritten
<1>7. n \notin Written
  BY <1>1, <1>3 DEF Messages
<1>8. Written' = Written \cup {n} /\ Stored' = Stored \cup {n}
  BY <1>3, <1>5, <1>6 DEF Written, Stored
<1>9. Written' = 1 .. (c + 1) /\ c + 1 \in 0 .. MaxMessages
  BY <1>1, <1>3, <1>8, ChatAssumption DEF Messages
<1>10. Numbered'
  BY <1>9 DEF Numbered
<1> QED
  BY <1>3, <1>4, <1>5, <1>6, <1>7, <1>8, <1>10

\* A message that has no attachments yet, and was not told, gets them.
LEMMA Attached ==
  ASSUME TypeOK, OwnJobs, NEW u \in Members, AddAttachments(u)
  PROVE  /\ Written' = Written /\ Stored' = Stored
         /\ \A k \in Messages : /\ msg'[k].sent = msg[k].sent
                                /\ msg'[k].files => msg[k].files \/ (k \in Stored => ~msg[k].sent)
         /\ \A v \in Members : v # u => job'[v] = job[v]
         /\ \/ job'[u] = [pc |-> "emit", m |-> job[u].m] /\ job[u].m \in Written
            \/ job'[u] = NoJob
<1>1. job \in [Members -> Job] /\ job[u] \in Job
  BY DEF TypeOK
<1>2. CASE job[u].m \in Stored
  <2> DEFINE m == job[u].m
  <2>1. /\ job' = [job EXCEPT ![u] = [job[u] EXCEPT !.pc = "emit"]]
        /\ msg' = [msg EXCEPT ![m] = [msg[m] EXCEPT !.files = TRUE]]
    BY <1>1, <1>2 DEF AddAttachments, Step, TypeOK
  <2>2. m \in Messages /\ msg[m] \in Message /\ msg[m].st = "row" /\ ~msg[m].sent
    BY <1>2 DEF Stored, TypeOK, OwnJobs, AddAttachments
  <2>3. [job[u] EXCEPT !.pc = "emit"] = [pc |-> "emit", m |-> m]
    BY <1>1 DEF Job
  <2> HIDE DEF m
  <2>4. msg'[m] = [msg[m] EXCEPT !.files = TRUE] /\ \A k \in Messages : k # m => msg'[k] = msg[k]
    BY <2>1, <2>2 DEF TypeOK
  <2>5. msg'[m].st = msg[m].st /\ msg'[m].sent = msg[m].sent
    BY <2>2, <2>4 DEF Message
  <2>6. Written' = Written /\ Stored' = Stored
    BY <2>4, <2>5 DEF Written, Stored
  <2>7. job'[u] = [pc |-> "emit", m |-> m] /\ \A v \in Members : v # u => job'[v] = job[v]
    BY <1>1, <2>1, <2>3
  <2>8. m \in Written
    BY <2>2 DEF Written
  <2> QED
    BY <2>2, <2>4, <2>5, <2>6, <2>7, <2>8 DEF m
<1>3. CASE job[u].m \notin Stored
  BY <1>1, <1>3 DEF AddAttachments, Ends, Written, Stored
<1> QED
  BY <1>2, <1>3

\* Broadcasting stores and removes no message.
LEMMA Emitted ==
  ASSUME TypeOK, OwnJobs, NEW u \in Members, NEW told \in SUBSET Members, Emit(u, told)
  PROVE  /\ Written' = Written /\ Stored' = Stored
         /\ job[u].m \in Written
         /\ \A k \in Messages : k # job[u].m => msg'[k] = msg[k]
         /\ \A v \in Members : v # u => job'[v] = job[v]
         /\ job'[u].pc = "answer"
<1>1. job \in [Members -> Job] /\ job[u] \in Job
  BY DEF TypeOK
<1> DEFINE m == job[u].m
<1>2. /\ job' = [job EXCEPT ![u] = [job[u] EXCEPT !.pc = "answer"]]
      /\ msg' = [msg EXCEPT ![m] = [msg[m] EXCEPT !.sent = TRUE]]
  BY <1>1 DEF Emit, Step, TypeOK
<1>3. m \in Written
  BY DEF Emit, OwnJobs, Busy
<1>4. m \in Messages /\ msg[m] \in Message
  BY <1>3 DEF Written, TypeOK
<1>5. job'[u].pc = "answer" /\ \A v \in Members : v # u => job'[v] = job[v]
  BY <1>1, <1>2 DEF Job
<1> HIDE DEF m
<1>6. msg'[m] = [msg[m] EXCEPT !.sent = TRUE] /\ \A k \in Messages : k # m => msg'[k] = msg[k]
  BY <1>2, <1>4 DEF TypeOK
<1>7. msg'[m].st = msg[m].st
  BY <1>4, <1>6 DEF Message
<1>8. Written' = Written /\ Stored' = Stored
  BY <1>6, <1>7 DEF Written, Stored
<1> QED
  BY <1>3, <1>5, <1>6, <1>8 DEF m

\* Deleting removes one message for good.
LEMMA Deleted ==
  ASSUME TypeOK, NEW u \in Members, NEW m \in Messages, DeleteMessage(u, m)
  PROVE  /\ m \in Stored /\ Written' = Written /\ Stored' = Stored \ {m}
         /\ \A k \in Messages : k # m => msg'[k] = msg[k]
<1>1. m \in Stored /\ msg' = [msg EXCEPT ![m] = [msg[m] EXCEPT !.st = "gone", !.files = FALSE, !.sent = FALSE]]
  BY DEF DeleteMessage, IsOwnedBy, TypeOK
<1>2. msg'[m].st = "gone" /\ \A k \in Messages : k # m => msg'[k] = msg[k]
  BY <1>1 DEF TypeOK, Message
<1>3. Written' = Written /\ Stored' = Stored \ {m}
  BY <1>1, <1>2 DEF Written, Stored
<1> QED
  BY <1>1, <1>2, <1>3

-----------------------------------------------------------------------------
\* What each part of the invariant stands, whoever does it.
LEMMA JobsStand ==
  ASSUME OwnJobs, TypeOK, NEW u \in Members,
         \A v \in Members : v # u => job'[v] = job[v],
         job'[u] = job[u] \/ job'[u].pc \notin Busy,
         Written \subseteq Written',
         \A k \in Stored' : k \in Stored /\ msg'[k].sent = msg[k].sent
  PROVE  OwnJobs'
<1>1. \A v \in Members : job'[v].pc \in Busy => job'[v] = job[v]
  OBVIOUS
<1>2. "attach" \in Busy
  BY DEF Busy
<1>3. \A v \in Members : job'[v].pc \in Busy => job'[v].m \in Written'
  BY <1>1 DEF OwnJobs
<1>4. \A v, w \in Members : job'[v].pc \in Busy /\ job'[w].pc \in Busy /\ job'[v].m = job'[w].m => v = w
  BY <1>1 DEF OwnJobs
<1>5. \A v \in Members : job'[v].pc = "attach" /\ job'[v].m \in Stored' => ~msg'[job'[v].m].sent
  BY <1>1, <1>2 DEF OwnJobs
<1>6. Busy' = Busy
  BY DEF Busy
<1> QED
  BY <1>3, <1>4, <1>5, <1>6 DEF OwnJobs

\* A step that shows no more receipts and loses no mark keeps them true.
LEMMA ReceiptsStand ==
  ASSUME Receipts,
         \A v \in Members : seen'[v] \subseteq seen[v],
         \A v, w \in Members, m \in Messages : <<"read", m, w>> \in inbox'[v] => <<"read", m, w>> \in inbox[v],
         Written \subseteq Written',
         Written \cap Stored' \subseteq Stored,
         \A m \in Stored', v \in Members : <<m, v>> \in marks => <<m, v>> \in marks'
  PROVE  Receipts'
<1> SUFFICES ASSUME NEW u \in Members
             PROVE  /\ seen'[u] \subseteq Written'
                    /\ \A m \in seen'[u] \cap Stored' : <<m, Other(u)>> \in marks'
                    /\ \A m \in Messages, v \in Members : <<"read", m, v>> \in inbox'[u] =>
                         m \in Written' /\ (m \in Stored' => <<m, v>> \in marks')
  BY DEF Receipts, Other
<1>1. seen'[u] \subseteq Written'
  BY DEF Receipts
<1>2. \A m \in seen'[u] \cap Stored' : <<m, Other(u)>> \in marks'
  BY Other2 DEF Receipts
<1>3. \A m \in Messages, v \in Members : <<"read", m, v>> \in inbox'[u] =>
        m \in Written' /\ (m \in Stored' => <<m, v>> \in marks')
  BY DEF Receipts
<1> QED
  BY <1>1, <1>2, <1>3

\* What is owed to a member, said of its parts.
OwedOf(u, f) ==
  \/ \E m \in Recent : msg[m].sent /\ f = <<"message", m>>
  \/ \E m \in Recent : msg[m].sent /\ msg[m].files /\ f = <<"files", m>>
  \/ \E r \in reactions : r[1] \in Recent /\ r[2] = u /\ f = <<"reaction", r>>

\* What a window is owed, fact by fact.
LEMMA OwedIs ==
  ASSUME NEW u \in Members, NEW f
  PROVE  (f \in Owed(u) <=> OwedOf(u, f)) /\ (f \in Owed(u)' <=> OwedOf(u, f)')
<1>1. f \in Owed(u) <=> OwedOf(u, f)
  BY DEF Owed, OwedOf, Facts
<1>2. f \in Owed(u)' <=> OwedOf(u, f)'
  BY DEF Owed, OwedOf, Facts
<1> QED
  BY <1>1, <1>2

\* No more is owed than before, and what is not owed any more is nobody's.
LessOwed(u) ==
  /\ \A m \in Recent' : msg'[m].sent => m \in Recent /\ msg[m].sent /\ (msg'[m].files => msg[m].files)
  /\ \A r \in reactions' : r[2] = u /\ r[1] \in Recent' => r \in reactions /\ r[1] \in Recent
  /\ \A r \in reactions : r[2] = u /\ r[1] \in Stored' => r \in reactions'
  /\ Written \subseteq Written' /\ Written \cap Stored' \subseteq Stored

\* A window at rest covers what it is owed as long as that does not grow.
LEMMA CoversStands ==
  ASSUME NEW u \in Members, LessOwed(u), Covers(u), data'[u] = data[u], window'[u] = window[u],
         reactions \subseteq Messages \X Members
  PROVE  Covers(u)'
<1>1. \A f : OwedOf(u, f)' => OwedOf(u, f)
  BY DEF OwedOf, LessOwed
<1>2. Owed(u)' \subseteq Owed(u)
  BY <1>1, OwedIs
<1>3. ASSUME UpToDate(u) PROVE UpToDate(u)'
  <2>1. Owed(u)' \subseteq data'[u]
    BY <1>2, <1>3 DEF UpToDate
  <2>2. ASSUME NEW f \in data'[u], f[1] = "reaction", f[2][2] = u
        PROVE  f[2][1] \in Written' /\ (f[2][1] \in Stored' => f[2] \in reactions')
    <3>1. f[2][1] \in Written /\ (f[2][1] \in Stored => f[2] \in reactions)
      BY <1>3, <2>2 DEF UpToDate
    <3> QED
      BY <2>2, <3>1 DEF LessOwed
  <2> QED
    BY <2>1, <2>2 DEF UpToDate
<1>4. window[u].fetch = "listed" =>
        /\ \A m \in Recent' : msg'[m].sent => m \in window[u].ids
        /\ \A r \in reactions' : r[2] = u /\ r[1] \in Recent' => r[1] \in window[u].ids
  BY DEF Covers, LessOwed
<1> QED
  BY <1>3, <1>4 DEF Covers, NoData

-----------------------------------------------------------------------------
\* The steps that leave the messages alone.
LEMMA SameRows ==
  ASSUME msg' = msg
  PROVE  Written' = Written /\ Stored' = Stored /\ Recent' = Recent
  BY DEF Written, Stored, Recent, Count

\* The windows' own steps write no message.
LEMMA WindowsOnly ==
  ASSUME NEW u \in Members, Window(u) \/ LookForChat(u) \/ CreateChat(u)
  PROVE  msg' = msg /\ reactions' = reactions /\ job' = job
  BY DEF Window, OpenWindow, CloseWindow, ListMessages, Fetched, FetchFails, Receive, Marks, MarkRead,
         UpsertRead, LookForChat, CreateChat, rows

Serves(u) ==
  \/ \E files \in BOOLEAN : SendMessage(u, files)
  \/ JobFails(u) \/ Answered(u)
  \/ \E m \in Messages : AddReaction(u, m) \/ RemoveReaction(u, m)

\* The requests that only look change no message and no window.
LEMMA ServesOnly ==
  ASSUME TypeOK, NEW u \in Members, Serves(u)
  PROVE  /\ msg' = msg /\ marks' = marks /\ seen' = seen /\ inbox' = inbox
         /\ \A v \in Members : v # u => job'[v] = job[v]
         /\ job'[u].pc \notin Busy
<1>1. CASE \E files \in BOOLEAN : SendMessage(u, files)
  BY <1>1 DEF SendMessage, rows, view, TypeOK, Busy
<1>2. CASE JobFails(u) \/ Answered(u)
  BY <1>2 DEF JobFails, Answered, Ends, NoJob, rows, view, TypeOK, Busy
<1>3. CASE \E m \in Messages : AddReaction(u, m) \/ RemoveReaction(u, m)
  BY <1>3 DEF AddReaction, RemoveReaction, React, view, TypeOK, Busy
<1> QED
  BY <1>1, <1>2, <1>3 DEF Serves

\* The kinds of a request's steps.
LEMMA WriteIs ==
  ASSUME NEW u \in Members, Write(u)
  PROVE  \/ Serves(u) \/ CreateMessage(u) \/ AddAttachments(u)
         \/ \E told \in SUBSET Members : Emit(u, told)
         \/ \E m \in Messages : DeleteMessage(u, m)
<1>1. {{}, {Client}, Members} \subseteq SUBSET Members
  BY DEF Members
<1> QED
  BY <1>1 DEF Write, Serves

Acts(u) == LookForChat(u) \/ CreateChat(u) \/ Window(u) \/ Write(u)

-----------------------------------------------------------------------------
\* Messages are numbered in the order they are written.
LEMMA NumberedKept ==
  ASSUME IInv, NEW u \in Members, Acts(u)
  PROVE  Numbered'
<1>0. TypeOK /\ Numbered /\ OwnJobs
  BY DEF IInv
<1>1. ASSUME Written' = Written PROVE Numbered'
  BY <1>0, <1>1 DEF Numbered
<1>2. CASE Window(u) \/ LookForChat(u) \/ CreateChat(u)
  BY <1>1, <1>2, WindowsOnly, SameRows
<1>3. CASE Serves(u)
  BY <1>0, <1>1, <1>3, ServesOnly, SameRows
<1>4. CASE CreateMessage(u)
  BY <1>0, <1>4, Created
<1>5. CASE AddAttachments(u)
  BY <1>0, <1>1, <1>5, Attached
<1>6. CASE \E told \in SUBSET Members : Emit(u, told)
  BY <1>0, <1>1, <1>6, Emitted
<1>7. CASE \E m \in Messages : DeleteMessage(u, m)
  BY <1>0, <1>1, <1>7, Deleted
<1> QED
  BY <1>2, <1>3, <1>4, <1>5, <1>6, <1>7, WriteIs DEF Acts

\* Each request writes its own message.
LEMMA OwnJobsKept ==
  ASSUME IInv, NEW u \in Members, Acts(u)
  PROVE  OwnJobs'
<1>0. TypeOK /\ Numbered /\ OwnJobs /\ job \in [Members -> Job] /\ Written \subseteq Messages
  BY DEF IInv, TypeOK, Written
<1>b. Busy = {"attach", "emit"} /\ Busy' = Busy
  BY DEF Busy
<1>2. CASE Window(u) \/ LookForChat(u) \/ CreateChat(u)
  <2>1. msg' = msg /\ job' = job /\ Written' = Written /\ Stored' = Stored
    BY <1>2, WindowsOnly, SameRows
  <2> QED
    BY <1>0, <2>1, JobsStand
<1>3. CASE Serves(u)
  <2>1. msg' = msg /\ Written' = Written /\ Stored' = Stored
    BY <1>0, <1>3, ServesOnly, SameRows
  <2> QED
    BY <1>0, <1>3, <2>1, ServesOnly, JobsStand
<1>4. CASE CreateMessage(u)
  <2>1. PICK n \in Messages :
           /\ n \notin Written /\ Written' = Written \cup {n} /\ Stored' = Stored \cup {n}
           /\ ~msg'[n].sent /\ \A k \in Messages : k # n => msg'[k] = msg[k]
           /\ job' = [job EXCEPT ![u] = [pc |-> IF job[u].pc = "files" THEN "attach" ELSE "emit", m |-> n]]
    BY <1>0, <1>4, Created
  <2>2. job'[u].m = n /\ job'[u].pc \in Busy /\ \A v \in Members : v # u => job'[v] = job[v]
    BY <1>0, <1>b, <2>1
  <2>3. \A v \in Members : v # u /\ job'[v].pc \in Busy => job'[v].m \in Written /\ job'[v].m # n
    BY <1>0, <2>1, <2>2 DEF OwnJobs
  <2>4. \A v \in Members : job'[v].pc \in Busy => job'[v].m \in Written'
    BY <2>1, <2>2, <2>3
  <2>5. \A v, w \in Members : job'[v].pc \in Busy /\ job'[w].pc \in Busy /\ job'[v].m = job'[w].m => v = w
    BY <1>0, <2>2, <2>3 DEF OwnJobs
  <2>6. ASSUME NEW v \in Members, job'[v].pc = "attach", job'[v].m \in Stored' PROVE ~msg'[job'[v].m].sent
    <3>1. CASE v = u
      BY <2>1, <2>2, <3>1
    <3>2. CASE v # u
      BY <1>0, <1>b, <2>1, <2>2, <2>3, <2>6, <3>2 DEF OwnJobs
    <3> QED
      BY <3>1, <3>2
  <2> QED
    BY <1>b, <2>4, <2>5, <2>6 DEF OwnJobs
<1>5. CASE AddAttachments(u)
  <2>1. /\ Written' = Written /\ Stored' = Stored
        /\ \A k \in Messages : msg'[k].sent = msg[k].sent
        /\ \A v \in Members : v # u => job'[v] = job[v]
        /\ job'[u] = [pc |-> "emit", m |-> job[u].m] \/ job'[u] = NoJob
    BY <1>0, <1>5, Attached
  <2>2. Stored \subseteq Messages /\ job[u].pc = "attach"
    BY <1>5 DEF Stored, AddAttachments
  <2>3. CASE job'[u] = NoJob
    <3>1. job'[u].pc \notin Busy
      BY <1>b, <2>3 DEF NoJob
    <3> QED
      BY <1>0, <2>1, <2>2, <3>1, JobsStand
  <2>4. CASE job'[u] = [pc |-> "emit", m |-> job[u].m]
    <3>1. \A v \in Members : job'[v].m = job[v].m /\ (job'[v].pc \in Busy => job[v].pc \in Busy)
                             /\ (job'[v].pc = "attach" => job[v].pc = "attach")
      BY <1>b, <2>1, <2>2, <2>4
    <3>2. \A v \in Members : job'[v].pc = "attach" /\ job'[v].m \in Stored' => ~msg'[job'[v].m].sent
      BY <1>0, <2>1, <2>2, <3>1 DEF OwnJobs
    <3>3. \A v \in Members : job'[v].pc \in Busy => job'[v].m \in Written'
      BY <1>0, <2>1, <3>1 DEF OwnJobs
    <3>4. \A v, w \in Members : job'[v].pc \in Busy /\ job'[w].pc \in Busy /\ job'[v].m = job'[w].m => v = w
      BY <1>0, <3>1 DEF OwnJobs
    <3> QED
      BY <1>b, <3>2, <3>3, <3>4 DEF OwnJobs
  <2> QED
    BY <2>1, <2>3, <2>4
<1>6. ASSUME NEW told \in SUBSET Members, Emit(u, told) PROVE OwnJobs'
  <2>1. /\ Written' = Written /\ Stored' = Stored
        /\ \A k \in Messages : k # job[u].m => msg'[k] = msg[k]
        /\ \A v \in Members : v # u => job'[v] = job[v]
        /\ job'[u].pc = "answer"
    BY <1>0, <1>6, Emitted
  <2>2. job[u].pc \in Busy
    BY <1>6 DEF Emit, Busy
  <2>3. \A v \in Members : job'[v].pc \in Busy => v # u /\ job'[v] = job[v] /\ job[v].m # job[u].m
    BY <1>0, <1>b, <2>1, <2>2 DEF OwnJobs
  <2>4. \A v \in Members : job'[v].pc = "attach" /\ job'[v].m \in Stored' => ~msg'[job'[v].m].sent
    <3>1. Stored \subseteq Messages
      BY DEF Stored
    <3> QED
      BY <1>0, <1>b, <2>1, <2>3, <3>1 DEF OwnJobs
  <2>5. \A v \in Members : job'[v].pc \in Busy => job'[v].m \in Written'
    BY <1>0, <2>1, <2>3 DEF OwnJobs
  <2>6. \A v, w \in Members : job'[v].pc \in Busy /\ job'[w].pc \in Busy /\ job'[v].m = job'[w].m => v = w
    BY <1>0, <2>3 DEF OwnJobs
  <2> QED
    BY <1>b, <2>4, <2>5, <2>6 DEF OwnJobs
<1>7. ASSUME NEW m \in Messages, DeleteMessage(u, m) PROVE OwnJobs'
  <2>1. /\ Written' = Written /\ Stored' = Stored \ {m}
        /\ \A k \in Messages : k # m => msg'[k] = msg[k]
    BY <1>0, <1>7, Deleted
  <2>2. job' = job /\ Stored \subseteq Messages
    BY <1>7 DEF DeleteMessage, Stored
  <2> QED
    BY <1>0, <2>1, <2>2, JobsStand
<1> QED
  BY <1>2, <1>3, <1>4, <1>5, <1>6, <1>7, WriteIs DEF Acts

\* A shown receipt stays recorded.
LEMMA ReceiptsKept ==
  ASSUME IInv, NEW u \in Members, Acts(u)
  PROVE  Receipts'
<1>0. TypeOK /\ Numbered /\ OwnJobs /\ Receipts
  BY DEF IInv
<1>1. ASSUME Written' = Written, Stored' = Stored, marks \subseteq marks',
             \A v \in Members : seen'[v] \subseteq seen[v],
             \A v, w \in Members, m \in Messages : <<"read", m, w>> \in inbox'[v] => <<"read", m, w>> \in inbox[v]
      PROVE  Receipts'
  BY <1>0, <1>1, ReceiptsStand
<1>2. CASE LookForChat(u) \/ CreateChat(u)
  <2>1. marks' = marks /\ seen' = seen /\ inbox' = inbox
    BY <1>2 DEF LookForChat, CreateChat, rows, view
  <2> QED
    BY <1>1, <1>2, <2>1, WindowsOnly, SameRows
<1>3. CASE Window(u)
  <2>0. Written' = Written /\ Stored' = Stored
    BY <1>3, WindowsOnly, SameRows
  <2>1. CASE \/ \E old \in BOOLEAN : OpenWindow(u, old)
             \/ ListMessages(u) \/ Fetched(u) \/ FetchFails(u) \/ \E m \in Messages : Marks(u, m)
    <3>1. marks' = marks /\ seen' = seen /\ inbox' = inbox
      BY <2>1 DEF OpenWindow, ListMessages, Fetched, FetchFails, Marks, rows
    <3> QED
      BY <1>1, <2>0, <3>1
  <2>2. CASE CloseWindow(u)
    <3>1. marks' = marks /\ inbox' = inbox /\ \A v \in Members : seen'[v] \subseteq seen[v]
      BY <1>0, <2>2 DEF CloseWindow, rows, TypeOK
    <3> QED
      BY <1>1, <2>0, <3>1
  <2>3. CASE Receive(u)
    <3>1. PICK e \in inbox[u] :
            /\ inbox' = [inbox EXCEPT ![u] = @ \ {e}]
            /\ IF e[1] = "message"
                 THEN Invalidate(u) /\ UNCHANGED seen
                 ELSE /\ seen' = IF window[u].open /\ e[3] # u THEN [seen EXCEPT ![u] = @ \cup {e[2]}] ELSE seen
                      /\ UNCHANGED <<window, missed>>
            /\ UNCHANGED <<chats, opening, rows, job, data, marking>>
      BY <2>3 DEF Receive
    <3>2. marks' = marks /\ \A v \in Members : inbox'[v] \subseteq inbox[v]
      BY <1>0, <3>1 DEF rows, TypeOK
    <3>3. CASE seen' = seen
      BY <1>1, <2>0, <3>2, <3>3
    <3>4. CASE seen' # seen
      <4>1. e[1] # "message" /\ e[3] # u /\ seen' = [seen EXCEPT ![u] = @ \cup {e[2]}]
        BY <3>1, <3>4
      <4>2. PICK m \in Messages, v \in Members : e = <<"read", m, v>>
        BY <1>0, <4>1 DEF TypeOK, Events
      <4>3. v = Other(u) /\ m \in Written /\ (m \in Stored => <<m, v>> \in marks)
        BY <1>0, <4>1, <4>2, Other2 DEF Receipts
      <4>4. seen'[u] = seen[u] \cup {m} /\ \A w \in Members : w # u => seen'[w] = seen[w]
        BY <1>0, <4>1, <4>2 DEF TypeOK
      <4>5. \A w \in Members : seen'[w] \subseteq Written'
        BY <1>0, <2>0, <4>3, <4>4 DEF Receipts
      <4>6. \A w \in Members : \A k \in seen'[w] \cap Stored' : <<k, Other(w)>> \in marks'
        BY <1>0, <2>0, <3>2, <4>3, <4>4 DEF Receipts
      <4>7. \A w \in Members : \A k \in Messages, x \in Members : <<"read", k, x>> \in inbox'[w] =>
              k \in Written' /\ (k \in Stored' => <<k, x>> \in marks')
        BY <1>0, <2>0, <3>2 DEF Receipts
      <4>8. \A w \in Members : Other(w)' = Other(w)
        BY DEF Other
      <4> QED
        BY <4>5, <4>6, <4>7, <4>8 DEF Receipts
    <3> QED
      BY <3>3, <3>4
  <2>4. ASSUME NEW m \in Messages, NEW ok \in BOOLEAN, MarkRead(u, m, ok) PROVE Receipts'
    <3>1. marks \subseteq marks' /\ seen' = seen /\ inbox' = inbox
      BY <2>4 DEF MarkRead
    <3> QED
      BY <1>1, <2>0, <3>1
  <2>5. ASSUME NEW m \in Messages, NEW ok \in BOOLEAN, UpsertRead(u, m, ok) PROVE Receipts'
    <3>1. /\ marks' = IF ok /\ m \in Stored THEN marks \cup {<<m, u>>} ELSE marks
          /\ seen' = seen
          /\ inbox' = [v \in Members |->
               IF ok /\ m \in Stored /\ v \in Watching THEN inbox[v] \cup {<<"read", m, u>>} ELSE inbox[v]]
      BY <2>5 DEF UpsertRead
    <3>2. Stored \subseteq Written
      BY DEF Stored, Written
    <3>3. \A w \in Members : seen'[w] \subseteq Written'
      BY <1>0, <2>0, <3>1 DEF Receipts
    <3>4. \A w \in Members : \A k \in seen'[w] \cap Stored' : <<k, Other(w)>> \in marks'
      BY <1>0, <2>0, <3>1 DEF Receipts
    <3>5. ASSUME NEW w \in Members, NEW k \in Messages, NEW x \in Members, <<"read", k, x>> \in inbox'[w]
          PROVE  k \in Written' /\ (k \in Stored' => <<k, x>> \in marks')
      <4>1. CASE <<"read", k, x>> \in inbox[w]
        BY <1>0, <2>0, <3>1, <4>1 DEF Receipts
      <4>2. CASE <<"read", k, x>> \notin inbox[w]
        <5>1. ok /\ m \in Stored /\ <<"read", k, x>> = <<"read", m, u>>
          BY <3>1, <3>5, <4>2
        <5>2. k = m /\ x = u
          BY <5>1
        <5> QED
          BY <2>0, <3>1, <3>2, <5>1, <5>2
      <4> QED
        BY <4>1, <4>2
    <3>6. \A w \in Members : Other(w)' = Other(w)
      BY DEF Other
    <3> QED
      BY <3>3, <3>4, <3>5, <3>6 DEF Receipts
  <2> QED
    BY <1>3, <2>1, <2>2, <2>3, <2>4, <2>5 DEF Window
<1>4. CASE Serves(u)
  BY <1>0, <1>1, <1>4, ServesOnly, SameRows
<1>5. CASE CreateMessage(u)
  <2>1. PICK n \in Messages :
          n \notin Written /\ Written' = Written \cup {n} /\ Stored' = Stored \cup {n}
    BY <1>0, <1>5, Created
  <2>2. marks' = marks /\ seen' = seen /\ inbox' = inbox
    BY <1>5 DEF CreateMessage, view
  <2> QED
    BY <1>0, <2>1, <2>2, ReceiptsStand
<1>6. CASE AddAttachments(u)
  <2>1. marks' = marks /\ seen' = seen /\ inbox' = inbox
    BY <1>6 DEF AddAttachments, view
  <2> QED
    BY <1>0, <1>1, <1>6, <2>1, Attached
<1>7. ASSUME NEW told \in SUBSET Members, Emit(u, told) PROVE Receipts'
  <2>1. marks' = marks /\ seen' = seen
    BY <1>7 DEF Emit, view
  <2>2. \A v, w \in Members, m \in Messages : <<"read", m, w>> \in inbox'[v] => <<"read", m, w>> \in inbox[v]
    BY <1>7 DEF Emit
  <2> QED
    BY <1>0, <1>1, <1>7, <2>1, <2>2, Emitted
<1>8. ASSUME NEW m \in Messages, DeleteMessage(u, m) PROVE Receipts'
  <2>1. Written' = Written /\ Stored' = Stored \ {m}
    BY <1>0, <1>8, Deleted
  <2>2. marks' = {r \in marks : r[1] # m} /\ seen' = seen /\ inbox' = inbox
    BY <1>8 DEF DeleteMessage, view
  <2> QED
    BY <1>0, <2>1, <2>2, ReceiptsStand
<1> QED
  BY <1>2, <1>3, <1>4, <1>5, <1>6, <1>7, <1>8, WriteIs DEF Acts

-----------------------------------------------------------------------------
\* What was once written stays written.
LEMMA WrittenGrows ==
  ASSUME IInv, NEW u \in Members, Acts(u)
  PROVE  Written \subseteq Written'
<1>0. TypeOK /\ Numbered /\ OwnJobs
  BY DEF IInv
<1> QED
  BY <1>0, WindowsOnly, ServesOnly, SameRows, Created, Attached, Emitted, Deleted, WriteIs DEF Acts

\* Only a window that is followed opens, and it lists what is written.
LEMMA WindowsKept ==
  ASSUME IInv, NEW u \in Members, Acts(u)
  PROVE  /\ \A v \in Members : window'[v].open => v \in Watching
         /\ \A v \in Members : window'[v].ids \subseteq Written'
<1>0. TypeOK /\ Watched /\ window \in [Members -> View] /\ window[u] \in View
  BY DEF IInv, TypeOK
<1>1. Written \subseteq Written'
  BY WrittenGrows
<1>2. ASSUME \A v \in Members : /\ window'[v].open => window[v].open \/ v \in Watching
                                /\ window'[v].ids \subseteq Written
      PROVE  /\ \A v \in Members : window'[v].open => v \in Watching
             /\ \A v \in Members : window'[v].ids \subseteq Written'
  BY <1>0, <1>1, <1>2 DEF Watched
<1>3. ASSUME window' = window
      PROVE  /\ \A v \in Members : window'[v].open => v \in Watching
             /\ \A v \in Members : window'[v].ids \subseteq Written'
  BY <1>0, <1>2, <1>3 DEF Watched
<1>4. ASSUME Invalidate(u)
      PROVE  /\ \A v \in Members : window'[v].open => v \in Watching
             /\ \A v \in Members : window'[v].ids \subseteq Written'
  BY <1>0, <1>2, <1>4, InvalidateTypes DEF Watched
<1>5. CASE LookForChat(u) \/ CreateChat(u) \/ Write(u)
  <2>1. window' = window \/ Invalidate(u)
    BY <1>5 DEF LookForChat, CreateChat, Write, SendMessage, CreateMessage, AddAttachments, Emit, JobFails,
         Answered, AddReaction, RemoveReaction, React, DeleteMessage, view
  <2> QED
    BY <1>3, <1>4, <2>1
<1>6. CASE Window(u)
  <2>1. ASSUME NEW old \in BOOLEAN, OpenWindow(u, old)
        PROVE  \A v \in Members : /\ window'[v].open => window[v].open \/ v \in Watching
                                  /\ window'[v].ids \subseteq Written
    BY <1>0, <2>1 DEF OpenWindow, Watched, View
  <2>2. CASE CloseWindow(u)
    <3>1. \A v \in Members : (window'[v].open => window[v].open) /\ window'[v].ids = window[v].ids
      BY <1>0, <2>2 DEF CloseWindow, View
    <3> QED
      BY <1>0, <1>2, <3>1 DEF Watched
  <2>3. CASE ListMessages(u)
    <3>1. Stored \subseteq Written
      BY DEF Stored, Written
    <3>2. \A v \in Members : window'[v].open = window[v].open /\ window'[v].ids \in {window[v].ids, Stored}
      BY <1>0, <2>3 DEF ListMessages, View
    <3> QED
      BY <1>0, <1>2, <3>1, <3>2 DEF Watched
  <2>4. CASE Fetched(u) \/ FetchFails(u)
    <3>1. \A v \in Members : window'[v].open = window[v].open /\ window'[v].ids \in {window[v].ids, {}}
      BY <1>0, <2>4 DEF Fetched, FetchFails, View
    <3> QED
      BY <1>0, <1>2, <3>1 DEF Watched
  <2>5. CASE \/ Receive(u) \/ \E m \in Messages : Marks(u, m)
             \/ \E m \in Messages, ok \in BOOLEAN : MarkRead(u, m, ok) \/ UpsertRead(u, m, ok)
    <3>1. window' = window \/ Invalidate(u)
      BY <2>5 DEF Receive, Marks, MarkRead, UpsertRead
    <3> QED
      BY <1>3, <1>4, <3>1
  <2> QED
    BY <1>2, <1>6, <2>1, <2>2, <2>3, <2>4, <2>5 DEF Window
<1> QED
  BY <1>5, <1>6 DEF Acts

\* A reaction is on a message that is there.
LEMMA ReactionsKept ==
  ASSUME IInv, NEW u \in Members, Acts(u)
  PROVE  \A r \in reactions' : r[1] \in Stored'
<1>0. TypeOK /\ Numbered /\ OwnJobs /\ \A r \in reactions : r[1] \in Stored
  BY DEF IInv, Watched
<1>1. CASE Window(u) \/ LookForChat(u) \/ CreateChat(u)
  BY <1>0, <1>1, WindowsOnly, SameRows
<1>2. CASE Serves(u)
  <2>1. Stored' = Stored
    BY <1>0, <1>2, ServesOnly, SameRows
  <2>2. reactions' \subseteq reactions \/ \E m \in Stored : reactions' = reactions \cup {<<m, u>>}
    BY <1>2 DEF Serves, SendMessage, JobFails, Answered, AddReaction, RemoveReaction, rows
  <2> QED
    BY <1>0, <2>1, <2>2
<1>3. CASE CreateMessage(u)
  <2>1. Stored \subseteq Stored'
    BY <1>0, <1>3, Created
  <2> QED
    BY <1>0, <1>3, <2>1 DEF CreateMessage
<1>4. CASE AddAttachments(u)
  BY <1>0, <1>4, Attached DEF AddAttachments
<1>5. CASE \E told \in SUBSET Members : Emit(u, told)
  BY <1>0, <1>5, Emitted DEF Emit
<1>6. ASSUME NEW m \in Messages, DeleteMessage(u, m) PROVE \A r \in reactions' : r[1] \in Stored'
  BY <1>0, <1>6, Deleted DEF DeleteMessage
<1> QED
  BY <1>1, <1>2, <1>3, <1>4, <1>5, <1>6, WriteIs DEF Acts

-----------------------------------------------------------------------------
\* A member of whom nothing changes keeps what is owed.
LEMMA CoveredStands ==
  ASSUME IInv, NEW v \in Watching, LessOwed(v), data'[v] = data[v], window'[v] = window[v],
         Due(v) => Due(v)'
  PROVE  ~Due(v)' => Covers(v)'
<1>1. v \in Members /\ reactions \subseteq Messages \X Members /\ (~Due(v) => Covers(v))
  BY WatchingMembers DEF IInv, TypeOK, Watched
<1> QED
  BY <1>1, CoversStands

\* A step that writes no message and no reaction of v's owes v nothing new.
LEMMA SameOwed ==
  ASSUME NEW v \in Members, msg' = msg, \A r : r[2] = v => (r \in reactions <=> r \in reactions')
  PROVE  LessOwed(v)
  BY SameRows DEF LessOwed

\* An invalidated window fetches, or will when it opens.
LEMMA InvalidatedCovers ==
  ASSUME TypeOK, NEW u \in Members, Invalidate(u), u \notin missed'
  PROVE  Covers(u)'
  BY InvalidateTypes DEF Covers

\* The listing holds what is owed, and nothing of the member's own that is not
\* there.
LEMMA FetchedIsUpToDate ==
  ASSUME IInv, NEW u \in Watching, Fetched(u), ~Due(u)
  PROVE  UpToDate(u)'
<1>0. TypeOK /\ Watched /\ u \in Members
  BY WatchingMembers DEF IInv
<1>1. /\ msg' = msg /\ reactions' = reactions /\ Written' = Written /\ Stored' = Stored
      /\ Recent' = Recent
  BY SameRows DEF Fetched, rows
<1> DEFINE ids == window[u].ids
<1>2. data'[u] = Facts(ids)
  BY <1>0 DEF Fetched, TypeOK
<1>3. /\ \A m \in Recent : msg[m].sent => m \in ids
      /\ \A r \in reactions : r[2] = u /\ r[1] \in Recent => r[1] \in ids
      /\ ids \subseteq Written
  BY <1>0 DEF Fetched, Watched, Covers
<1> HIDE DEF ids
<1>4. ASSUME NEW f, OwedOf(u, f)' PROVE f \in Facts(ids)
  <2>1. CASE \E m \in Recent : msg[m].sent /\ f = <<"message", m>>
    BY <1>3, <2>1 DEF Facts
  <2>2. CASE \E m \in Recent : msg[m].sent /\ msg[m].files /\ f = <<"files", m>>
    BY <1>3, <2>2 DEF Facts
  <2>3. CASE \E r \in reactions : r[1] \in Recent /\ r[2] = u /\ f = <<"reaction", r>>
    BY <1>3, <2>3 DEF Facts
  <2> QED
    BY <1>1, <1>4, <2>1, <2>2, <2>3 DEF OwedOf
<1>5. ASSUME NEW f \in Facts(ids), f[1] = "reaction"
      PROVE  f[2] \in reactions /\ f[2][1] \in Written
  <2>1. \E r \in {q \in reactions : q[1] \in ids} : f = <<"reaction", r>>
    BY <1>5 DEF Facts
  <2> QED
    BY <1>3, <2>1
<1>6. Owed(u)' \subseteq data'[u]
  BY <1>0, <1>2, <1>4, OwedIs
<1> QED
  BY <1>1, <1>2, <1>5, <1>6 DEF UpToDate

\* The windows' own steps leave each covered, or an event due.
LEMMA CoversOfWindows ==
  ASSUME IInv, NEW u \in Members, Window(u), NEW v \in Watching
  PROVE  ~Due(v)' => Covers(v)'
<1>0. TypeOK /\ Watched /\ v \in Members /\ window \in [Members -> View]
  BY WatchingMembers DEF IInv, TypeOK
<1>1. LessOwed(v) /\ job' = job
  BY <1>0, WindowsOnly, SameOwed
<1>2. ASSUME data'[v] = data[v], window'[v] = window[v], v \in missed => v \in missed',
             <<"message">> \in inbox[v] => <<"message">> \in inbox'[v]
      PROVE  ~Due(v)' => Covers(v)'
  <2>1. Due(v) => Due(v)'
    BY <1>1, <1>2 DEF Due
  <2> QED
    BY <1>1, <1>2, <2>1, CoveredStands
<1>3. ASSUME NEW old \in BOOLEAN, OpenWindow(u, old) PROVE ~Due(v)' => Covers(v)'
  <2> DEFINE asks == window[u].fetch = "no" /\ (data[u] = NoData \/ window[u].invalid \/ old)
  <2>1. /\ inbox' = inbox /\ data' = data
        /\ window' = [window EXCEPT ![u].open = TRUE, ![u].fetch = IF asks THEN "asked" ELSE @]
        /\ missed' = IF asks THEN missed \ {u} ELSE missed
    BY <1>3 DEF OpenWindow
  <2>2. CASE v # u
    <3>1. window'[v] = window[v] /\ (v \in missed => v \in missed')
      BY <1>0, <2>1, <2>2
    <3> QED
      BY <1>2, <2>1, <3>1
  <2>3. CASE v = u /\ asks
    <3>1. window'[v].fetch = "asked"
      BY <1>0, <2>1, <2>3 DEF View
    <3> QED
      BY <3>1 DEF Covers
  <2>4. CASE v = u /\ ~asks
    <3>1. window'[v].fetch = window[v].fetch /\ window'[v].ids = window[v].ids
      BY <1>0, <2>1, <2>4 DEF View
    <3>2. Due(v)' <=> Due(v)
      BY <1>1, <2>1, <2>4 DEF Due
    <3>3. CASE Due(v)
      BY <3>2, <3>3
    <3>4. CASE ~Due(v)
      <4>1. Covers(v)
        BY <1>0, <3>4 DEF Watched
      <4>2. msg' = msg /\ reactions' = reactions /\ Written' = Written /\ Stored' = Stored /\ Recent' = Recent
        BY WindowsOnly, SameRows
      <4>3. window[v].fetch = "no" => UpToDate(v)
        BY <2>4, <4>1 DEF Covers
      <4>4. UpToDate(v) => UpToDate(v)'
        BY <2>1, <4>2 DEF UpToDate, Owed, Facts
      <4> QED
        BY <3>1, <4>1, <4>2, <4>3, <4>4 DEF Covers
    <3> QED
      BY <3>3, <3>4
  <2> QED
    BY <2>2, <2>3, <2>4
<1>4. CASE CloseWindow(u)
  <2>1. /\ inbox' = inbox /\ data' = data /\ missed' = missed
        /\ window[u].open /\ window' = [window EXCEPT ![u].open = FALSE]
    BY <1>4 DEF CloseWindow
  <2>2. CASE v # u
    BY <1>2, <2>1, <2>2
  <2>3. CASE v = u
    <3>1. window'[v].fetch = window[v].fetch /\ window'[v].ids = window[v].ids
      BY <1>0, <2>1, <2>3 DEF View
    <3>2. Due(v)' <=> Due(v)
      BY <1>1, <2>1, <2>3 DEF Due
    <3>3. CASE Due(v)
      BY <3>2, <3>3
    <3>4. CASE ~Due(v)
      <4>1. Covers(v)
        BY <1>0, <3>4 DEF Watched
      <4>2. msg' = msg /\ reactions' = reactions /\ Written' = Written /\ Stored' = Stored /\ Recent' = Recent
        BY WindowsOnly, SameRows
      <4>3. window[v].fetch = "no" => UpToDate(v)
        BY <2>1, <2>3, <4>1 DEF Covers
      <4>4. UpToDate(v) => UpToDate(v)'
        BY <2>1, <4>2 DEF UpToDate, Owed, Facts
      <4> QED
        BY <3>1, <4>1, <4>2, <4>3, <4>4 DEF Covers
    <3> QED
      BY <3>3, <3>4
  <2> QED
    BY <2>2, <2>3
<1>5. CASE ListMessages(u)
  <2>1. /\ inbox' = inbox /\ data' = data /\ missed' = missed
        /\ window' = [window EXCEPT ![u].fetch = "listed", ![u].ids = Newest(Stored)]
    BY <1>5 DEF ListMessages
  <2>2. CASE v # u
    BY <1>0, <1>2, <2>1, <2>2
  <2>3. CASE v = u
    <3>1. window'[v].fetch = "listed" /\ window'[v].ids = Newest(Stored)
      BY <1>0, <2>1, <2>3 DEF View
    <3>2. msg' = msg /\ reactions' = reactions /\ Recent' = Recent
      BY WindowsOnly, SameRows
    <3>3. Recent \subseteq Newest(Stored)
      BY RecentIsNewest DEF IInv
    <3> QED
      BY <3>1, <3>2, <3>3 DEF Covers
  <2> QED
    BY <2>2, <2>3
<1>6. CASE Fetched(u)
  <2>1. /\ inbox' = inbox /\ missed' = missed /\ data' = [data EXCEPT ![u] = Facts(window[u].ids)]
        /\ window' = [window EXCEPT ![u].fetch = "no", ![u].invalid = FALSE, ![u].ids = {}]
    BY <1>6 DEF Fetched
  <2>2. CASE v # u
    <3>1. data'[v] = data[v] /\ window'[v] = window[v]
      BY <1>0, <2>1, <2>2 DEF TypeOK
    <3> QED
      BY <1>2, <2>1, <3>1
  <2>3. CASE v = u
    <3>1. Due(v)' <=> Due(v)
      BY <1>1, <2>1, <2>3 DEF Due
    <3>2. window'[v].fetch = "no"
      BY <1>0, <2>1, <2>3 DEF View
    <3>3. ~Due(v) => UpToDate(v)'
      BY <1>6, <2>3, FetchedIsUpToDate
    <3> QED
      BY <3>1, <3>2, <3>3 DEF Covers
  <2> QED
    BY <2>2, <2>3
<1>7. CASE FetchFails(u)
  <2>1. /\ inbox' = inbox /\ data' = data /\ missed' = missed \cup {u}
        /\ window' = [window EXCEPT ![u].fetch = "no", ![u].ids = {}]
    BY <1>7 DEF FetchFails
  <2>2. CASE v # u
    BY <1>0, <1>2, <2>1, <2>2
  <2>3. CASE v = u
    BY <2>1, <2>3 DEF Due
  <2> QED
    BY <2>2, <2>3
<1>8. CASE Receive(u)
  <2>1. PICK e \in inbox[u] :
          /\ inbox' = [inbox EXCEPT ![u] = @ \ {e}]
          /\ IF e[1] = "message"
               THEN Invalidate(u) /\ UNCHANGED seen
               ELSE /\ seen' = IF window[u].open /\ e[3] # u THEN [seen EXCEPT ![u] = @ \cup {e[2]}] ELSE seen
                    /\ UNCHANGED <<window, missed>>
          /\ UNCHANGED <<chats, opening, rows, job, data, marking>>
    BY <1>8 DEF Receive
  <2>2. data' = data /\ inbox'[u] = inbox[u] \ {e} /\ \A w \in Members : w # u => inbox'[w] = inbox[w]
    BY <1>0, <2>1 DEF TypeOK
  <2>3. CASE e[1] = "message" /\ v = u
    BY <1>0, <2>1, <2>3, InvalidatedCovers DEF Due
  <2>4. CASE e[1] = "message" /\ v # u
    <3>1. window'[v] = window[v] /\ (v \in missed <=> v \in missed')
      BY <1>0, <2>1, <2>4, InvalidateTypes
    <3> QED
      BY <1>0, <1>2, <2>2, <2>4, <3>1
  <2>5. CASE e[1] # "message"
    <3>1. e # <<"message">>
      BY <2>5
    <3> QED
      BY <1>0, <1>2, <2>1, <2>2, <2>5, <3>1
  <2> QED
    BY <2>3, <2>4, <2>5
<1>9. CASE \/ \E m \in Messages : Marks(u, m)
           \/ \E m \in Messages, ok \in BOOLEAN : MarkRead(u, m, ok) \/ UpsertRead(u, m, ok)
  <2>1. window' = window /\ data' = data /\ missed' = missed /\ \A w \in Members : inbox[w] \subseteq inbox'[w]
    BY <1>9 DEF Marks, MarkRead, UpsertRead
  <2> QED
    BY <1>0, <1>2, <2>1
<1> QED
  BY <1>3, <1>4, <1>5, <1>6, <1>7, <1>8, <1>9 DEF Window

\* So do the server's.
LEMMA CoversOfWrites ==
  ASSUME IInv, NEW u \in Members, LookForChat(u) \/ CreateChat(u) \/ Write(u), NEW v \in Watching
  PROVE  ~Due(v)' => Covers(v)'
<1>0. TypeOK /\ Numbered /\ OwnJobs /\ Watched /\ v \in Members /\ reactions \subseteq Messages \X Members
  BY WatchingMembers DEF IInv, TypeOK
<1>s. /\ Stored \subseteq Messages /\ Stored \subseteq Written
      /\ \A r \in reactions : r[1] \in Stored
  BY <1>0 DEF Stored, Written, Watched
<1>1. CASE LookForChat(u) \/ CreateChat(u)
  <2>1. inbox' = inbox /\ missed' = missed /\ data' = data /\ window' = window
    BY <1>1 DEF LookForChat, CreateChat, view
  <2>2. LessOwed(v) /\ job' = job
    BY <1>0, <1>1, WindowsOnly, SameOwed
  <2>3. Due(v) => Due(v)'
    BY <2>1, <2>2 DEF Due
  <2> QED
    BY <2>1, <2>2, <2>3, CoveredStands
<1>2. ASSUME NEW files \in BOOLEAN, SendMessage(u, files) PROVE ~Due(v)' => Covers(v)'
  <2>1. inbox' = inbox /\ missed' = missed /\ data' = data /\ window' = window /\ msg' = msg /\ reactions' = reactions
    BY <1>2 DEF SendMessage, view, rows
  <2>2. job[u] = NoJob /\ \A w \in Members : w # u => job'[w] = job[w]
    BY <1>0, <1>2 DEF SendMessage, TypeOK
  <2>3. Due(v) => Due(v)'
    BY <1>0, <2>1, <2>2 DEF Due, NoJob
  <2>4. LessOwed(v)
    BY <1>0, <2>1, SameOwed
  <2> QED
    BY <2>1, <2>3, <2>4, CoveredStands
<1>3. CASE CreateMessage(u)
  <2>1. inbox' = inbox /\ missed' = missed /\ data' = data /\ window' = window /\ reactions' = reactions
    BY <1>3 DEF CreateMessage, view
  <2>2. PICK n \in Messages :
          /\ n \notin Written /\ Written' = Written \cup {n} /\ Stored' = Stored \cup {n}
          /\ ~msg'[n].sent /\ \A k \in Messages : k # n => msg'[k] = msg[k]
          /\ job' = [job EXCEPT ![u] = [pc |-> IF job[u].pc = "files" THEN "attach" ELSE "emit", m |-> n]]
    BY <1>0, <1>3, Created
  <2>3. job[u].pc # "answer" /\ \A w \in Members : w # u => job'[w] = job[w]
    BY <1>0, <1>3, <2>2 DEF CreateMessage, TypeOK
  <2>4. Due(v) => Due(v)'
    BY <1>0, <2>1, <2>3 DEF Due
  <2>5. LessOwed(v)
    BY <1>s, <2>1, <2>2, RecentShrinks DEF LessOwed
  <2> QED
    BY <2>1, <2>4, <2>5, CoveredStands
<1>4. CASE AddAttachments(u)
  <2>1. inbox' = inbox /\ missed' = missed /\ data' = data /\ window' = window /\ reactions' = reactions
    BY <1>4 DEF AddAttachments, view
  <2>2. /\ Written' = Written /\ Stored' = Stored
        /\ \A k \in Messages : /\ msg'[k].sent = msg[k].sent
                               /\ msg'[k].files => msg[k].files \/ (k \in Stored => ~msg[k].sent)
        /\ \A w \in Members : w # u => job'[w] = job[w]
    BY <1>0, <1>4, Attached
  <2>3. job[u].pc # "answer"
    BY <1>4 DEF AddAttachments
  <2>4. Due(v) => Due(v)'
    BY <1>0, <2>1, <2>2, <2>3 DEF Due
  <2>5. LessOwed(v)
    BY <1>s, <2>1, <2>2, RecentShrinks DEF LessOwed
  <2> QED
    BY <2>1, <2>4, <2>5, CoveredStands
<1>5. ASSUME NEW told \in {{}, {Client}, Members}, Emit(u, told) PROVE Due(v)'
  <2>1. CASE v \in told
    BY <1>0, <1>5, <2>1 DEF Emit, Due
  <2>2. CASE v \notin told
    BY <1>5, <2>2 DEF Emit, Due
  <2> QED
    BY <2>1, <2>2
<1>6. CASE JobFails(u)
  <2>1. /\ inbox' = inbox /\ data' = data /\ window' = window /\ msg' = msg /\ reactions' = reactions
        /\ missed' = missed \cup ({u} \cap Watching)
        /\ \A w \in Members : w # u => job'[w] = job[w]
    BY <1>0, <1>6 DEF JobFails, Ends, view, rows, TypeOK
  <2>2. CASE v = u
    BY <2>1, <2>2 DEF Due
  <2>3. CASE v # u
    <3>1. Due(v) => Due(v)'
      BY <1>0, <2>1, <2>3 DEF Due
    <3>2. LessOwed(v)
      BY <1>0, <2>1, SameOwed
    <3> QED
      BY <2>1, <3>1, <3>2, CoveredStands
  <2> QED
    BY <2>2, <2>3
<1>7. CASE Answered(u)
  <2>1. /\ inbox' = inbox /\ data' = data /\ msg' = msg /\ reactions' = reactions
        /\ \A w \in Members : w # u => job'[w] = job[w]
    BY <1>0, <1>7 DEF Answered, Ends, rows, TypeOK
  <2>2. CASE v = u
    <3>1. Invalidate(u)
      BY <1>7, <2>2 DEF Answered
    <3> QED
      BY <1>0, <2>2, <3>1, InvalidatedCovers DEF Due
  <2>3. CASE v # u
    <3>1. window'[v] = window[v] /\ (v \in missed <=> v \in missed')
      BY <1>0, <1>7, <2>3, InvalidateTypes DEF Answered
    <3>2. Due(v) => Due(v)'
      BY <1>0, <2>1, <2>3, <3>1 DEF Due
    <3>3. LessOwed(v)
      BY <1>0, <2>1, SameOwed
    <3> QED
      BY <2>1, <3>1, <3>2, <3>3, CoveredStands
  <2> QED
    BY <2>2, <2>3
<1>8. ASSUME NEW m \in Messages, AddReaction(u, m) \/ RemoveReaction(u, m) PROVE ~Due(v)' => Covers(v)'
  <2>1. /\ inbox' = inbox /\ data' = data /\ window' = window /\ missed' = missed /\ msg' = msg
        /\ job'[u].pc = "answer" /\ \A w \in Members : w # u => job'[w] = job[w]
        /\ reactions' = reactions \cup {<<m, u>>} \/ reactions' = reactions \ {<<m, u>>}
    BY <1>0, <1>8 DEF AddReaction, RemoveReaction, React, view, TypeOK
  <2>2. CASE v = u
    BY <2>1, <2>2 DEF Due
  <2>3. CASE v # u
    <3>1. Due(v) => Due(v)'
      BY <1>0, <2>1, <2>3 DEF Due
    <3>2. \A r : r[2] = v => (r \in reactions <=> r \in reactions')
      BY <2>1, <2>3
    <3>3. LessOwed(v)
      BY <1>0, <2>1, <3>2, SameOwed
    <3> QED
      BY <2>1, <3>1, <3>3, CoveredStands
  <2> QED
    BY <2>2, <2>3
<1>9. ASSUME NEW m \in Messages, DeleteMessage(u, m) PROVE ~Due(v)' => Covers(v)'
  <2>1. /\ inbox' = inbox /\ missed' = missed /\ data' = data /\ window' = window /\ job' = job
        /\ reactions' = {r \in reactions : r[1] # m}
    BY <1>9 DEF DeleteMessage, view
  <2>2. /\ Written' = Written /\ Stored' = Stored \ {m}
        /\ \A k \in Messages : k # m => msg'[k] = msg[k]
    BY <1>0, <1>9, Deleted
  <2>3. Due(v) => Due(v)'
    BY <2>1 DEF Due
  <2>4. LessOwed(v)
    BY <1>s, <2>1, <2>2, RecentShrinks DEF LessOwed
  <2> QED
    BY <2>1, <2>3, <2>4, CoveredStands
<1> QED
  BY <1>1, <1>2, <1>3, <1>4, <1>5, <1>6, <1>7, <1>8, <1>9 DEF Write

-----------------------------------------------------------------------------
\* The invariant holds of an empty chat.
LEMMA IInvHoldsFirst ==
  ASSUME Init
  PROVE  IInv
<1>1. Unwritten \in Message /\ NoJob \in Job /\ Closed \in View
  BY ChatAssumption DEF Unwritten, Message, Members, NoJob, Job, Closed, View
<1>2. TypeOK
  BY <1>1 DEF Init, TypeOK
<1>3. Written = {} /\ Stored = {}
  BY DEF Init, Written, Stored, Unwritten
<1>4. Numbered
  BY <1>3, ChatAssumption DEF Numbered
<1>5. OwnJobs
  BY DEF OwnJobs, Busy, Init, NoJob
<1>6. Receipts
  BY DEF Receipts, Init
<1>7. \A u \in Members : window[u] = Closed /\ data[u] = NoData
  BY DEF Init
<1>8. \A u \in Members : Covers(u)
  BY <1>7 DEF Covers, Closed
<1>9. Watched
  BY <1>7, <1>8, WatchingMembers DEF Watched, Init, Closed
<1> QED
  BY <1>2, <1>4, <1>5, <1>6, <1>9 DEF IInv

\* Every step keeps the invariant.
LEMMA IInvKept ==
  ASSUME IInv, [Next]_vars
  PROVE  IInv'
<1>1. ASSUME NEW u \in Members, Acts(u) PROVE IInv'
  <2>1. TypeOK'
    BY <1>1, TypeOfWindows, TypeOfWrites DEF Acts, IInv
  <2>2. \A v \in Watching : ~Due(v)' => Covers(v)'
    BY <1>1, CoversOfWindows, CoversOfWrites DEF Acts
  <2>3. Watched'
    BY <1>1, <2>2, WindowsKept, ReactionsKept DEF Watched
  <2> QED
    BY <1>1, <2>1, <2>3, NumberedKept, OwnJobsKept, ReceiptsKept DEF IInv
<1>2. CASE UNCHANGED vars
  <2>1. Written' = Written /\ Stored' = Stored /\ Recent' = Recent
    BY <1>2, SameRows DEF vars
  <2>2. \A u \in Members : Due(u)' = Due(u) /\ Covers(u)' = Covers(u) /\ Other(u)' = Other(u)
    BY <1>2, <2>1 DEF vars, Due, Covers, UpToDate, Owed, Facts, Other
  <2>3. TypeOK' /\ Numbered' /\ OwnJobs' /\ Receipts'
    BY <1>2, <2>1, <2>2 DEF vars, IInv, TypeOK, Numbered, OwnJobs, Busy, Receipts
  <2>4. Watched'
    BY <1>2, <2>1, <2>2, WatchingMembers DEF vars, IInv, Watched
  <2> QED
    BY <2>3, <2>4 DEF IInv
<1> QED
  BY <1>1, <1>2 DEF Next, Acts

\* The invariant holds in every reachable state.
LEMMA IInvAlways == Spec => []IInv
  BY IInvHoldsFirst, IInvKept, PTL DEF Spec

\* Every variable keeps to its type (conversations, messages, the caches and
\* windows of both members).
THEOREM TypeCorrect == Spec => []TypeOK
<1>1. IInv => TypeOK
  BY DEF IInv
<1> QED
  BY <1>1, IInvAlways, PTL

\* What a window shows as read is recorded as read by the other
\* (MarkConversationRead, chat.message.read.upsert).
THEOREM ReceiptsAreKept == Spec => []ReceiptIsKept
<1>1. IInv => ReceiptIsKept
  BY DEF IInv, Receipts, ReceiptIsKept
<1> QED
  BY <1>1, IInvAlways, PTL

\* An open window at rest shows what was sent among the last messages of a
\* page, whatever requests, events and
\* deletions came before (useSendMessage, useRealtimeSync).
THEOREM ViewsSettle == Spec => []ViewSettles
<1>1. ASSUME IInv, NEW u \in Members, AtRest(u)
      PROVE  /\ Owed(u) \subseteq data[u]
             /\ \A f \in data[u] : (f[1] = "reaction" /\ f[2][2] = u /\ f[2][1] \in Stored) => f[2] \in reactions
  <2>1. u \in Watching /\ ~Due(u)
    BY <1>1 DEF AtRest, IInv, Watched, Due, NoJob
  <2>2. UpToDate(u)
    BY <1>1, <2>1 DEF AtRest, IInv, Watched, Covers
  <2> QED
    BY <2>2 DEF UpToDate
<1>2. IInv => ViewSettles
  BY <1>1 DEF ViewSettles
<1> QED
  BY <1>2, IInvAlways, PTL

=============================================================================
