----------------------------- MODULE UnreadBadge -----------------------------
(***************************************************************************)
(* The count of unread notifications of one user: the rows of the          *)
(* database, the handlers that mark them as read and tell the user's tabs, *)
(* and in every tab the cached first page of the notifications, which      *)
(* events overwrite, refetches replace and clicks change before the server *)
(* has answered.                                                           *)
(*                                                                         *)
(* The events of one user reach every tab in the order of their broadcasts *)
(* (WsHub, EventStream); only those that concern the notifications appear. *)
(* The service deletes notifications too, but no page offers it.           *)
(* The query library is modelled as useNotificationsInfinite uses it: a    *)
(* refetch replaces one that runs, except the first, which is joined.      *)
(***************************************************************************)
EXTENDS Integers, Sequences, FiniteSets

CONSTANTS
  Tabs,       \* the user's tabs
  Calls,      \* requests that mark as read, as many as run at once
  Nobody,     \* not a tab: nobody waits for the answer
  Page,       \* the size of a page (20)
  MaxNotes,   \* bound: so many notifications are created
  MaxUnsent,    \* bound: so many counter.updated events are due
  MaxQueue    \* bound: so many events wait for a tab

ASSUME UnreadAssumption ==
  /\ Nobody \notin Tabs
  /\ {Page, MaxNotes, MaxUnsent, MaxQueue} \subseteq Nat \ {0}

VARIABLES
  made,     \* the rows are 1..made, by age
  unread,   \* those with is_read = false
  unsent,   \* counter.updated events that handlers are about to send
  queue,    \* per tab: the events it has not handled yet
  cache,    \* per tab: page 0 of the query, its unread items and unread_count
  fetch,    \* per tab: the running fetch of page 0
  calls     \* the requests

(***************************************************************************)
(* History variable: since the last fetch of the tab began, something has  *)
(* happened that nothing in the program makes up for.                      *)
(***************************************************************************)
VARIABLE excuse

db == <<made, unread>>
badgeVars == <<db, unsent, queue, cache, fetch, calls, excuse>>

Notes == 1..MaxNotes
All == 0

NoFetch == [pc |-> "none", unread |-> {}, count |-> 0]
Sent == [NoFetch EXCEPT !.pc = "sent"]
Empty == [loaded |-> FALSE, unread |-> {}, count |-> 0]
Idle == [pc |-> "idle", tab |-> Nobody, what |-> All, prev |-> Empty, count |-> 0]

\* The unread items of the first page, the newest first.
FirstPage == {i \in unread : i > made - Page}

BadgeInit ==
  /\ made = 0 /\ unread = {}
  /\ unsent = 0
  /\ queue = [t \in Tabs |-> <<>>]
  /\ cache = [t \in Tabs |-> Empty]
  /\ fetch = [t \in Tabs |-> Sent]
  /\ calls = [c \in Calls |-> Idle]
  /\ excuse = [t \in Tabs |-> FALSE]

-----------------------------------------------------------------------------
(***************************************************************************)
(* The server                                                              *)
(***************************************************************************)

\* BroadcastToUser stores the notification of an event.  The event itself
\* leaves the query alone; a handler may send counter.updated after it.
Create(announced) ==
  /\ made < MaxNotes /\ unsent < MaxUnsent
  /\ made' = made + 1
  /\ unread' = unread \cup {made + 1}
  /\ unsent' = IF announced THEN unsent + 1 ELSE unsent
  /\ excuse' = IF announced THEN excuse ELSE [t \in Tabs |-> TRUE]
  /\ UNCHANGED <<queue, cache, fetch, calls>>

Emit(event) ==
  /\ \A t \in Tabs : Len(queue[t]) < MaxQueue
  /\ queue' = [t \in Tabs |-> Append(queue[t], event)]

EmitCounter ==
  /\ unsent > 0
  /\ unsent' = unsent - 1
  /\ Emit([kind |-> "changed", count |-> 0])
  /\ UNCHANGED <<db, cache, fetch, calls, excuse>>

\* The commands notification.mark_read and notification.mark_all_read, or a
\* request that does not come from one of the tabs.
Order(c, what) ==
  /\ calls[c].pc = "idle"
  /\ calls' = [calls EXCEPT ![c] = [Idle EXCEPT !.pc = "posted", !.what = what]]
  /\ UNCHANGED <<db, unsent, queue, cache, fetch, excuse>>

\* MarkAsRead, MarkAllAsRead: the row or all rows.
Mark(c) ==
  /\ calls[c].pc = "posted"
  /\ unread' = IF calls[c].what = All THEN {} ELSE unread \ {calls[c].what}
  /\ calls' = [calls EXCEPT ![c].pc = "marked"]
  /\ UNCHANGED <<made, unsent, queue, cache, fetch, excuse>>

\* notification.read
EmitRead(c) ==
  /\ calls[c].pc = "marked"
  /\ Emit([kind |-> "changed", count |-> 0])
  /\ calls' = [calls EXCEPT ![c].pc = "told"]
  /\ UNCHANGED <<db, unsent, cache, fetch, excuse>>

CountUnread(c) ==
  /\ calls[c].pc = "told"
  /\ calls' = [calls EXCEPT ![c].pc = "counted", ![c].count = Cardinality(unread)]
  /\ UNCHANGED <<db, unsent, queue, cache, fetch, excuse>>

\* notification.unread_count.updated, unless the rows could not be counted.
EmitCount(c) ==
  /\ \/ calls[c].pc = "counted" /\ Emit([kind |-> "count", count |-> calls[c].count])
     \/ calls[c].pc = "told" /\ UNCHANGED queue
  /\ calls' = [calls EXCEPT ![c].pc = "done", ![c].count = 0]
  /\ UNCHANGED <<db, unsent, cache, fetch, excuse>>

-----------------------------------------------------------------------------
(***************************************************************************)
(* A tab                                                                   *)
(***************************************************************************)

\* Mutant of Invalidate: a fetch that runs is always joined.
Invalidate_Joins(t) ==
  IF fetch[t].pc = "none"
  THEN fetch' = [fetch EXCEPT ![t] = Sent] /\ excuse' = [excuse EXCEPT ![t] = FALSE]
  ELSE UNCHANGED <<fetch, excuse>>

\* invalidateQueries(["notifications"]): page 0 is fetched again, unless its
\* first fetch is still running.
Invalidate(t) ==
  IF cache[t].loaded \/ fetch[t].pc = "none"
  THEN fetch' = [fetch EXCEPT ![t] = Sent] /\ excuse' = [excuse EXCEPT ![t] = FALSE]
  ELSE UNCHANGED fetch /\ excuse' = [excuse EXCEPT ![t] = TRUE]

\* Mutant of Hear: the count of an event is trusted.
Hear_Trusts(t) ==
  /\ queue[t] # <<>>
  /\ queue' = [queue EXCEPT ![t] = Tail(@)]
  /\ IF Head(queue[t]).kind = "count"
     THEN /\ cache' = [cache EXCEPT ![t].count = Head(queue[t]).count]
          /\ UNCHANGED <<fetch, excuse>>
     ELSE UNCHANGED cache /\ Invalidate(t)
  /\ UNCHANGED <<db, unsent, calls>>

\* useRealtimeSync; updateUnreadCountInCache when the event has a count.
Hear(t) ==
  /\ queue[t] # <<>>
  /\ queue' = [queue EXCEPT ![t] = Tail(@)]
  /\ cache' = IF Head(queue[t]).kind = "count" /\ cache[t].loaded
              THEN [cache EXCEPT ![t].count = Head(queue[t]).count]
              ELSE cache
  /\ Invalidate(t)
  /\ UNCHANGED <<db, unsent, calls>>

\* The page is mounted, focused or shown again.
Refetch(t) ==
  /\ fetch[t].pc = "none"
  /\ fetch' = [fetch EXCEPT ![t] = Sent]
  /\ excuse' = [excuse EXCEPT ![t] = FALSE]
  /\ UNCHANGED <<db, unsent, queue, cache, calls>>

\* ListNotifications reads the page and then, in a second query, the count.
List(t) ==
  /\ fetch[t].pc = "sent"
  /\ fetch' = [fetch EXCEPT ![t] = [@ EXCEPT !.pc = "listed", !.unread = FirstPage]]
  /\ UNCHANGED <<db, unsent, queue, cache, calls, excuse>>

GetUnreadCount(t) ==
  /\ fetch[t].pc = "listed"
  /\ fetch' = [fetch EXCEPT ![t] = [@ EXCEPT !.pc = "counted", !.count = Cardinality(unread)]]
  /\ UNCHANGED <<db, unsent, queue, cache, calls, excuse>>

Fetched(t) ==
  /\ fetch[t].pc = "counted"
  /\ cache' = [cache EXCEPT ![t] = [loaded |-> TRUE, unread |-> fetch[t].unread,
                                    count |-> fetch[t].count]]
  /\ fetch' = [fetch EXCEPT ![t] = NoFetch]
  /\ UNCHANGED <<db, unsent, queue, calls, excuse>>

FetchFails(t) ==
  /\ fetch[t].pc # "none"
  /\ fetch' = [fetch EXCEPT ![t] = NoFetch]
  /\ excuse' = [excuse EXCEPT ![t] = TRUE]
  /\ UNCHANGED <<db, unsent, queue, cache, calls>>

\* markReadInCache, markAllReadInCache: unread_count becomes the number of
\* unread items on the first page.
MarkedInCache(page, what) ==
  LET left == IF what = All THEN {} ELSE page.unread \ {what}
  IN  [page EXCEPT !.unread = left, !.count = Cardinality(left)]

\* The user marks one notification or, once at a time, all as read: the running fetch is
\* cancelled, the cache changed, its old content kept, the request posted.
Click(c, t, what) ==
  /\ calls[c].pc = "idle"
  /\ cache[t].loaded
  /\ what = All => /\ cache[t].count > 0
                   /\ \A d \in Calls : calls[d].tab = t => calls[d].what # All
  /\ fetch' = [fetch EXCEPT ![t] = NoFetch]
  /\ cache' = [cache EXCEPT ![t] = MarkedInCache(@, what)]
  /\ calls' = [calls EXCEPT ![c] = [Idle EXCEPT !.pc = "posted", !.tab = t, !.what = what,
                                                !.prev = cache[t]]]
  /\ UNCHANGED <<db, unsent, queue, excuse>>

\* onSuccess
Succeed(c) ==
  /\ calls[c].pc = "done" /\ calls[c].tab \in Tabs
  /\ calls' = [calls EXCEPT ![c] = Idle]
  /\ Invalidate(calls[c].tab)
  /\ UNCHANGED <<db, unsent, queue, cache>>

\* onError: the cache is put back.  The server may have marked the rows, or
\* may yet do so.
Fail(c) ==
  /\ calls[c].tab \in Tabs
  /\ cache' = [cache EXCEPT ![calls[c].tab] = calls[c].prev]
  /\ calls' = [calls EXCEPT ![c].tab = Nobody, ![c].prev = Empty]
  /\ excuse' = [excuse EXCEPT ![calls[c].tab] = @ \/ fetch[calls[c].tab].pc = "none"]
  /\ UNCHANGED <<db, unsent, queue, fetch>>

\* A request whose caller has given up is not served, or ends.
Drop(c) ==
  /\ calls[c].pc \in {"posted", "done"} /\ calls[c].tab = Nobody
  /\ calls' = [calls EXCEPT ![c] = Idle]
  /\ UNCHANGED <<db, unsent, queue, cache, fetch, excuse>>

-----------------------------------------------------------------------------
BadgeNext ==
  \/ \E announced \in BOOLEAN : Create(announced)
  \/ EmitCounter
  \/ \E c \in Calls :
       \/ Mark(c) \/ EmitRead(c) \/ CountUnread(c) \/ EmitCount(c)
       \/ Succeed(c) \/ Fail(c) \/ Drop(c)
       \/ \E what \in 0..made : Order(c, what)
       \/ \E t \in Tabs : \E what \in cache[t].unread \cup {All} : Click(c, t, what)
  \/ \E t \in Tabs :
       \/ Hear(t) \/ Refetch(t)
       \/ List(t) \/ GetUnreadCount(t) \/ Fetched(t) \/ FetchFails(t)

BadgeSpec == BadgeInit /\ [][BadgeNext]_badgeVars

-----------------------------------------------------------------------------
(***************************************************************************)
(* Properties                                                              *)
(***************************************************************************)

\* Nothing is on its way to the tab: no handler has marked rows and not yet
\* said so, no event waits, the tab neither fetches nor waits for an answer.
Settled(t) ==
  /\ unsent = 0 /\ \A c \in Calls : calls[c].pc # "marked"
  /\ queue[t] = <<>>
  /\ cache[t].loaded /\ fetch[t].pc = "none"
  /\ \A c \in Calls : calls[c].tab # t

\* Whatever the order in which counts were taken, broadcast and overtaken by
\* refetches and answers, a tab that has settled shows the right count, unless
\* since its last fetch a notification was created without counter.updated, a
\* fetch failed, a click was taken back, or an event came during the very first
\* fetch.
BadgeSettles ==
  \A t \in Tabs : Settled(t) /\ ~excuse[t] => cache[t].count = Cardinality(unread)

\* Under the same conditions it shows as unread what is unread.
ListSettles ==
  \A t \in Tabs : Settled(t) /\ ~excuse[t] => cache[t].unread = FirstPage

=============================================================================
