----------------------------- MODULE Recommend -----------------------------
(***************************************************************************)
(* Recommendations: orders for a freelancer, freelancers for a client's    *)
(* order, and the dashboard that caches both.                              *)
(*                                                                         *)
(* A request for orders reads the open orders and the freelancer's         *)
(* proposals, asks the AI about what is left of them and fills up with     *)
(* popular orders; meanwhile orders open and close and the freelancer      *)
(* answers some.  It is plain, a stream, or made for the dashboard, which  *)
(* keeps the answer for a day, or five minutes if there is nothing in it.  *)
(* A stream has steps of its own, which differ where it was not kept in    *)
(* line with the plain request.                                            *)
(*                                                                         *)
(* Lists are sorted by date or popularity and cut to a limit: any choice   *)
(* of that many orders.  The AI names no order twice.                      *)
(***************************************************************************)
EXTENDS Integers, FiniteSets

CONSTANTS
  Calls,      \* requests at once
  Orders,     \* the orders there may be
  Matching,   \* those that need a skill the freelancer has
  Freelancers,
  Foreign,    \* an id that the AI makes up
  Limits,     \* how many may be asked for: any number, negative ones too
  Most,       \* the most that are given: 10, which the dashboard asks for
  Factor,     \* how many times as many are read for the AI: 5
  Page,       \* how many List reads if it is asked for none: 20
  Scores      \* scores that the AI gives, in tenths

ASSUME RecommendAssumption ==
  /\ IsFiniteSet(Orders) /\ Matching \subseteq Orders
  /\ Foreign \notin Orders \cup Freelancers
  /\ Limits \subseteq Int
  /\ Most \in Nat \ {0} /\ Factor \in Nat \ {0} /\ Page \in Nat \ {0}
  /\ Scores \subseteq Nat

VARIABLES
  open,       \* orders that are published and not given to anyone
  closed,     \* orders that were
  answered,   \* orders the freelancer has sent a proposal for
  calls,      \* requests
  cache,      \* CacheService, per key
  inv         \* a running InvalidateUserCache has dropped the dashboard only

vars == <<open, closed, answered, calls, cache, inv>>
market == <<open, closed, answered>>
store == <<cache, inv>>

\* An entry is known by whether there is something in it.
\* The freelancer's dashboard and recommendations, the client's dashboard and
\* the freelancers that suit its order.
Keys == {"dashboard", "recommendations", "client", "suitable"}
Kinds == {"plain", "stream", "dashboard", "suitable"}

Absent == [on |-> FALSE, some |-> FALSE, born |-> "new"]

\* limit is what was asked for; strange is what the AI names that it was not
\* shown; before is what was answered when the request began; sure says that
\* the freelancer's proposals were read whenever they were needed; born relates
\* what a request or an entry is made of to the last invalidation.
Idle == [pc |-> "idle", kind |-> "plain", limit |-> Most, list |-> {}, known |-> {},
         result |-> {}, strange |-> {}, some |-> FALSE, before |-> {}, sure |-> TRUE,
         source |-> "none", born |-> "new"]

Init ==
  /\ open = {} /\ closed = {} /\ answered = {}
  /\ calls = [c \in Calls |-> Idle]
  /\ cache = [k \in Keys |-> Absent]
  /\ inv = FALSE

\* Any n of S, or all if there are no more.
Take(S, n) == {T \in SUBSET S : Cardinality(T) = (IF Cardinality(S) <= n THEN Cardinality(S) ELSE n)}

\* List takes a limit that is not positive for none; a loop that adds an order
\* before it looks whether there are enough adds one at least.
Rows(n) == IF n > 0 THEN n ELSE Page
Enough(n) == IF n > 0 THEN n ELSE 1

\* The n most popular: the query may fail, and so it does in PostgreSQL, which
\* refuses to sort SELECT DISTINCT by what it does not list; a failure counts
\* as an empty list.
Ranked(S, n) == Take(S, n) \cup {{}}

Put(c, r) == calls' = [calls EXCEPT ![c] = r]
Only(c, r) == Put(c, r) /\ UNCHANGED <<market, store>>

-----------------------------------------------------------------------------
(***************************************************************************)
(* The market                                                              *)
(***************************************************************************)
Publish(o) ==
  /\ o \notin open \cup closed
  /\ open' = open \cup {o}
  /\ UNCHANGED <<closed, answered, calls, store>>

Answer(o) ==
  /\ o \in open \ answered
  /\ answered' = answered \cup {o}
  /\ UNCHANGED <<open, closed, calls, store>>

\* A freelancer is chosen, or the order is withdrawn.
Close(o) ==
  /\ o \in open
  /\ open' = open \ {o} /\ closed' = closed \cup {o}
  /\ UNCHANGED <<answered, calls, store>>

-----------------------------------------------------------------------------
(***************************************************************************)
(* RecommendRelevantOrders and StreamRecommendRelevantOrders               *)
(***************************************************************************)
Streaming(c) == calls[c].kind = "stream"

Ask(kind, limit) ==
  [Idle EXCEPT !.pc = "profile", !.kind = kind, !.limit = limit, !.before = answered]

Free(c) == calls[c].pc \in {"idle", "done"}

\* Too many are cut down to the most there may be; too few are not mended.
Begin(c, kind, limit) ==
  /\ Free(c) /\ kind \in {"plain", "stream"}
  /\ Only(c, Ask(kind, IF limit > Most THEN Most ELSE limit))

\* The dashboard has its recommendations.
Recommended(some, born) ==
  [Idle EXCEPT !.pc = "details", !.kind = "dashboard", !.some = some, !.born = born]

\* The service is done: a plain request whose answer is empty gets one more
\* chance, the dashboard caches the answer.
Answered(r, ids, source) ==
  [r EXCEPT !.result = ids, !.source = source, !.known = {}, !.strange = @ \cap ids,
            !.list = IF r.kind = "plain" THEN @ ELSE {},
            !.pc = CASE r.kind = "dashboard" -> "keep"
                     [] r.kind = "plain" /\ ids = {} -> "handler"
                     [] OTHER -> "done"]

Failed(r) ==
  IF r.kind = "dashboard" THEN Recommended(FALSE, r.born)
  ELSE [r EXCEPT !.pc = "done", !.source = "error", !.known = {}, !.result = {}, !.strange = {}]

\* The profile and the portfolio, without which there is nothing.
LoadProfile(c, ok) ==
  /\ calls[c].pc = "profile"
  /\ Only(c, IF ok THEN [calls[c] EXCEPT !.pc = "list"] ELSE Failed(calls[c]))

ListOpen(c, ok) ==
  LET r == calls[c] IN
  /\ r.pc = "list"
  /\ \E list \in Take(open, Rows(Factor * r.limit)) :
       Only(c, CASE ~ok -> Failed(r)
                 [] ok /\ list = {} /\ r.kind # "stream" -> Answered(r, {}, "none")
                 [] OTHER -> [r EXCEPT !.pc = "mine", !.list = list])

\* Mutant of ListMyProposals: nothing is left out.
ListMyProposals_NoFilter(c, ok) ==
  LET r == calls[c] IN
  /\ r.pc = "mine"
  /\ Only(c, [r EXCEPT !.sure = ok, !.pc = IF r.list = {} THEN "popular" ELSE "ai"])

\* What the freelancer has answered is left out, if it can be read.
ListMyProposals(c, ok) ==
  LET r == calls[c]
      known == IF ok THEN answered ELSE {}
  IN
  /\ r.pc = "mine"
  /\ Only(c, [r EXCEPT !.known = known, !.sure = ok, !.list = @ \ known,
                       !.pc = IF r.list \ known = {} THEN "popular" ELSE "ai"])

\* The first of the most popular that are not known; or else?
Offered(c, r, orders, known, otherwise) ==
  \E list \in Ranked(orders, Rows(r.limit)) :
  \E few \in Take(list \ known, Enough(r.limit)) :
    Only(c, IF few # {} THEN Answered(r, few, "popular") ELSE otherwise)

Nothing(r) == Answered(r, {}, "popular")

\* Nothing is left to recommend: the most popular orders.
Popular(c) ==
  /\ calls[c].pc = "popular" /\ ~Streaming(c)
  /\ Offered(c, calls[c], open, calls[c].known, Nothing(calls[c]))

\* A stream reads the proposals again and takes a failure for none.
StreamOffered(c, orders, ok) ==
  LET r == [calls[c] EXCEPT !.sure = @ /\ ok] IN
  Offered(c, r, orders, IF ok THEN answered ELSE {}, Nothing(r))

StreamPopular(c, ok) ==
  calls[c].pc = "popular" /\ Streaming(c) /\ StreamOffered(c, open, ok)

\* What the AI answers: JSON, JSON in prose, neither, or not at all.
Texts == {"json", "json in prose", "prose", "error"}
ExtractJSONObject(text) == text \in {"json", "json in prose"}

\* Scores are meant to go up to ten; those of a scale to one, or to a hundred,
\* are mended.
NormalizeMatchScore(v) ==
  CASE v <= 10 -> 10 * v
    [] v > 100 /\ v <= 1000 -> v \div 10
    [] OTHER -> v

\* The orders that count are those with a score of seven or more, and if there
\* are none, all that are named.
Counted(text, score) ==
  LET good == {o \in DOMAIN score : NormalizeMatchScore(score[o]) >= 70} IN
  CASE ~ExtractJSONObject(text) -> {}
    [] ExtractJSONObject(text) /\ good = {} -> DOMAIN score
    [] OTHER -> good

\* A stream only takes JSON alone, mends no score, and does without the second
\* choice.
CountedOfStream(text, score) ==
  IF text = "json" THEN {o \in DOMAIN score : score[o] >= 70} ELSE {}

\* The AI names any ids, and nobody looks whether it was shown them: fewer
\* than asked for are filled up, more are cut.  A plain request that asks for
\* none does not miss them unless the AI fails.
Asked(c, reply) ==
  LET r == calls[c] IN
  /\ r.pc = "ai"
  /\ Only(c, [r EXCEPT !.result = reply.ids, !.strange = reply.ids \ r.list,
       !.pc = CASE reply.ids # {} /\ Cardinality(reply.ids) < r.limit -> "refill"
                [] reply.ids = {} /\ (reply.failed \/ r.limit > 0 \/ Streaming(c)) -> "fallback"
                [] OTHER -> "cut"])

\* The replies there may be: scores for some ids.
Replied == UNION {[named -> Scores] : named \in SUBSET (Orders \cup {Foreign})}

\* By what of it counts.
PlainReplies ==
  {[ids |-> Counted(text, score), failed |-> text = "error"] : text \in Texts, score \in Replied}
StreamReplies ==
  {[ids |-> CountedOfStream(text, score), failed |-> text = "error"] : text \in Texts, score \in Replied}

AskAI(c, reply) == ~Streaming(c) /\ Asked(c, reply)
StreamAskAI(c, reply) == Streaming(c) /\ Asked(c, reply)

\* Orders by skill, or any if there are none: a plain request tries again.
BySkill == IF open \cap Matching = {} THEN open ELSE open \cap Matching

\* Twice as many as asked for are read, and what is new is added.
Refilled(c, orders) ==
  LET r == calls[c] IN
  /\ r.pc = "refill"
  /\ \E list \in Ranked(orders, 2 * r.limit) :
     \E more \in Take(list \ (r.result \cup r.known), r.limit - Cardinality(r.result)) :
       Only(c, Answered(r, r.result \cup more, "ai"))

Refill(c) == ~Streaming(c) /\ Refilled(c, BySkill)

\* A stream reads the proposals again here too, but goes by those it has read
\* before.
StreamRefill(c) == Streaming(c) /\ Refilled(c, open \cap Matching)

\* The AI has named none: popular orders by skill.
Fallback(c) ==
  /\ calls[c].pc = "fallback" /\ ~Streaming(c)
  /\ Offered(c, calls[c], BySkill, calls[c].known, [calls[c] EXCEPT !.pc = "cut"])

\* A stream goes by the proposals as they are now.
StreamFallback(c, ok) ==
  calls[c].pc = "fallback" /\ Streaming(c) /\ StreamOffered(c, open \cap Matching, ok)

\* Mutant of Cut: the best, and no more.
Cut_NoNet(c) ==
  LET r == calls[c] IN
  /\ r.pc = "cut"
  /\ \E best \in Take(r.result, Enough(r.limit)) : Only(c, Answered(r, best, "ai"))

\* The best of too many, and the safety net of a plain request that has come
\* to nothing: those that the AI was to choose from.  There is no slice of
\* negative length: a panic ends the request.
Cut(c) ==
  LET r == calls[c] IN
  /\ r.pc = "cut"
  /\ IF r.limit < 0 THEN Only(c, Failed(r))
     ELSE \E best \in Take(r.result, r.limit), net \in Take(r.list, Enough(r.limit)) :
            Only(c, IF best # {} \/ Streaming(c) THEN Answered(r, best, "ai") ELSE Answered(r, net, "net"))

\* The handler's own fallback asks for any open orders, answered or not.
HandlerFallback(c) ==
  LET r == calls[c] IN
  /\ r.pc = "handler"
  /\ \E list \in Take(open, Rows(r.limit)) \cup {{}} :
       Only(c, [r EXCEPT !.pc = "done", !.result = list, !.source = "handler"])

-----------------------------------------------------------------------------
(***************************************************************************)
(* The dashboard                                                           *)
(***************************************************************************)

\* GetDashboardData: a cached answer is the answer.
GetDashboardData(c) ==
  /\ Free(c) /\ ~cache["dashboard"].on
  /\ Put(c, [Ask("dashboard", Most) EXCEPT !.pc = "reads"])
  /\ UNCHANGED <<market, store>>

\* Statistics, notifications and recent orders are read side by side; without
\* the statistics there is no dashboard.
Reads(c, ok) ==
  /\ calls[c].pc = "reads"
  /\ Only(c, IF ok THEN [calls[c] EXCEPT !.pc = "cached"] ELSE Idle)

\* The recommendations may still be there when the dashboard is not.
Cached(c) ==
  LET r == calls[c]
      e == cache["recommendations"]
  IN
  /\ r.pc = "cached"
  /\ Only(c, IF e.on THEN Recommended(e.some, e.born) ELSE [r EXCEPT !.pc = "profile"])

\* A day, an hour or five minutes, by what is in it: ExpireEntry may come at
\* any time.
Entry(some, born) == [on |-> TRUE, some |-> some, born |-> IF inv THEN "racing" ELSE born]

Keep(c) ==
  LET r == calls[c] IN
  /\ r.pc = "keep"
  /\ Put(c, Recommended(r.result # {}, r.born))
  /\ cache' = [cache EXCEPT !["recommendations"] = Entry(r.result # {}, r.born)]
  /\ UNCHANGED <<market, inv>>

\* The details of orders that still exist; the whole is kept in any case.
Details(c) ==
  LET r == calls[c] IN
  /\ r.pc = "details"
  /\ Put(c, Idle)
  /\ cache' = [cache EXCEPT !["dashboard"] = Entry(r.some, r.born)]
  /\ UNCHANGED <<market, inv>>

\* FindSuitableFreelancers: the order's owner or an admin, if nothing fails,
\* gets a choice of the active freelancers with a profile, whether they have
\* answered or not; nobody, and an error, are the same here.
SearchFreelancers == SUBSET Freelancers

\* Those that the AI names, shown or not, or the first five if it names none;
\* it is not asked about nobody.
SuitableReply(profiles, named) ==
  CASE profiles = {} -> {{}}
    [] profiles # {} /\ named = {} -> Take(profiles, 5)
    [] OTHER -> {named}

Replies(Reply(_, _)) ==
  {{}} \cup UNION {Reply(profiles, named) : profiles \in SearchFreelancers,
                                           named \in SUBSET (Freelancers \cup {Foreign})}

\* A stream's words may break off: then nothing is handed over.
StreamSuitableReply(profiles, named) == SuitableReply(profiles, named) \cup {{}}

\* The request alone keeps nothing; a freelancer's is refused.
Suited(c, reply) ==
  Only(c, [Idle EXCEPT !.pc = "done", !.kind = "suitable", !.some = (reply # {})])

FindSuitableFreelancers(c) ==
  Free(c) /\ \E reply \in Replies(SuitableReply) : Suited(c, reply)
StreamFindSuitableFreelancers(c) ==
  Free(c) /\ \E reply \in Replies(StreamSuitableReply) : Suited(c, reply)

\* An invalidation for the freelancer does not concern the client's entries.
Kept == [on |-> TRUE, some |-> TRUE, born |-> "new"]

\* The client's dashboard, if it is not kept: only somebody is kept for the
\* order, which may be gone by the next dashboard, or not be read.
FindSuitable(c) ==
  /\ Free(c) /\ ~cache["client"].on
  /\ Put(c, Idle)
  /\ \E reply \in Replies(SuitableReply) :
       cache' = [cache EXCEPT !["suitable"] = IF @.on \/ reply = {} THEN @ ELSE Kept,
                              !["client"] = Kept]
  /\ UNCHANGED <<market, inv>>

\* The time of an entry is over.
ExpireEntry(k) ==
  /\ cache[k].on
  /\ cache' = [cache EXCEPT ![k] = Absent]
  /\ UNCHANGED <<market, calls, inv>>

\* InvalidateUserCache, prefix by prefix, each under a lock of its own: the
\* dashboard first.  It may be the client's, whose suitable freelancers are
\* kept under a key of their order and stay.
InvalidateDashboard(user) ==
  /\ ~inv
  /\ IF user = "client"
       THEN cache' = [cache EXCEPT !["client"] = Absent] /\ UNCHANGED <<calls, inv>>
       ELSE /\ cache' = [k \in Keys |-> IF k = "dashboard" THEN Absent ELSE [cache[k] EXCEPT !.born = "new"]]
            /\ calls' = [c \in Calls |-> [calls[c] EXCEPT !.born = "new"]]
            /\ inv' = TRUE
  /\ UNCHANGED market

\* What is still there, and was not made meanwhile, is from before; what is
\* being made races.
Invalidated(e) == IF e.on /\ e.born = "new" THEN [e EXCEPT !.born = "before"] ELSE e
Overtaken(r) == IF r.pc \in {"idle", "done"} \/ r.kind # "dashboard" THEN r ELSE [r EXCEPT !.born = "racing"]

Invalidate(kept) ==
  /\ inv
  /\ cache' = [k \in Keys |-> IF k \in {"client", "suitable"} THEN kept[k] ELSE Invalidated(kept[k])]
  /\ calls' = [c \in Calls |-> Overtaken(calls[c])]
  /\ inv' = FALSE
  /\ UNCHANGED market

\* Mutant of InvalidateRecommendations: only dashboards are dropped.
InvalidateRecommendations_Not == Invalidate(cache)

InvalidateRecommendations == Invalidate([cache EXCEPT !["recommendations"] = Absent])

-----------------------------------------------------------------------------
Next ==
  \/ \E o \in Orders : Publish(o) \/ Answer(o) \/ Close(o)
  \/ \E c \in Calls :
       \/ \E kind \in Kinds, limit \in Limits : Begin(c, kind, limit)
       \/ GetDashboardData(c) \/ Cached(c) \/ Keep(c) \/ Details(c)
       \/ Popular(c) \/ Fallback(c) \/ Refill(c) \/ StreamRefill(c)
       \/ \E ok \in BOOLEAN :
            \/ Reads(c, ok) \/ LoadProfile(c, ok) \/ ListOpen(c, ok) \/ ListMyProposals(c, ok)
            \/ StreamPopular(c, ok) \/ StreamFallback(c, ok)
       \/ FindSuitable(c) \/ FindSuitableFreelancers(c) \/ StreamFindSuitableFreelancers(c)
       \/ \E reply \in PlainReplies : AskAI(c, reply)
       \/ \E reply \in StreamReplies : StreamAskAI(c, reply)
       \/ Cut(c) \/ HandlerFallback(c)
  \/ \E k \in Keys : ExpireEntry(k)
  \/ \E user \in {"client", "freelancer"} : InvalidateDashboard(user)
  \/ InvalidateRecommendations

Spec == Init /\ [][Next]_vars

-----------------------------------------------------------------------------
(***************************************************************************)
(* Properties                                                              *)
(***************************************************************************)

\* What the service recommends is worth a look: no more than was asked for, or
\* than List reads if it was asked for none, and nothing that the freelancer had
\* answered before asking, whichever list it comes from, unless the AI named
\* it of its own accord; except when the freelancer's proposals could not be
\* read, and in the handler's own fallback, which does not ask
\* (RecommendRelevantOrders, StreamRecommendRelevantOrders).
OfferIsNew ==
  \A c \in Calls :
    LET r == calls[c] IN
    (r.pc = "done" /\ r.kind \in {"plain", "stream"}) =>
      /\ Cardinality(r.result) <= Rows(r.limit)
      /\ (r.sure /\ r.source # "handler") => r.result \cap r.before \subseteq r.strange

\* A plain request that had something to choose from offers something, even
\* if the AI fails, everything closes meanwhile, or it asked for none:
\* "никогда не возвращаем пустой список".  A negative limit is an error.
NeverEmpty ==
  \A c \in Calls :
    LET r == calls[c] IN
    (r.pc = "done" /\ r.kind = "plain" /\ r.source # "error" /\ r.list # {})
    => r.result # {}

\* An invalidation takes hold: unless it was being made meanwhile, nothing
\* that was recommended before is in the freelancer's caches
\* (InvalidateUserCache).
InvalidationTakes == \A k \in Keys : cache[k].on => cache[k].born # "before"

=============================================================================
