-------------------------- MODULE RecommendProofs --------------------------
(***************************************************************************)
(* Recommendations for any requests, orders, skills, limits and scores.    *)
(***************************************************************************)
EXTENDS Recommend, FiniteSetTheorems, TLAPS

Sources == {"none", "popular", "ai", "net", "handler", "error"}
Births == {"new", "before", "racing"}

\* Where a request has nothing to answer with yet; where it has chosen, and
\* where it has still to.
Early == {"reads", "cached", "profile", "list", "mine", "popular", "ai", "fallback", "handler"}
Chosen == {"refill", "cut"}
Choosing == {"ai", "fallback"} \cup Chosen
Pcs == {"idle", "done", "keep", "details"} \cup Early \cup Chosen

Request == [pc : Pcs, kind : Kinds, limit : Int, list : SUBSET Orders, known : SUBSET Orders,
            result : SUBSET (Orders \cup {Foreign}),
            strange : SUBSET (Orders \cup {Foreign}), some : BOOLEAN,
            before : SUBSET Orders, sure : BOOLEAN, source : Sources, born : Births]

TypeOK ==
  /\ open \subseteq Orders /\ closed \subseteq Orders /\ answered \subseteq Orders
  /\ calls \in [Calls -> Request]
  /\ cache \in [Keys -> [on : BOOLEAN, some : BOOLEAN, born : Births]]
  /\ inv \in BOOLEAN

\* From reading the proposals to the answer, nothing that was answered before
\* is among what a request may choose from, or has chosen but for what the AI
\* named of its own accord.
Filters(r) ==
  r.pc \in {"popular"} \cup Choosing /\ r.sure =>
    /\ r.before \subseteq r.known
    /\ r.list \cap r.before = {}
    /\ r.result \cap r.before \subseteq r.strange

\* A request that has something to choose from does not answer with nothing.
Chooses(r) ==
  /\ r.pc \in Early => r.result = {}
  /\ r.pc \in {"reads", "cached", "profile", "list", "popular"} => r.list = {}
  /\ r.pc = "handler" => r.kind = "plain" /\ r.list = {}
  /\ r.pc \in Choosing => r.list # {}
  /\ r.pc = "refill" => r.result # {} /\ Cardinality(r.result) < r.limit
  /\ r.pc \notin {"idle", "done"} => r.kind # "suitable"

\* What OfferIsNew and NeverEmpty say of a request.
NewOffer(r) ==
  r.pc = "done" /\ r.kind \in {"plain", "stream"} =>
    /\ Cardinality(r.result) <= Rows(r.limit)
    /\ r.sure /\ r.source # "handler" => r.result \cap r.before \subseteq r.strange
NotEmpty(r) ==
  r.pc = "done" /\ r.kind = "plain" /\ r.source # "error" /\ r.list # {} => r.result # {}

Good(r) == Filters(r) /\ Chooses(r) /\ NewOffer(r) /\ NotEmpty(r) /\ r.born # "before"

Sound == \A c \in Calls : Good(calls[c]) /\ calls[c].before \subseteq answered

\* Nothing comes from before an invalidation; while one is under way, a
\* dashboard is kept only if it races with it.
Fresh ==
  /\ \A k \in Keys : cache[k].born # "before"
  /\ inv => (cache["dashboard"].on => cache["dashboard"].born = "racing")

IInv == TypeOK /\ Sound /\ Fresh

-----------------------------------------------------------------------------
\* Any n of a finite set are at most n of its members, and some if there are.
LEMMA Taken ==
  ASSUME NEW S, IsFiniteSet(S), NEW n \in Nat, NEW T \in Take(S, n)
  PROVE  /\ T \subseteq S /\ IsFiniteSet(T)
         /\ Cardinality(T) \in Nat /\ Cardinality(T) <= n
         /\ S # {} /\ n # 0 => T # {}
<1>1. T \subseteq S /\ Cardinality(T) = (IF Cardinality(S) <= n THEN Cardinality(S) ELSE n)
  BY DEF Take
<1>2. IsFiniteSet(T) /\ Cardinality(T) \in Nat /\ Cardinality(S) \in Nat
  BY <1>1, FS_Subset, FS_CardinalityType
<1>3. S # {} => Cardinality(S) # 0
  BY FS_EmptySet
<1>4. T = {} => Cardinality(T) = 0
  BY FS_EmptySet
<1> QED
  BY <1>1, <1>2, <1>3, <1>4

\* A ranking of at most n takes at most n, out of the set.
LEMMA RankedTaken ==
  ASSUME NEW S, IsFiniteSet(S), NEW n \in Nat, NEW T \in Ranked(S, n)
  PROVE  /\ T \subseteq S /\ IsFiniteSet(T)
         /\ Cardinality(T) \in Nat /\ Cardinality(T) <= n
<1>1. CASE T \in Take(S, n)
  BY <1>1, Taken
<1>2. CASE T = {}
  BY <1>2, FS_EmptySet
<1> QED
  BY <1>1, <1>2 DEF Ranked

\* Orders are finitely many, and so is what a request may answer with.
LEMMA FewOrders ==
  ASSUME NEW S \in SUBSET (Orders \cup {Foreign})
  PROVE  IsFiniteSet(S) /\ Cardinality(S) \in Nat
<1>1. IsFiniteSet(Orders \cup {Foreign})
  BY RecommendAssumption, FS_AddElement
<1> QED
  BY <1>1, FS_Subset, FS_CardinalityType

\* The most that are given is a number like any that may be asked for.
LEMMA MostIsANumber == Most \in Int
  BY RecommendAssumption

\* Whatever number is asked for, List reads some rows, and a loop that adds
\* before it looks adds no more.
LEMMA Numbers ==
  ASSUME NEW n \in Int
  PROVE  /\ Rows(n) \in Nat \ {0} /\ Enough(n) \in Nat \ {0}
         /\ Enough(n) <= Rows(n) /\ n <= Rows(n)
  BY RecommendAssumption DEF Rows, Enough

\* Nothing is within any limit.
LEMMA NothingIsFew ==
  ASSUME NEW n \in Int
  PROVE  Cardinality({}) <= Rows(n)
<1>1. Cardinality({}) = 0
  BY FS_EmptySet
<1> QED
  BY <1>1, Numbers

\* A request may go to any state that is good and knows no later answers.
LEMMA Goes ==
  ASSUME IInv, NEW c \in Calls, NEW x \in Request, Good(x), x.before \subseteq answered,
         Only(c, x)
  PROVE  IInv'
<1>1. calls' = [calls EXCEPT ![c] = x] /\ UNCHANGED <<market, store>>
  BY DEF Only, Put
<1>2. calls' \in [Calls -> Request]
  BY <1>1 DEF IInv, TypeOK
<1>3. TypeOK'
  BY <1>1, <1>2 DEF IInv, TypeOK, market, store
<1>4. Sound'
  BY <1>1 DEF IInv, TypeOK, Sound, market
<1>5. Fresh'
  BY <1>1 DEF IInv, Fresh, store
<1> QED
  BY <1>3, <1>4, <1>5 DEF IInv

\* The service's answer: few, new, and something if there was a choice.
LEMMA AnswerIsGood ==
  ASSUME NEW r \in Request, r.born # "before", r.kind # "suitable",
         NEW ids \in SUBSET (Orders \cup {Foreign}), NEW source \in {"none", "popular", "ai", "net"},
         Cardinality(ids) <= Rows(r.limit),
         r.sure => ids \cap r.before \subseteq r.strange,
         r.kind = "plain" /\ r.list # {} => ids # {}
  PROVE  LET x == Answered(r, ids, source)
         IN  x \in Request /\ Good(x) /\ x.before = r.before
<1> DEFINE x == Answered(r, ids, source)
<1>1. x \in Request
  BY DEF Answered, Request, Pcs, Sources, Early
<1>2. /\ x.result = ids /\ x.sure = r.sure /\ x.before = r.before /\ x.kind = r.kind
      /\ x.source = source /\ x.born = r.born /\ x.limit = r.limit
      /\ x.strange = r.strange \cap ids
      /\ x.list = (IF r.kind = "plain" THEN r.list ELSE {})
      /\ x.pc = (CASE r.kind = "dashboard" -> "keep"
                   [] r.kind = "plain" /\ ids = {} -> "handler"
                   [] OTHER -> "done")
  BY DEF Answered, Request
<1> HIDE DEF x
<1>3. Filters(x)
  BY <1>2 DEF Filters, Choosing, Chosen
<1>4. Chooses(x)
  BY <1>2 DEF Chooses, Choosing, Chosen, Early
<1>5. NewOffer(x)
  BY <1>2 DEF NewOffer
<1>6. NotEmpty(x)
  BY <1>2 DEF NotEmpty
<1> QED
  BY <1>1, <1>2, <1>3, <1>4, <1>5, <1>6 DEF Good, x

\* A failure ends a request, or leaves the dashboard without.
LEMMA FailureIsGood ==
  ASSUME NEW r \in Request, Good(r), r.pc \in {"profile", "list", "cut"}
  PROVE  Failed(r) \in Request /\ Good(Failed(r)) /\ Failed(r).before \subseteq r.before
<1>1. Recommended(FALSE, r.born) \in Request
  BY MostIsANumber DEF Recommended, Request, Idle, Pcs, Kinds, Sources, Births
<1>2. Recommended(FALSE, r.born).before = {} /\ Good(Recommended(FALSE, r.born))
  BY DEF Good, Recommended, Idle, Filters, Chooses, NewOffer, NotEmpty, Early, Choosing, Chosen
<1>3. CASE r.kind = "dashboard"
  BY <1>1, <1>2, <1>3 DEF Failed
<1>4. CASE r.kind # "dashboard"
  <2> DEFINE x == [r EXCEPT !.pc = "done", !.source = "error", !.known = {}, !.result = {}, !.strange = {}]
  <2>1. x \in Request
    BY DEF Request, Pcs, Sources
  <2>2. /\ x.pc = "done" /\ x.source = "error" /\ x.result = {} /\ x.before = r.before
        /\ x.born = r.born /\ x.limit = r.limit /\ r.limit \in Int
    BY DEF Request
  <2> HIDE DEF x
  <2>4. Good(x)
    BY <2>2, NothingIsFew DEF Good, Filters, Chooses, NewOffer, NotEmpty, Early, Choosing, Chosen
  <2> QED
    BY <1>4, <2>1, <2>2, <2>4 DEF Failed, x
<1> QED
  BY <1>3, <1>4

-----------------------------------------------------------------------------
\* An idle request has nothing wrong to offer.
LEMMA IdleIsGood == Idle \in Request /\ Good(Idle) /\ Idle.before = {}
  BY MostIsANumber DEF Idle, Request, Pcs, Kinds, Sources, Births, Good, Filters, Chooses, NewOffer, NotEmpty,
     Early, Choosing, Chosen

\* Requests that begin, and those for freelancers.
LEMMA Beginnings ==
  ASSUME IInv, NEW c \in Calls,
         \/ \E kind \in Kinds, limit \in Limits : Begin(c, kind, limit)
         \/ GetDashboardData(c)
         \/ FindSuitableFreelancers(c) \/ StreamFindSuitableFreelancers(c)
  PROVE  IInv'
<1>1. ASSUME NEW kind \in {"plain", "stream"}, NEW n \in Int, Only(c, Ask(kind, n)) PROVE IInv'
  <2>1. Ask(kind, n) \in Request /\ Good(Ask(kind, n)) /\ Ask(kind, n).before \subseteq answered
    BY DEF IInv, TypeOK, Ask, Idle, Request, Pcs, Kinds, Sources, Births, Good, Filters, Chooses,
       NewOffer, NotEmpty, Early, Choosing, Chosen
  <2> QED
    BY <1>1, <2>1, Goes
<1>2. CASE GetDashboardData(c)
  <2> DEFINE x == [Ask("dashboard", Most) EXCEPT !.pc = "reads"]
  <2>1. x \in Request /\ Good(x) /\ x.before \subseteq answered
    BY MostIsANumber DEF IInv, TypeOK, Ask, Idle, Request, Pcs, Kinds, Sources, Births, Good, Filters, Chooses,
       NewOffer, NotEmpty, Early, Choosing, Chosen
  <2>2. Only(c, x)
    BY <1>2 DEF GetDashboardData, Only
  <2> QED
    BY <2>1, <2>2, Goes
<1>3. ASSUME NEW reply, Suited(c, reply) PROVE IInv'
  <2> DEFINE x == [Idle EXCEPT !.pc = "done", !.kind = "suitable", !.some = (reply # {})]
  <2>1. x \in Request /\ Good(x) /\ x.before \subseteq answered
    BY MostIsANumber DEF Idle, Request, Pcs, Kinds, Sources, Births, Good, Filters, Chooses,
       NewOffer, NotEmpty, Early, Choosing, Chosen
  <2> QED
    BY <1>3, <2>1, Goes DEF Suited
<1>4. ASSUME NEW kind \in Kinds, NEW limit \in Limits, Begin(c, kind, limit) PROVE IInv'
  <2>1. (IF limit > Most THEN Most ELSE limit) \in Int
    BY RecommendAssumption
  <2> QED
    BY <1>1, <1>4, <2>1 DEF Begin
<1> QED
  BY <1>2, <1>3, <1>4 DEF FindSuitableFreelancers, StreamFindSuitableFreelancers

\* Up to the list of open orders.
LEMMA Reading ==
  ASSUME IInv, NEW c \in Calls, NEW ok \in BOOLEAN,
         Reads(c, ok) \/ Cached(c) \/ LoadProfile(c, ok) \/ ListOpen(c, ok)
  PROVE  IInv'
<1> DEFINE r == calls[c]
<1>r. r \in Request /\ Good(r) /\ r.before \subseteq answered
  BY DEF IInv, TypeOK, Sound
<1>1. ASSUME NEW pc \in {"cached", "profile", "list"}, r.pc \in {"reads", "cached", "profile"},
             Only(c, [r EXCEPT !.pc = pc])
      PROVE  IInv'
  <2> DEFINE x == [r EXCEPT !.pc = pc]
  <2>1. x \in Request
    BY <1>r DEF Request, Pcs, Early
  <2>2. /\ x.pc = pc /\ x.result = r.result /\ x.list = r.list
        /\ x.before = r.before /\ x.born = r.born /\ x.kind = r.kind
    BY <1>r DEF Request
  <2> HIDE DEF x
  <2>3. Good(x)
    BY <1>1, <1>r, <2>2 DEF Good, Filters, Chooses, NewOffer, NotEmpty, Early, Choosing, Chosen
  <2> QED
    BY <1>1, <1>r, <2>1, <2>2, <2>3, Goes DEF x
<1>2. ASSUME r.pc \in {"profile", "list"}, Only(c, Failed(r)) PROVE IInv'
  BY <1>2, <1>r, FailureIsGood, Goes
<1>3. CASE Reads(c, ok)
  BY <1>1, <1>3, IdleIsGood, Goes DEF Reads
<1>4. CASE Cached(c)
  <2> DEFINE e == cache["recommendations"]
             x == Recommended(e.some, e.born)
  <2>1. e.some \in BOOLEAN /\ e.born \in Births /\ e.born # "before"
    BY DEF IInv, TypeOK, Fresh, Keys
  <2>2. x \in Request /\ Good(x) /\ x.before = {}
    BY <2>1, MostIsANumber DEF Recommended, Idle, Request, Pcs, Kinds, Sources, Births, Good, Filters, Chooses,
       NewOffer, NotEmpty, Early, Choosing, Chosen
  <2>3. CASE e.on
    BY <1>4, <2>2, <2>3, Goes DEF Cached
  <2>4. CASE ~e.on
    BY <1>1, <1>4, <2>4 DEF Cached
  <2> QED
    BY <2>3, <2>4
<1>5. CASE LoadProfile(c, ok)
  BY <1>1, <1>2, <1>5 DEF LoadProfile
<1>6. CASE ListOpen(c, ok)
  <2>1. PICK list \in Take(open, Rows(Factor * r.limit)) :
          Only(c, CASE ~ok -> Failed(r)
                    [] ok /\ list = {} /\ r.kind # "stream" -> Answered(r, {}, "none")
                    [] OTHER -> [r EXCEPT !.pc = "mine", !.list = list])
    BY <1>6 DEF ListOpen
  <2>2. list \subseteq Orders /\ r.pc = "list"
    BY <1>6 DEF IInv, TypeOK, ListOpen, Take
  <2>3. CASE ~ok
    BY <1>2, <2>1, <2>2, <2>3
  <2>4. CASE ok /\ list = {} /\ r.kind # "stream"
    <3>1. r.kind # "suitable" /\ r.born # "before"
      BY <1>r, <2>2 DEF Good, Chooses
    <3>2. r.list = {} /\ r.limit \in Int
      BY <1>r, <2>2 DEF Good, Chooses, Request
    <3>3. Cardinality({}) <= Rows(r.limit)
      BY <3>2, NothingIsFew
    <3> DEFINE x == Answered(r, {}, "none")
    <3>4. x \in Request /\ Good(x) /\ x.before = r.before
      BY <1>r, <3>1, <3>2, <3>3, AnswerIsGood
    <3> QED
      BY <1>r, <2>1, <2>4, <3>4, Goes
  <2>5. CASE ok /\ ~(list = {} /\ r.kind # "stream")
    <3> DEFINE x == [r EXCEPT !.pc = "mine", !.list = list]
    <3>1. x \in Request
      BY <1>r, <2>2 DEF Request, Pcs, Early
    <3>2. x.pc = "mine" /\ x.result = r.result /\ x.before = r.before /\ x.born = r.born /\ x.kind = r.kind
      BY <1>r DEF Request
    <3>3. Only(c, x)
      BY <2>1, <2>5
    <3> HIDE DEF x
    <3>4. Good(x)
      BY <1>r, <2>2, <3>2 DEF Good, Filters, Chooses, NewOffer, NotEmpty, Early, Choosing, Chosen
    <3> QED
      BY <1>r, <3>1, <3>2, <3>3, <3>4, Goes
  <2> QED
    BY <2>3, <2>4, <2>5
<1> QED
  BY <1>3, <1>4, <1>5, <1>6

\* What the freelancer has answered is left out of what is chosen from.
LEMMA Listing ==
  ASSUME IInv, NEW c \in Calls, NEW ok \in BOOLEAN, ListMyProposals(c, ok)
  PROVE  IInv'
<1> DEFINE r == calls[c]
           known == IF ok THEN answered ELSE {}
           pc == IF r.list \ known = {} THEN "popular" ELSE "ai"
           x == [r EXCEPT !.known = known, !.sure = ok, !.list = @ \ known, !.pc = pc]
<1>1. r \in Request /\ Good(r) /\ r.before \subseteq answered /\ answered \subseteq Orders
  BY DEF IInv, TypeOK, Sound
<1>2. r.pc = "mine" /\ Only(c, x)
  BY DEF ListMyProposals
<1>3. x \in Request
  BY <1>1 DEF Request, Pcs, Early
<1>4. /\ x.known = known /\ x.sure = ok /\ x.list = r.list \ known /\ x.pc = pc
      /\ x.before = r.before /\ x.result = r.result /\ x.kind = r.kind /\ x.born = r.born
  BY <1>1 DEF Request
<1>5. r.result = {} /\ r.kind # "suitable" /\ r.born # "before"
  BY <1>1, <1>2 DEF Good, Chooses, Early
<1> HIDE DEF x
<1>6. Filters(x)
  BY <1>1, <1>4, <1>5 DEF Filters
<1>7. Chooses(x)
  BY <1>4, <1>5 DEF Chooses, Early, Choosing, Chosen
<1>8. NewOffer(x) /\ NotEmpty(x)
  BY <1>4 DEF NewOffer, NotEmpty
<1> QED
  BY <1>1, <1>2, <1>3, <1>4, <1>5, <1>6, <1>7, <1>8, Goes DEF Good

\* The first few of a list that leaves out what is known are new and not too
\* many; or else the request goes where it would otherwise.
LEMMA Offering ==
  ASSUME IInv, NEW c \in Calls, NEW q \in Request, q.before \subseteq answered,
         q.born # "before", q.kind # "suitable",
         NEW orders \in SUBSET Orders, NEW known, q.sure => q.before \subseteq known,
         NEW other \in Request, Good(other), other.before \subseteq answered,
         Offered(c, q, orders, known, other)
  PROVE  IInv'
<1>0. PICK list \in Ranked(orders, Rows(q.limit)) :
        \E few \in Take(list \ known, Enough(q.limit)) :
          Only(c, IF few # {} THEN Answered(q, few, "popular") ELSE other)
  BY DEF Offered
<1>1. PICK few \in Take(list \ known, Enough(q.limit)) :
        Only(c, IF few # {} THEN Answered(q, few, "popular") ELSE other)
  BY <1>0
<1>2. /\ Rows(q.limit) \in Nat /\ Enough(q.limit) \in Nat /\ Enough(q.limit) <= Rows(q.limit)
  BY Numbers DEF Request
<1>3. IsFiniteSet(orders)
  BY FewOrders
<1>4. list \subseteq orders /\ IsFiniteSet(list)
  BY <1>2, <1>3, RankedTaken
<1>5. IsFiniteSet(list \ known)
  BY <1>4, FS_Subset
<1>6. few \subseteq list \ known /\ Cardinality(few) \in Nat /\ Cardinality(few) <= Enough(q.limit)
  BY <1>2, <1>5, Taken
<1>7. CASE few # {}
  <2>1. few \in SUBSET (Orders \cup {Foreign}) /\ Cardinality(few) <= Rows(q.limit)
    BY <1>2, <1>4, <1>6
  <2>2. q.sure => few \cap q.before \subseteq q.strange
    BY <1>6
  <2> DEFINE x == Answered(q, few, "popular")
  <2>3. x \in Request /\ Good(x) /\ x.before = q.before
    BY <1>7, <2>1, <2>2, AnswerIsGood
  <2> QED
    BY <1>1, <1>7, <2>3, Goes
<1>8. CASE few = {}
  BY <1>1, <1>8, Goes
<1> QED
  BY <1>7, <1>8

\* It goes to an empty answer where that is one: there was no choice, or the
\* request is a stream.
LEMMA NothingIsGood ==
  ASSUME NEW q \in Request, q.born # "before", q.kind # "suitable",
         q.kind = "plain" => q.list = {}
  PROVE  Nothing(q) \in Request /\ Good(Nothing(q)) /\ Nothing(q).before = q.before
<1>1. Cardinality({}) <= Rows(q.limit)
  BY NothingIsFew DEF Request
<1> QED
  BY <1>1, AnswerIsGood DEF Nothing

\* The lists that stand in for the AI.
LEMMA StandIns ==
  ASSUME IInv, NEW c \in Calls, NEW ok \in BOOLEAN,
         Popular(c) \/ StreamPopular(c, ok) \/ Fallback(c) \/ StreamFallback(c, ok)
  PROVE  IInv'
<1> DEFINE r == calls[c]
<1>1. r \in Request /\ Good(r) /\ r.before \subseteq answered /\ answered \subseteq Orders
  BY DEF IInv, TypeOK, Sound
<1>2. r.kind # "suitable" /\ r.born # "before" /\ r.pc \in {"popular", "fallback"}
  BY <1>1 DEF Good, Chooses, Popular, StreamPopular, Fallback, StreamFallback
<1>3. r.sure => r.before \subseteq r.known
  BY <1>1, <1>2 DEF Good, Filters, Choosing
<1>4. open \in SUBSET Orders /\ open \cap Matching \in SUBSET Orders /\ BySkill \in SUBSET Orders
  BY DEF IInv, TypeOK, BySkill
<1>5. CASE Popular(c)
  <2>1. r.list = {} /\ Offered(c, r, open, r.known, Nothing(r))
    BY <1>1, <1>5 DEF Popular, Good, Chooses
  <2>2. Nothing(r) \in Request /\ Good(Nothing(r)) /\ Nothing(r).before \subseteq answered
    BY <1>1, <1>2, <2>1, NothingIsGood
  <2> QED
    BY <1>1, <1>2, <1>3, <1>4, <2>1, <2>2, Offering
<1>6. CASE Fallback(c)
  <2> DEFINE x == [r EXCEPT !.pc = "cut"]
  <2>1. Offered(c, r, BySkill, r.known, x) /\ r.pc = "fallback"
    BY <1>6 DEF Fallback
  <2>2. x \in Request
    BY <1>1 DEF Request, Pcs, Chosen
  <2>3. /\ x.pc = "cut" /\ x.result = r.result /\ x.list = r.list /\ x.known = r.known
        /\ x.strange = r.strange /\ x.before = r.before /\ x.sure = r.sure /\ x.kind = r.kind
        /\ x.born = r.born
    BY <1>1 DEF Request
  <2> HIDE DEF x
  <2>4. Good(x)
    BY <1>1, <1>2, <2>1, <2>3 DEF Good, Filters, Chooses, NewOffer, NotEmpty, Early, Choosing, Chosen
  <2>5. x.before \subseteq answered
    BY <1>1, <2>3
  <2> QED
    BY <1>1, <1>2, <1>3, <1>4, <2>1, <2>2, <2>4, <2>5, Offering
<1>7. CASE StreamPopular(c, ok) \/ StreamFallback(c, ok)
  <2> DEFINE known == IF ok THEN answered ELSE {}
             q == [r EXCEPT !.sure = @ /\ ok]
  <2>1. PICK orders \in {open, open \cap Matching} : Offered(c, q, orders, known, Nothing(q))
    BY <1>7 DEF StreamPopular, StreamFallback, StreamOffered
  <2>2. /\ q \in Request /\ q.before = r.before /\ q.born = r.born /\ q.kind = r.kind
        /\ q.sure => ok
    BY <1>1 DEF Request
  <2>3. q.kind = "stream"
    BY <1>7, <2>2 DEF StreamPopular, StreamFallback, Streaming
  <2>4. q.sure => q.before \subseteq known
    BY <1>1, <2>2
  <2> HIDE DEF q, known
  <2>5. Nothing(q) \in Request /\ Good(Nothing(q)) /\ Nothing(q).before \subseteq answered
    BY <1>1, <1>2, <2>2, <2>3, NothingIsGood
  <2>6. orders \in SUBSET Orders /\ q.before \subseteq answered /\ q.born # "before" /\ q.kind # "suitable"
    BY <1>1, <1>2, <1>4, <2>2, <2>3
  <2> QED
    BY <2>1, <2>2, <2>4, <2>5, <2>6, Offering
<1> QED
  BY <1>5, <1>6, <1>7

\* Whichever of the ids that the AI names count, what was answered before is
\* among them only if it was not shown.
LEMMA Asking ==
  ASSUME IInv, NEW c \in Calls, NEW reply, reply.ids \subseteq Orders \cup {Foreign},
         Asked(c, reply)
  PROVE  IInv'
<1> DEFINE r == calls[c]
           ids == reply.ids
           pc == CASE ids # {} /\ Cardinality(ids) < r.limit -> "refill"
                   [] ids = {} /\ (reply.failed \/ r.limit > 0 \/ Streaming(c)) -> "fallback"
                   [] OTHER -> "cut"
           x == [r EXCEPT !.result = ids, !.strange = ids \ r.list, !.pc = pc]
<1>1. r \in Request /\ Good(r) /\ r.before \subseteq answered
  BY DEF IInv, TypeOK, Sound
<1>2. r.pc = "ai" /\ Only(c, x)
  BY DEF Asked
<1>3. pc \in {"fallback", "refill", "cut"} /\ (pc = "fallback" => ids = {})
      /\ (pc = "refill" => ids # {} /\ Cardinality(ids) < r.limit)
  OBVIOUS
<1> HIDE DEF pc
<1>5. x \in Request
  BY <1>1, <1>3 DEF Request, Pcs, Early, Chosen
<1>6. /\ x.pc = pc /\ x.result = ids /\ x.strange = ids \ r.list /\ x.list = r.list /\ x.known = r.known
      /\ x.before = r.before /\ x.sure = r.sure /\ x.kind = r.kind /\ x.born = r.born
      /\ x.limit = r.limit
  BY <1>1 DEF Request
<1> HIDE DEF x
<1>7. /\ r.sure => r.before \subseteq r.known /\ r.list \cap r.before = {}
      /\ r.list # {} /\ r.kind # "suitable" /\ r.born # "before"
  BY <1>1, <1>2 DEF Good, Filters, Chooses, Choosing
<1>8. Filters(x)
  BY <1>6, <1>7 DEF Filters
<1>9. Chooses(x)
  BY <1>3, <1>6, <1>7 DEF Chooses, Early, Choosing, Chosen
<1>10. NewOffer(x) /\ NotEmpty(x)
  BY <1>3, <1>6 DEF NewOffer, NotEmpty
<1> QED
  BY <1>1, <1>2, <1>5, <1>6, <1>7, <1>8, <1>9, <1>10, Goes DEF Good

\* Only ids that the AI names count.
LEMMA CountedAreNamed ==
  ASSUME NEW reply \in PlainReplies \cup StreamReplies
  PROVE  reply.ids \subseteq Orders \cup {Foreign}
<1>1. \A text, score : Counted(text, score) \subseteq DOMAIN score
  BY DEF Counted
<1>2. \A text, score : CountedOfStream(text, score) \subseteq DOMAIN score
  BY DEF CountedOfStream
<1>3. \A score \in Replied : DOMAIN score \subseteq Orders \cup {Foreign}
  BY DEF Replied
<1> QED
  BY <1>1, <1>2, <1>3 DEF PlainReplies, StreamReplies

\* Two finite sets together have at most as many members as they have apart.
LEMMA Together ==
  ASSUME NEW S \in SUBSET (Orders \cup {Foreign}), NEW T \in SUBSET (Orders \cup {Foreign}),
         NEW n \in Int, Cardinality(T) <= n - Cardinality(S)
  PROVE  Cardinality(S \cup T) <= n
<1>1. IsFiniteSet(S) /\ IsFiniteSet(T) /\ Cardinality(S) \in Nat /\ Cardinality(T) \in Nat
  BY FewOrders
<1>2. Cardinality(S \cup T) = Cardinality(S) + Cardinality(T) - Cardinality(S \cap T)
  BY <1>1, FS_Union
<1>3. Cardinality(S \cap T) \in Nat
  BY FewOrders
<1>4. Cardinality(S \cup T) \in Nat
  BY FewOrders
<1> QED
  BY <1>1, <1>2, <1>3, <1>4

\* What fills up is new, too, and so are the best of many and the safety net.
LEMMA Finishing ==
  ASSUME IInv, NEW c \in Calls, Refill(c) \/ StreamRefill(c) \/ Cut(c)
  PROVE  IInv'
<1> DEFINE r == calls[c]
<1>1. r \in Request /\ Good(r) /\ r.before \subseteq answered
  BY DEF IInv, TypeOK, Sound
<1>2. /\ r.kind # "suitable" /\ r.born # "before" /\ r.pc \in {"refill", "cut"} /\ r.list # {}
      /\ r.pc = "refill" => r.result # {} /\ Cardinality(r.result) < r.limit
  BY <1>1 DEF Good, Chooses, Chosen, Choosing, Refill, StreamRefill, Refilled, Cut
<1>3. r.sure => /\ r.before \subseteq r.known /\ r.list \cap r.before = {}
                /\ r.result \cap r.before \subseteq r.strange
  BY <1>1, <1>2 DEF Good, Filters, Choosing, Chosen
<1>4. /\ r.result \in SUBSET (Orders \cup {Foreign}) /\ r.list \in SUBSET Orders /\ r.limit \in Int
      /\ r.limit <= Rows(r.limit) /\ Enough(r.limit) <= Rows(r.limit)
      /\ Rows(r.limit) \in Nat /\ Enough(r.limit) \in Nat \ {0}
  BY <1>1, Numbers DEF Request
<1>5. ASSUME NEW S \in SUBSET Orders, Refilled(c, S) PROVE IInv'
  <2>1. PICK list \in Ranked(S, 2 * r.limit) :
          \E more \in Take(list \ (r.result \cup r.known), r.limit - Cardinality(r.result)) :
            Only(c, Answered(r, r.result \cup more, "ai"))
    BY <1>5 DEF Refilled
  <2>2. PICK more \in Take(list \ (r.result \cup r.known), r.limit - Cardinality(r.result)) :
          Only(c, Answered(r, r.result \cup more, "ai"))
    BY <2>1
  <2>3. r.result # {} /\ Cardinality(r.result) < r.limit /\ Cardinality(r.result) \in Nat
    BY <1>2, <1>4, <1>5, FewOrders DEF Refilled
  <2>4. IsFiniteSet(S) /\ 2 * r.limit \in Nat /\ r.limit - Cardinality(r.result) \in Nat
    BY <1>4, <2>3, FewOrders
  <2>5. list \subseteq S /\ IsFiniteSet(list)
    BY <2>4, RankedTaken
  <2>6. IsFiniteSet(list \ (r.result \cup r.known))
    BY <2>5, FS_Subset
  <2>7. more \subseteq list \ (r.result \cup r.known) /\ Cardinality(more) <= r.limit - Cardinality(r.result)
    BY <2>2, <2>4, <2>6, Taken
  <2>8. r.result \cup more \in SUBSET (Orders \cup {Foreign}) /\ r.result \cup more # {}
        /\ more \in SUBSET (Orders \cup {Foreign})
    BY <1>4, <2>3, <2>5, <2>7
  <2>9. Cardinality(r.result \cup more) <= r.limit /\ Cardinality(r.result \cup more) \in Nat
    BY <1>4, <2>7, <2>8, Together, FewOrders
  <2>10. Cardinality(r.result \cup more) <= Rows(r.limit)
    BY <1>4, <2>9
  <2>11. r.sure => (r.result \cup more) \cap r.before \subseteq r.strange
    BY <1>3, <2>7
  <2> DEFINE x == Answered(r, r.result \cup more, "ai")
  <2>12. x \in Request /\ Good(x) /\ x.before = r.before
    BY <1>1, <1>2, <2>8, <2>10, <2>11, AnswerIsGood
  <2> QED
    BY <1>1, <2>2, <2>12, Goes
<1>6. CASE Cut(c) /\ r.limit < 0
  <2>1. Only(c, Failed(r)) /\ r.pc = "cut"
    BY <1>6 DEF Cut
  <2> QED
    BY <1>1, <2>1, FailureIsGood, Goes
<1>7. CASE Cut(c) /\ ~(r.limit < 0)
  <2>1. PICK best \in Take(r.result, r.limit), net \in Take(r.list, Enough(r.limit)) :
          Only(c, IF best # {} \/ Streaming(c) THEN Answered(r, best, "ai") ELSE Answered(r, net, "net"))
    BY <1>7 DEF Cut
  <2>2. IsFiniteSet(r.result) /\ IsFiniteSet(r.list) /\ r.limit \in Nat
    BY <1>4, <1>7, FewOrders
  <2>3. best \subseteq r.result /\ Cardinality(best) \in Nat /\ Cardinality(best) <= r.limit
    BY <2>2, Taken
  <2>4. net \subseteq r.list /\ Cardinality(net) \in Nat /\ Cardinality(net) <= Enough(r.limit) /\ net # {}
    BY <1>2, <1>4, <2>2, Taken
  <2>5. CASE best # {} \/ Streaming(c)
    <3> DEFINE x == Answered(r, best, "ai")
    <3>1. /\ best \in SUBSET (Orders \cup {Foreign}) /\ Cardinality(best) <= Rows(r.limit)
          /\ r.sure => best \cap r.before \subseteq r.strange
      BY <1>3, <1>4, <2>3
    <3>2. r.kind = "plain" => best # {}
      BY <2>5 DEF Streaming
    <3>3. x \in Request /\ Good(x) /\ x.before = r.before
      BY <1>1, <1>2, <3>1, <3>2, AnswerIsGood
    <3> QED
      BY <1>1, <2>1, <2>5, <3>3, Goes
  <2>6. CASE ~(best # {} \/ Streaming(c))
    <3> DEFINE x == Answered(r, net, "net")
    <3>1. /\ net \in SUBSET (Orders \cup {Foreign}) /\ Cardinality(net) <= Rows(r.limit)
          /\ r.sure => net \cap r.before \subseteq r.strange
      BY <1>3, <1>4, <2>4
    <3>2. x \in Request /\ Good(x) /\ x.before = r.before
      BY <1>1, <1>2, <2>4, <3>1, AnswerIsGood
    <3> QED
      BY <1>1, <2>1, <2>6, <3>2, Goes
  <2> QED
    BY <2>5, <2>6
<1>8. BySkill \in SUBSET Orders /\ open \cap Matching \in SUBSET Orders
  BY DEF BySkill, IInv, TypeOK
<1> QED
  BY <1>5, <1>6, <1>7, <1>8 DEF Refill, StreamRefill

\* The handler's list may be old news, and there was nothing to choose from.
LEMMA Handling ==
  ASSUME IInv, NEW c \in Calls, HandlerFallback(c)
  PROVE  IInv'
<1> DEFINE r == calls[c]
<1>1. r \in Request /\ Good(r) /\ r.before \subseteq answered
  BY DEF IInv, TypeOK, Sound
<1>2. PICK list \in Take(open, Rows(r.limit)) \cup {{}} :
        Only(c, [r EXCEPT !.pc = "done", !.result = list, !.source = "handler"])
  BY DEF HandlerFallback
<1> DEFINE x == [r EXCEPT !.pc = "done", !.result = list, !.source = "handler"]
<1>3. list \subseteq Orders /\ Cardinality(list) <= Rows(r.limit)
  <2>1. IsFiniteSet(open) /\ open \subseteq Orders /\ Rows(r.limit) \in Nat /\ r.limit \in Int
    BY <1>1, FewOrders, Numbers DEF IInv, TypeOK, Request
  <2> QED
    BY <2>1, Taken, NothingIsFew
<1>4. r.list = {} /\ r.kind = "plain" /\ r.born # "before"
  BY <1>1 DEF Good, Chooses, HandlerFallback
<1>5. x \in Request
  BY <1>1, <1>3 DEF Request, Pcs, Sources
<1>6. /\ x.pc = "done" /\ x.result = list /\ x.source = "handler" /\ x.list = r.list
      /\ x.before = r.before /\ x.kind = r.kind /\ x.born = r.born /\ x.limit = r.limit
  BY <1>1 DEF Request
<1> HIDE DEF x
<1>7. Good(x)
  BY <1>3, <1>4, <1>6 DEF Good, Filters, Chooses, NewOffer, NotEmpty, Early, Choosing, Chosen
<1> QED
  BY <1>1, <1>2, <1>5, <1>6, <1>7, Goes DEF x

-----------------------------------------------------------------------------
\* An entry may be kept if it is not from before, and during an invalidation
\* a dashboard only if it races with it.
LEMMA Keeps ==
  ASSUME IInv, NEW c \in Calls, NEW x \in Request, Good(x), x.before \subseteq answered,
         Put(c, x), UNCHANGED <<market, inv>>,
         cache' \in [Keys -> [on : BOOLEAN, some : BOOLEAN, born : Births]],
         \A k \in Keys : cache'[k] = cache[k] \/
           (cache'[k].born # "before" /\ (inv /\ k = "dashboard" => cache'[k].born = "racing"))
  PROVE  IInv'
<1>1. TypeOK' /\ Sound'
  BY DEF IInv, TypeOK, Sound, market, Put
<1>2. Fresh'
  BY DEF IInv, Fresh, Keys
<1> QED
  BY <1>1, <1>2 DEF IInv

\* An entry made after the invalidation is not one from before it.
LEMMA EntryIsFresh ==
  ASSUME TypeOK, NEW some \in BOOLEAN, NEW born \in Births, born # "before"
  PROVE  LET e == Entry(some, born)
         IN  /\ e \in [on : BOOLEAN, some : BOOLEAN, born : Births]
             /\ e.born # "before" /\ (inv => e.born = "racing")
  BY DEF TypeOK, Entry, Births

\* Writing to a cache keeps the invariant.
LEMMA Caching ==
  ASSUME IInv, NEW c \in Calls, Keep(c) \/ Details(c) \/ FindSuitable(c)
  PROVE  IInv'
<1> DEFINE r == calls[c]
<1>1. r \in Request /\ Good(r) /\ r.before \subseteq answered /\ TypeOK
  BY DEF IInv, TypeOK, Sound
<1>2. r.born \in Births /\ r.born # "before" /\ r.some \in BOOLEAN
  BY <1>1 DEF Good, Request
<1>3. cache \in [Keys -> [on : BOOLEAN, some : BOOLEAN, born : Births]]
  BY <1>1 DEF TypeOK
<1>4. Idle \in Request /\ Good(Idle) /\ Idle.before \subseteq answered
  BY IdleIsGood
<1>5. CASE Keep(c)
  <2> DEFINE some == r.result # {}
             x == Recommended(some, r.born)
             e == Entry(some, r.born)
  <2>1. x \in Request /\ Good(x) /\ x.before \subseteq answered
    BY <1>2, MostIsANumber DEF Recommended, Idle, Request, Pcs, Kinds, Sources, Births, Good, Filters, Chooses,
       NewOffer, NotEmpty, Early, Choosing, Chosen
  <2>2. /\ e \in [on : BOOLEAN, some : BOOLEAN, born : Births]
        /\ e.born # "before" /\ (inv => e.born = "racing")
    BY <1>1, <1>2, EntryIsFresh
  <2>3. Put(c, x) /\ cache' = [cache EXCEPT !["recommendations"] = e] /\ UNCHANGED <<market, inv>>
    BY <1>5 DEF Keep
  <2> HIDE DEF x, e
  <2> QED
    BY <1>3, <2>1, <2>2, <2>3, Keeps
<1>6. CASE Details(c)
  <2> DEFINE e == Entry(r.some, r.born)
  <2>1. /\ e \in [on : BOOLEAN, some : BOOLEAN, born : Births]
        /\ e.born # "before" /\ (inv => e.born = "racing")
    BY <1>1, <1>2, EntryIsFresh
  <2>2. Put(c, Idle) /\ cache' = [cache EXCEPT !["dashboard"] = e] /\ UNCHANGED <<market, inv>>
    BY <1>6 DEF Details
  <2> HIDE DEF e
  <2> QED
    BY <1>3, <1>4, <2>1, <2>2, Keeps
<1>7. CASE FindSuitable(c)
  <2>1. Kept \in [on : BOOLEAN, some : BOOLEAN, born : Births] /\ Kept.born # "before"
    BY DEF Kept, Births
  <2>2. PICK reply \in Replies(SuitableReply) :
          /\ Put(c, Idle)
          /\ cache' = [cache EXCEPT !["suitable"] = IF @.on \/ reply = {} THEN @ ELSE Kept, !["client"] = Kept]
          /\ UNCHANGED <<market, inv>>
    BY <1>7 DEF FindSuitable
  <2>3. /\ cache' \in [Keys -> [on : BOOLEAN, some : BOOLEAN, born : Births]]
        /\ \A k \in Keys : cache'[k] = cache[k] \/ (cache'[k] = Kept /\ k # "dashboard")
    BY <1>3, <2>1, <2>2 DEF Keys
  <2> QED
    BY <1>4, <2>1, <2>2, <2>3, Keeps
<1> QED
  BY <1>5, <1>6, <1>7

\* The market: what was answered stays answered.
LEMMA Trading ==
  ASSUME IInv, NEW o \in Orders, Publish(o) \/ Answer(o) \/ Close(o)
  PROVE  IInv'
<1>1. TypeOK'
  BY DEF IInv, TypeOK, Publish, Answer, Close, store
<1>2. Sound' /\ Fresh'
  BY DEF IInv, Sound, Fresh, Publish, Answer, Close, store
<1> QED
  BY <1>1, <1>2 DEF IInv

\* What is not there is new.
LEMMA AbsentIsFresh ==
  Absent \in [on : BOOLEAN, some : BOOLEAN, born : Births] /\ Absent.born = "new" /\ ~Absent.on
  BY DEF Absent, Births

\* So does an entry that runs out.
LEMMA Expiring ==
  ASSUME IInv, NEW k \in Keys, ExpireEntry(k)
  PROVE  IInv'
<1>1. TypeOK' /\ Sound'
  BY AbsentIsFresh DEF IInv, TypeOK, Sound, ExpireEntry, market
<1>2. Fresh'
  BY AbsentIsFresh DEF IInv, TypeOK, Fresh, ExpireEntry
<1> QED
  BY <1>1, <1>2 DEF IInv

\* A request stays good, whatever it is made before or after.
LEMMA Reborn ==
  ASSUME NEW r \in Request, Good(r), NEW born \in Births, born # "before"
  PROVE  LET x == [r EXCEPT !.born = born]
         IN  x \in Request /\ Good(x) /\ x.before = r.before
<1> DEFINE x == [r EXCEPT !.born = born]
<1>1. x \in Request
  BY DEF Request
<1>2. /\ x.pc = r.pc /\ x.kind = r.kind /\ x.list = r.list /\ x.known = r.known /\ x.result = r.result
      /\ x.before = r.before /\ x.sure = r.sure /\ x.source = r.source /\ x.born = born
      /\ x.limit = r.limit /\ x.strange = r.strange
  BY DEF Request
<1> HIDE DEF x
<1>3. Good(x)
  BY <1>2 DEF Good, Filters, Chooses, NewOffer, NotEmpty
<1> QED
  BY <1>1, <1>2, <1>3 DEF x

\* The dashboard is dropped first, so that none from before is left.
LEMMA Dropping ==
  ASSUME IInv, NEW user, InvalidateDashboard(user)
  PROVE  IInv'
<1>1. calls \in [Calls -> Request] /\ cache \in [Keys -> [on : BOOLEAN, some : BOOLEAN, born : Births]]
  BY DEF IInv, TypeOK
<1>2. CASE user = "client"
  <2>1. cache' = [cache EXCEPT !["client"] = Absent] /\ UNCHANGED <<calls, inv, market>>
    BY <1>2 DEF InvalidateDashboard
  <2>2. TypeOK' /\ Sound'
    BY <1>1, <2>1, AbsentIsFresh DEF IInv, TypeOK, Sound, market
  <2>3. Fresh'
    BY <1>1, <2>1, AbsentIsFresh DEF IInv, Fresh, Keys
  <2> QED
    BY <2>2, <2>3 DEF IInv
<1>3. CASE user # "client"
  <2>1. /\ cache' = [k \in Keys |-> IF k = "dashboard" THEN Absent ELSE [cache[k] EXCEPT !.born = "new"]]
        /\ calls' = [c \in Calls |-> [calls[c] EXCEPT !.born = "new"]]
        /\ inv' = TRUE /\ UNCHANGED market
    BY <1>3 DEF InvalidateDashboard
  <2>2. \A k \in Keys : /\ cache'[k] \in [on : BOOLEAN, some : BOOLEAN, born : Births]
                        /\ cache'[k].born = "new" /\ (k = "dashboard" => ~cache'[k].on)
    BY <1>1, <2>1, AbsentIsFresh DEF Births
  <2>3. \A c \in Calls : calls'[c] \in Request /\ Good(calls'[c]) /\ calls'[c].before = calls[c].before
    BY <1>1, <2>1, Reborn DEF IInv, Sound, Births
  <2>4. TypeOK'
    BY <2>1, <2>2, <2>3 DEF IInv, TypeOK, market
  <2>5. Sound'
    BY <2>1, <2>3 DEF IInv, Sound, market
  <2>6. Fresh'
    BY <2>2 DEF Fresh, Keys
  <2> QED
    BY <2>4, <2>5, <2>6 DEF IInv
<1> QED
  BY <1>2, <1>3

\* Then the recommendations go; a dashboard that is there has raced.
LEMMA Invalidating ==
  ASSUME IInv, InvalidateRecommendations
  PROVE  IInv'
<1> DEFINE kept == [cache EXCEPT !["recommendations"] = Absent]
<1>1. calls \in [Calls -> Request] /\ cache \in [Keys -> [on : BOOLEAN, some : BOOLEAN, born : Births]]
  BY DEF IInv, TypeOK
<1>2. /\ inv /\ inv' = FALSE /\ UNCHANGED market
      /\ cache' = [k \in Keys |-> IF k \in {"client", "suitable"} THEN kept[k] ELSE Invalidated(kept[k])]
      /\ calls' = [c \in Calls |-> Overtaken(calls[c])]
  BY DEF InvalidateRecommendations, Invalidate
<1>3. \A k \in Keys : /\ cache'[k] \in [on : BOOLEAN, some : BOOLEAN, born : Births]
                      /\ cache'[k].born # "before"
  <2>1. SUFFICES ASSUME NEW k \in Keys
                 PROVE  /\ cache'[k] \in [on : BOOLEAN, some : BOOLEAN, born : Births]
                        /\ cache'[k].born # "before"
    OBVIOUS
  <2>2. cache[k].born # "before" /\ (k = "dashboard" /\ cache[k].on => cache[k].born = "racing")
    BY <1>2 DEF IInv, Fresh
  <2>3. CASE k \in {"client", "suitable"}
    BY <1>1, <1>2, <2>2, <2>3
  <2>4. CASE k = "recommendations"
    BY <1>1, <1>2, <2>4, AbsentIsFresh DEF Invalidated
  <2>5. CASE k = "dashboard"
    BY <1>1, <1>2, <2>2, <2>5 DEF Invalidated
  <2> QED
    BY <2>3, <2>4, <2>5 DEF Keys
<1>4. \A c \in Calls : calls'[c] \in Request /\ Good(calls'[c]) /\ calls'[c].before = calls[c].before
  <2>1. ASSUME NEW c \in Calls
        PROVE  calls'[c] \in Request /\ Good(calls'[c]) /\ calls'[c].before = calls[c].before
    <3>1. calls[c] \in Request /\ Good(calls[c]) /\ calls'[c] = Overtaken(calls[c])
      BY <1>1, <1>2 DEF IInv, Sound
    <3>2. CASE calls'[c] = calls[c]
      BY <3>1, <3>2
    <3>3. CASE calls'[c] = [calls[c] EXCEPT !.born = "racing"]
      BY <3>1, <3>3, Reborn DEF Births
    <3> QED
      BY <3>1, <3>2, <3>3 DEF Overtaken
  <2> QED
    BY <2>1
<1>5. TypeOK'
  BY <1>2, <1>3, <1>4 DEF IInv, TypeOK, market
<1>6. Sound'
  BY <1>2, <1>4 DEF IInv, Sound, market
<1>7. Fresh'
  BY <1>2, <1>3 DEF Fresh
<1> QED
  BY <1>5, <1>6, <1>7 DEF IInv

-----------------------------------------------------------------------------
\* The invariant holds of empty caches.
LEMMA Starts == Init => IInv
<1> SUFFICES ASSUME Init PROVE IInv
  OBVIOUS
<1>1. TypeOK
  BY IdleIsGood, AbsentIsFresh DEF Init, TypeOK
<1>2. Sound
  BY IdleIsGood DEF Init, Sound
<1>3. Fresh
  BY AbsentIsFresh DEF Init, Fresh
<1> QED
  BY <1>1, <1>2, <1>3 DEF IInv

\* Every step keeps the invariant.
LEMMA Continues == IInv /\ [Next]_vars => IInv'
<1> SUFFICES ASSUME IInv, [Next]_vars PROVE IInv'
  OBVIOUS
<1>1. CASE UNCHANGED vars
  BY <1>1 DEF vars, IInv, TypeOK, Sound, Fresh
<1>2. ASSUME NEW c \in Calls, NEW reply \in PlainReplies \cup StreamReplies,
             AskAI(c, reply) \/ StreamAskAI(c, reply)
      PROVE  IInv'
  BY <1>2, Asking, CountedAreNamed DEF AskAI, StreamAskAI
<1> QED
  BY <1>1, <1>2, Trading, Beginnings, Reading, Listing, StandIns, Finishing, Handling, Caching,
     Expiring, Dropping, Invalidating DEF Next

\* Every request, market and cache keeps to its type.
THEOREM TypeCorrect == Spec => []TypeOK
<1>1. IInv => TypeOK
  BY DEF IInv
<1> QED
  BY <1>1, Starts, Continues, PTL DEF Spec

\* Whatever the AI names and whichever list steps in, no more is offered than
\* was asked for, and nothing that had been answered before asking but what the
\* AI names of its own accord.
THEOREM OffersAreNew == Spec => []OfferIsNew
<1>1. IInv => OfferIsNew
  BY DEF IInv, Sound, Good, NewOffer, OfferIsNew
<1> QED
  BY <1>1, Starts, Continues, PTL DEF Spec

\* A plain request that has something to choose from offers something.
THEOREM NeverOffersNothing == Spec => []NeverEmpty
<1>1. IInv => NeverEmpty
  BY DEF IInv, Sound, Good, NotEmpty, NeverEmpty
<1> QED
  BY <1>1, Starts, Continues, PTL DEF Spec

\* After an invalidation nothing from before is in the freelancer's caches,
\* but for what was being made meanwhile.
THEOREM InvalidationHolds == Spec => []InvalidationTakes
<1>1. IInv => InvalidationTakes
  BY DEF IInv, Fresh, InvalidationTakes
<1> QED
  BY <1>1, Starts, Continues, PTL DEF Spec

=============================================================================
