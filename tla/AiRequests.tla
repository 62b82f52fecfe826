----------------------------- MODULE AiRequests -----------------------------
(***************************************************************************)
(* A request to the AI, from the click to the last byte of its answer: the *)
(* handler's checks, the rows the service loads, the call of the provider, *)
(* whole or as a stream of chunks, what becomes of its reply, the summary  *)
(* that one operation saves, and the browser's reader of the stream.       *)
(*                                                                         *)
(* The operations differ in what they check, load and parse; one record of *)
(* each table below says how.  The two that rank lists (recommended orders *)
(* and suitable freelancers) are in Recommend.                             *)
(*                                                                         *)
(* A text is the sequence of its pieces 1..n, n and the sizes being the    *)
(* provider's; Breaks are the pieces that end a paragraph.  The JSON that  *)
(* ends some streams is no piece of it: Payload.  Two clocks run *)
(* against a request: the HTTP server writes nothing after WriteTimeout    *)
(* (30 s), the provider's client waits 60 s.                               *)
(***************************************************************************)
EXTENDS Integers, Sequences, FiniteSets, Selection

CONSTANTS
  Calls,        \* requests in progress at once
  Users,        \* accounts
  Role,         \* [Users -> {"client", "freelancer", "admin"}]
  Things,       \* orders, each with the conversation about it
  Client,       \* [Things -> Users]: the order's client
  Freelancer,   \* [Things -> Users]: the other side of its conversation
  Nothing,      \* an id with no row
  Starts,       \* bound: [Calls -> SUBSET (operations \X BOOLEAN)]: what a call may be
  Pieces,       \* bound: the longest text, in pieces
  Breaks,       \* the pieces that are blank lines
  Size,         \* [1..Pieces -> Nat]: their bytes
  FlushAt,      \* bufferFlushThreshold (20 bytes)
  MaxDelta      \* maxDeltaSize (200 bytes)

ASSUME AiAssumption ==
  /\ Role \in [Users -> {"client", "freelancer", "admin"}]
  /\ Client \in [Things -> Users] /\ Freelancer \in [Things -> Users]
  /\ Nothing \notin Things
  /\ Pieces \in Nat \ {0} /\ Breaks \subseteq 1..Pieces
  /\ Size \in [1..Pieces -> Nat \ {0}]
  /\ {FlushAt, MaxDelta} \subseteq Nat \ {0}

-----------------------------------------------------------------------------
(***************************************************************************)
(* The tables of operations.  A handler asks for a role and for an input:  *)
(* a body that must be valid, a loose one that may be missing, or an id.   *)
(***************************************************************************)
Anyone == {"client", "freelancer", "admin"}
ClientOrAdmin == {"client", "admin"}

Asks(roles, input) == [roles |-> roles, input |-> input]

DescriptionForm == Asks(ClientOrAdmin, "body")
SuggestionsForm == Asks(ClientOrAdmin, "body")
SkillsForm == Asks(ClientOrAdmin, "body")
BudgetForm == Asks(ClientOrAdmin, "body")
ImproveForm == Asks(ClientOrAdmin, "body")
ProfileForm == Asks(Anyone, "body")
PortfolioForm == Asks(Anyone, "body")
AssistantForm == Asks(Anyone, "body")
WelcomeForm == Asks(Anyone, "loose")
ProposalForm == Asks({"freelancer"}, "id")
FeedbackForm == Asks({"freelancer"}, "id")
PriceForm == Asks({"freelancer"}, "id")
QualityForm == Asks(Anyone, "id")
SummaryForm == Asks(Anyone, "id")
ChatForm == Asks(Anyone, "id")

Form ==
  [description |-> DescriptionForm, suggestions |-> SuggestionsForm, skills |-> SkillsForm,
   budget |-> BudgetForm, improve |-> ImproveForm, profile |-> ProfileForm,
   portfolio |-> PortfolioForm, assistant |-> AssistantForm, welcome |-> WelcomeForm,
   proposal |-> ProposalForm, feedback |-> FeedbackForm, price |-> PriceForm,
   quality |-> QualityForm, summary |-> SummaryForm, chat |-> ChatForm]

Ops == DOMAIN Form

\* The two answers of a portfolio request with a bad body: the stream's is
\* an error event, everyone else's is 400.
BadBody(op, stream) == IF op = "portfolio" /\ stream THEN "event" ELSE "400"

-----------------------------------------------------------------------------
(***************************************************************************)
(* What the service loads, and for whom: t is the thing named, u the user. *)
(* A missing profile, portfolio or list of requirements stops nobody.      *)
(***************************************************************************)
Found(t) == t \in Things

\* The order; the user's profile and portfolio if they are there.
ProposalLoad(u, t) == Found(t)
\* The order and the user's proposal for it, which may be missing.
FeedbackLoad(u, t, mine) == Found(t) /\ mine
\* The order, the freelancer's profile and the others' proposals.
PriceLoad(u, t, profile) == Found(t) /\ profile
\* The order, whose client the user must be.
QualityLoad(u, t) == Found(t) /\ Client[t] = u

\* Mutant of SummaryLoad: whose order it is is not asked.
SummaryLoad_NoOwner(u, t) == Found(t)

SummaryLoad(u, t) == Found(t) /\ Client[t] = u
\* The conversation, one of whose sides the user must be, and its messages.
ChatLoad(u, t) == Found(t) /\ u \in {Client[t], Freelancer[t]}

Loads(op, u, t, row) ==
  CASE op = "proposal" -> ProposalLoad(u, t)
    [] op = "feedback" -> FeedbackLoad(u, t, row)
    [] op = "price" -> PriceLoad(u, t, row)
    [] op = "quality" -> QualityLoad(u, t)
    [] op = "summary" -> SummaryLoad(u, t)
    [] op = "chat" -> ChatLoad(u, t)
    [] OTHER -> TRUE

-----------------------------------------------------------------------------
(***************************************************************************)
(* What becomes of a whole reply.  A reply is JSON, JSON wrapped in prose, *)
(* prose, empty, or an error; the result is the AI's answer, a substitute  *)
(* made without it, a value with nothing in it, or an error.               *)
(***************************************************************************)
Shapes == {"json", "wrapped", "prose"}
Replies == Shapes \cup {"empty", "error"}

\* The text as it came, trimmed.
AsText(reply) ==
  CASE reply = "error" -> "error" [] reply = "empty" -> "nothing" [] OTHER -> "ai"

DescriptionReply(reply) == AsText(reply)
ImproveReply(reply) == AsText(reply)
ProfileReply(reply) == AsText(reply)
PortfolioReply(reply) == AsText(reply)
AssistantReply(reply) == AsText(reply)
WelcomeReply(reply) == AsText(reply)
ProposalReply(reply) == AsText(reply)

\* Prose is the summary; there is nothing else in the answer then.
ChatReply(reply) == AsText(reply)

\* A text made from the order and the proposal, without the AI.
Substitute == "substitute"

SummaryReply(reply) == IF reply \in Shapes THEN "ai" ELSE Substitute
FeedbackReply(reply) == IF reply \in Shapes THEN "ai" ELSE Substitute

\* parseJSONFromText finds the object inside of the prose.
FromText(reply) ==
  CASE reply = "error" -> "error"
    [] reply \in {"json", "wrapped"} -> "ai"
    [] OTHER -> "nothing"

SuggestionsReply(reply) == FromText(reply)
BudgetReply(reply) == FromText(reply)

SkillsReply(reply) ==
  CASE reply = "error" -> "error" [] reply = "json" -> "ai" [] OTHER -> "nothing"
PriceReply(reply) ==
  CASE reply = "error" -> "error"
    [] reply \in {"json", "wrapped"} -> "ai"
    [] OTHER -> Substitute
QualityReply(reply) ==
  CASE reply = "error" -> "error" [] reply = "json" -> "ai" [] OTHER -> Substitute

Result(op, reply) ==
  CASE op = "description" -> DescriptionReply(reply) [] op = "suggestions" -> SuggestionsReply(reply)
    [] op = "skills" -> SkillsReply(reply) [] op = "budget" -> BudgetReply(reply)
    [] op = "improve" -> ImproveReply(reply) [] op = "profile" -> ProfileReply(reply)
    [] op = "portfolio" -> PortfolioReply(reply) [] op = "assistant" -> AssistantReply(reply)
    [] op = "welcome" -> WelcomeReply(reply) [] op = "proposal" -> ProposalReply(reply)
    [] op = "feedback" -> FeedbackReply(reply) [] op = "price" -> PriceReply(reply)
    [] op = "quality" -> QualityReply(reply) [] op = "summary" -> SummaryReply(reply)
    [] op = "chat" -> ChatReply(reply)

\* A stream of advice ends with a value parsed from the text as a whole,
\* although its prompt asks for an explanation first, and then for JSON.
PriceComplete(text) == IF text = "json" THEN "ai" ELSE Substitute
QualityComplete(text) == IF text = "json" THEN "ai" ELSE Substitute
Completes == {"price", "quality"}
Complete(op, text) ==
  CASE op = "price" -> PriceComplete(text)
    [] op = "quality" -> QualityComplete(text)
    [] OTHER -> "ai"

-----------------------------------------------------------------------------
VARIABLES
  calls,     \* the requests
  summary,   \* orders.ai_summary: the text, and the call that saved it
  edit       \* per thing: the ai_summary that a running UpdateOrder has read

aiVars == <<calls, summary, edit>>

Old == [by |-> Nothing, text |-> <<>>]
NoEdit == [on |-> FALSE, row |-> Old]

\* next is the number of pieces the provider has sent; acc what has been
\* handed to onDelta, shown what the reader of the stream has handed on.
Idle ==
  [pc |-> "idle", op |-> "chat", stream |-> FALSE, user |-> Nothing, thing |-> Nothing,
   mode |-> "deltas", shape |-> "prose", len |-> 1, next |-> 0,
   hasDelta |-> FALSE, buf |-> <<>>, acc |-> <<>>, shown |-> <<>>,
   result |-> "none", ended |-> "no", events |-> {}, status |-> 0,
   late |-> FALSE, cancelled |-> FALSE, browser |-> "none"]

AiInit ==
  /\ calls = [c \in Calls |-> Idle]
  /\ summary = [t \in Things |-> Old]
  /\ edit = [t \in Things |-> NoEdit]

Put(c, r) == calls' = [calls EXCEPT ![c] = r]
OnlyCall(c, r) == Put(c, r) /\ UNCHANGED <<summary, edit>>

Words(s) == At(s, {i \in 1..Len(s) : s[i] \notin Breaks})
UpTo(n) == [i \in 1..n |-> i]
Bytes(s) ==
  LET sum[n \in 0..Len(s)] == IF n = 0 THEN 0 ELSE sum[n - 1] + Size[s[n]] IN sum[Len(s)]
Short(n) == Bytes(UpTo(n)) <= MaxDelta

-----------------------------------------------------------------------------
(***************************************************************************)
(* The way to the browser.  Nothing that is written after the deadline     *)
(* arrives; the server learns of it, or of the browser's absence, and      *)
(* cancels the request's context.                                          *)
(***************************************************************************)
Arrives(r) == ~r.late /\ r.browser = "open"

\* A chunk is one event of the stream; its blank lines split it in the
\* browser, whose reader forgives lines without "data:".
Chunk(r, chunk) == [r EXCEPT !.shown = IF Arrives(r) THEN @ \o Words(chunk) ELSE @,
                             !.cancelled = @ \/ r.late]

\* The JSON of an event, which is no text.
Payload == 0

\* An event with a name.  The reader calls onError for "error"; the data of any
\* other event it takes for a piece of the text.
Event(r, kind) ==
  [r EXCEPT !.events = IF Arrives(r) THEN @ \cup {kind} ELSE @,
            !.shown = IF Arrives(r) /\ kind # "error" THEN Append(@, Payload) ELSE @,
            !.cancelled = @ \/ r.late]

\* onDelta: an operation that saves its text keeps the chunk first.
OnDelta(r, chunk) == Chunk([r EXCEPT !.acc = @ \o chunk], chunk)

\* The handler returns: the response ends, or is cut off.
Hangup(r) ==
  [r EXCEPT !.pc = "done",
            !.browser = IF @ # "open" THEN @ ELSE IF r.late THEN "broken" ELSE "finished"]

\* The answer of a request that is not a stream.
Respond(r, status) == Hangup([r EXCEPT !.status = IF Arrives(r) THEN status ELSE 0])

\* The service returns an error: a stream has sent its headers already.
Fail(r, status) ==
  LET failed == [r EXCEPT !.result = "error"] IN
  IF r.stream THEN Hangup(Event(failed, "error")) ELSE Respond(failed, status)

-----------------------------------------------------------------------------
(***************************************************************************)
(* The handler and the service                                             *)
(***************************************************************************)
Begin(c, op, stream, u, t) ==
  /\ calls[c].pc = "idle"
  /\ <<op, stream>> \in Starts[c]
  /\ \E mode \in {"deltas", "pieces", "whole"}, shape \in Shapes, n \in 1..Pieces :
       /\ ~stream => mode = "whole" /\ shape = "prose" /\ n = 1
       /\ OnlyCall(c, [Idle EXCEPT !.pc = "gate", !.op = op, !.stream = stream, !.user = u,
                                   !.thing = t, !.mode = mode, !.shape = shape, !.len = n,
                                   !.browser = "open"])

\* 401, 403 or 400 before anything is loaded; else a stream's headers.
Gate(c, known, valid) ==
  LET r == calls[c]
      form == Form[r.op]
  IN
  /\ r.pc = "gate"
  /\ OnlyCall(c,
       CASE ~known -> Respond(r, 401)
         [] known /\ Role[r.user] \notin form.roles -> Respond(r, 403)
         [] known /\ Role[r.user] \in form.roles /\ ~valid /\ form.input = "body" ->
              IF BadBody(r.op, r.stream) = "event"
                THEN Hangup(Event([r EXCEPT !.result = "error"], "error"))
                ELSE Respond(r, 400)
         [] OTHER -> [r EXCEPT !.pc = "load"])

\* 404 where the handler asks what the error is.
NotFound(op, t) ==
  IF <<Found(t), op>> \in {<<FALSE, "proposal">>, <<FALSE, "summary">>, <<TRUE, "feedback">>}
    THEN 404 ELSE 500

Load(c, row) ==
  LET r == calls[c] IN
  /\ r.pc = "load"
  /\ OnlyCall(c, IF Loads(r.op, r.user, r.thing, row)
                   THEN [r EXCEPT !.pc = "ai"]
                   ELSE Fail(r, NotFound(r.op, r.thing)))

\* A conversation with no messages is summarised without the AI.
EmptyChat(c) ==
  LET r == calls[c] IN
  /\ r.pc = "load" /\ r.op = "chat" /\ ChatLoad(r.user, r.thing)
  /\ OnlyCall(c, LET answered == [r EXCEPT !.result = "substitute"] IN
                 IF r.stream THEN Hangup(answered) ELSE Respond(answered, 200))

-----------------------------------------------------------------------------
(***************************************************************************)
(* The provider, whole replies                                             *)
(***************************************************************************)

\* chatCompletion returned; a summary is saved next.
Reply(c, reply) ==
  LET r == calls[c]
      result == Result(r.op, reply)
  IN
  /\ r.pc = "ai" /\ ~r.stream
  /\ r.cancelled => reply = "error"
  /\ OnlyCall(c, CASE result = "error" -> Fail(r, 500)
                   [] result # "error" /\ r.op = "summary" ->
                        [r EXCEPT !.pc = "save", !.result = result, !.ended = "all",
                                  !.acc = UpTo(r.len)]
                   [] OTHER -> Respond([r EXCEPT !.result = result, !.ended = "all"], 200))

-----------------------------------------------------------------------------
(***************************************************************************)
(* The provider, streams.  It sends its text as deltas that are followed   *)
(* by an event with the text as a whole, as pieces that are not JSON, or   *)
(* as one event only.                                                      *)
(***************************************************************************)
Streaming(c) == calls[c].pc = "ai" /\ calls[c].stream

\* The buffer goes out when it is long enough.
Buffered(r, pieces) ==
  LET buf == r.buf \o pieces IN
  IF Bytes(buf) >= FlushAt
    THEN OnDelta([r EXCEPT !.buf = <<>>], buf)
    ELSE [r EXCEPT !.buf = buf]

\* Mutant of Flush: what is left in the buffer is forgotten at the end.
Flush_Forgets(r) == [r EXCEPT !.buf = <<>>]

Flush(r) == IF r.buf = <<>> THEN r ELSE OnDelta([r EXCEPT !.buf = <<>>], r.buf)

SendPiece(c) ==
  LET r == calls[c] IN
  /\ Streaming(c) /\ r.mode \in {"deltas", "pieces"} /\ r.next < r.len
  /\ OnlyCall(c, Buffered([r EXCEPT !.next = @ + 1, !.hasDelta = @ \/ r.mode = "deltas"],
                          <<r.next + 1>>))

\* text, content, message or response: for who has seen no delta, and for
\* a short text.
SendWhole(c) ==
  LET r == calls[c] IN
  /\ Streaming(c) /\ r.ended = "no"
  /\ \/ r.mode = "deltas" /\ r.next = r.len
     \/ r.mode = "whole" /\ r.next = 0
  /\ LET sent == [r EXCEPT !.next = r.len, !.ended = "text"] IN
     OnlyCall(c, IF ~r.hasDelta /\ Short(r.len)
                   THEN Buffered(sent, UpTo(r.len)) ELSE sent)

\* streamInput returned: an operation that parses or saves goes on.
Streamed(r, ended) ==
  LET s == [Flush(r) EXCEPT !.ended = ended] IN
  IF s.op = "summary" THEN [s EXCEPT !.pc = "save", !.result = "ai"]
  ELSE LET v == [s EXCEPT !.result =
                   IF ended = "all" THEN Complete(s.op, s.shape) ELSE Complete(s.op, "prose")] IN
       Hangup(IF s.op \in Completes THEN Event(v, "data") ELSE v)

SendDone(c) ==
  LET r == calls[c] IN
  /\ Streaming(c) /\ r.next = r.len
  /\ OnlyCall(c, Streamed(r, "all"))

\* The connection ends: any error with EOF in it is the end of the text,
\* and so is the cancelled context.
SendCut(c) ==
  LET r == calls[c] IN
  /\ Streaming(c)
  /\ OnlyCall(c, Streamed(r, "cut"))

ReadCancelled(c) ==
  LET r == calls[c] IN
  /\ Streaming(c) /\ r.cancelled
  /\ OnlyCall(c, Streamed(r, "cancelled"))

\* Another error while reading, a status from 400 on, an error of onDelta.
\* What has been read is handed on before a read error is returned.
StreamFails(c) ==
  LET r == calls[c] IN
  /\ Streaming(c)
  /\ OnlyCall(c, Fail([Flush(r) EXCEPT !.ended = "failed"], 500))

-----------------------------------------------------------------------------
(***************************************************************************)
(* The row                                                                 *)
(***************************************************************************)

\* UpdateAISummary with the request's context, for the client's own order;
\* a stream without text saves nothing.  Then the answer, or the event "done".
Save(c, ok) ==
  LET r == calls[c] IN
  /\ r.pc = "save"
  /\ ok => ~r.cancelled
  /\ IF r.acc # <<>> /\ ~ok
       THEN OnlyCall(c, Fail(r, 500))
       ELSE /\ summary' = IF r.acc = <<>> THEN summary
                          ELSE [summary EXCEPT ![r.thing] = [by |-> c, text |-> r.acc]]
            /\ Put(c, IF r.stream THEN Hangup(Event(r, "done")) ELSE Respond(r, 200))
            /\ UNCHANGED edit

\* UpdateOrder reads the order, and later writes the whole row, ai_summary
\* with it.
EditRead(t) ==
  /\ ~edit[t].on
  /\ edit' = [edit EXCEPT ![t] = [on |-> TRUE, row |-> summary[t]]]
  /\ UNCHANGED <<calls, summary>>

EditWrite(t) ==
  /\ edit[t].on
  /\ summary' = [summary EXCEPT ![t] = edit[t].row]
  /\ edit' = [edit EXCEPT ![t] = NoEdit]
  /\ UNCHANGED calls

-----------------------------------------------------------------------------
(***************************************************************************)
(* Time and the browser                                                    *)
(***************************************************************************)
InFlight(c) == calls[c].pc \notin {"idle", "done"}

\* WriteTimeout has passed.
Late(c) ==
  /\ InFlight(c) /\ ~calls[c].late
  /\ OnlyCall(c, [calls[c] EXCEPT !.late = TRUE])

\* Mutant of AiTimesOut: a stream waits for the provider as long as it takes.
AiTimesOut_PlainOnly(c) ==
  LET r == calls[c] IN
  /\ r.pc = "ai" /\ r.late /\ ~r.stream
  /\ Reply(c, "error")

\* The provider's client gives up, long after the server's deadline.
AiTimesOut(c) ==
  LET r == calls[c] IN
  /\ r.pc = "ai" /\ r.late
  /\ IF r.stream THEN StreamFails(c) ELSE Reply(c, "error")

\* The page is left: the fetch is aborted, and the server sees it later.
Abort(c) ==
  /\ InFlight(c) /\ calls[c].browser = "open"
  /\ OnlyCall(c, [calls[c] EXCEPT !.browser = "aborted"])

SeesAbort(c) ==
  /\ InFlight(c) /\ calls[c].browser = "aborted" /\ ~calls[c].cancelled
  /\ OnlyCall(c, [calls[c] EXCEPT !.cancelled = TRUE])

-----------------------------------------------------------------------------
Handler(c) ==
  \/ \E known, valid \in BOOLEAN : Gate(c, known, valid)
  \/ \E row \in BOOLEAN : Load(c, row)
  \/ EmptyChat(c) \/ (\E ok \in BOOLEAN : Save(c, ok)) \/ AiTimesOut(c)

Provider(c) ==
  \/ \E reply \in Replies : Reply(c, reply)
  \/ SendPiece(c) \/ SendWhole(c) \/ SendDone(c) \/ SendCut(c)
  \/ StreamFails(c) \/ ReadCancelled(c)

Done ==
  /\ \A c \in Calls : calls[c].pc = "done"
  /\ \A t \in Things : ~edit[t].on
  /\ UNCHANGED aiVars

AiNext ==
  \/ \E c \in Calls :
       \/ \E op \in Ops, stream \in BOOLEAN, u \in Users, t \in Things \cup {Nothing} :
            Begin(c, op, stream, u, t)
       \/ Handler(c) \/ Provider(c) \/ Late(c) \/ Abort(c) \/ SeesAbort(c)
  \/ \E t \in Things : EditRead(t) \/ EditWrite(t)
  \/ Done

\* Handlers are scheduled and clocks run; the provider and the user may do
\* nothing for ever.
Fairness == \A c \in Calls : WF_aiVars(Handler(c)) /\ WF_aiVars(Late(c))
AiSpec == AiInit /\ [][AiNext]_aiVars /\ Fairness

-----------------------------------------------------------------------------
(***************************************************************************)
(* Properties                                                              *)
(***************************************************************************)

\* The text, and after it the payload of the event that announced the result.
Announced(r) == ~(r.events \subseteq {"error"})
Followed(r, text) == IF Announced(r) THEN Append(text, Payload) ELSE text

\* What the reader has been shown is the beginning of what the provider
\* wrote, nothing twice and nothing out of order, whatever the buffer, the
\* second copy of the text and the deadlines do; then at most one payload.
ShownInOrder(r) == \E n \in 0..r.next : r.shown = Followed(r, Words(UpTo(n)))

\* A request whose end the reader saw, with no error event and no status of
\* an error, has gone well.
EndedWell(r) ==
  /\ r.pc = "done" /\ r.browser = "finished"
  /\ "error" \notin r.events /\ r.status < 400

\* The reader's picture is true but for the payload that ends three of the
\* operations: what a stream shows is a prefix of the text, with nothing after
\* it but that payload; one that ended well has shown all of the text, and no
\* failure of the service hides behind such an end.  Two streams look whole
\* that are not: one that the provider's connection cut off, and one whose text
\* came in a single event and was too long for it (streamInput, streamAI,
\* writeSSEEventAndFlush).
EndIsHonest ==
  \A c \in Calls :
    LET r == calls[c] IN
    /\ ShownInOrder(r)
    /\ EndedWell(r) => r.result # "error"
    /\ (EndedWell(r) /\ r.ended \notin {"no", "cut"} /\ r.stream
          /\ ~(r.mode = "whole" /\ ~Short(r.len)))
       => r.shown = Followed(r, Words(UpTo(r.len)))

\* The saved summary of an order is the whole of what one request streamed
\* or was answered, for that order, by its client, and
\* never that of a request that failed (StreamRegenerateOrderSummary).
SummaryIsAnAnswer ==
  \A t \in Things :
    LET c == summary[t].by IN
    summary[t] # Old =>
      /\ calls[c].op = "summary" /\ calls[c].thing = t /\ calls[c].user = Client[t]
      /\ calls[c].pc = "done" /\ calls[c].result \in {"ai", "substitute"}
      /\ summary[t].text = calls[c].acc

\* Whatever the provider does or leaves undone, every request is answered or
\* given up: its handler returns (http.Client.Timeout, WriteTimeout).
EveryRequestEnds == \A c \in Calls : InFlight(c) ~> calls[c].pc = "done"

=============================================================================
