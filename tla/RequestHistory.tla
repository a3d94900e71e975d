--------------------------- MODULE RequestHistory ---------------------------
(***************************************************************************)
(* What a solve sends to the model: request_messages of _solve_loop in     *)
(* rpent_vllm_user/planner.py, which every accepted response, every        *)
(* feedback and every message of the user makes longer, and the view of it *)
(* that ToolHistoryPolicy.prepare (history.py) and _prune_request_images   *)
(* keep within the budgets of one request.  Contents are reduced to sizes; *)
(* the unit is the least limit of the policy, 512 bytes, and the limits    *)
(* that are halved are a power of two of it, so that halving is exact.     *)
(***************************************************************************)
EXTENDS Naturals, SequencesExt

CONSTANTS
  Recent,         \* recent_tool_exchanges
  SummaryLimit,   \* max_summary_chars
  ResultLimit,    \* compacted_tool_result_bytes
  TextBudget,     \* max_request_bytes
  ImageBudget,    \* max_request_image_bytes
  Overhead,       \* what a request weighs without its messages: the tools
  Batches,        \* the results of one response's calls, each with its size,
                  \* core (what a projection must keep), fills (it takes the
                  \* room it is given) and image (0: none)
  MaxTurns,       \* max_turns
  MaxMessages     \* bound: messages of the user

ASSUME HistoryAssumption ==
  /\ {Recent, SummaryLimit, ResultLimit, TextBudget, ImageBudget, MaxTurns} \subseteq Nat \ {0}
  /\ {Overhead, MaxMessages} \subseteq Nat
  /\ ResultLimit <= TextBudget
  /\ \A limit \in {SummaryLimit, ResultLimit} : \E k \in 0 .. limit : limit = 2 ^ k
  /\ Batches \subseteq Seq([size : Nat, core : Nat, fills : BOOLEAN, image : Nat]) \ {<<>>}
  /\ \A results \in Batches : \A i \in DOMAIN results : results[i].core \in 1 .. results[i].size

VARIABLES
  bounded,    \* RPENT_VLLM_HISTORY_MODE is "bounded", not "full"
  messages,   \* request_messages
  turn,       \* turn
  phase,      \* "turn", "asked" (the model has the view), or how the solve ended
  view,       \* prepared_messages
  retried     \* context_overflow_retry

vars == <<bounded, messages, turn, phase, view, retried>>

-----------------------------------------------------------------------------
(* Messages.  An image is its size and whether it is still shown.          *)

Plain(kind) == [kind |-> kind, size |-> 1, core |-> 1, fills |-> FALSE, images |-> <<>>]

SystemPrompt == Plain("system")
Task         == Plain("task")
UserMessage  == Plain("user")
Feedback     == Plain("feedback")
Assistant    == Plain("assistant")

Tool(r) == [kind |-> "tool", size |-> r.size, core |-> r.core, fills |-> r.fills,
            images |-> <<>>]

(* _batch_image_content: the images of a batch follow all of its results.  *)
Observations(results) ==
  LET image(r) == IF r.image = 0 THEN <<>> ELSE <<[size |-> r.image, shown |-> TRUE]>>
      seen     == FlattenSeq([i \in DOMAIN results |-> image(results[i])])
  IN  IF seen = <<>> THEN <<>> ELSE <<[Plain("images") EXCEPT !.images = seen]>>

Size(request) == Overhead + SumFunction([i \in DOMAIN request |-> request[i].size])

-----------------------------------------------------------------------------
(* _prune_request_images: the newest images, at most max and within the    *)
(* budget; the others become a note.  An older image is never kept in      *)
(* place of a newer one.                                                   *)

Places(request) == UNION {{i} \X DOMAIN request[i].images : i \in DOMAIN request}
Image(request, p) == request[p[1]].images[p[2]]
Shown(request) == {p \in Places(request) : Image(request, p).shown}
Since(p, places) == {q \in places : q[1] > p[1] \/ (q[1] = p[1] /\ q[2] >= p[2])}
Bytes(request, places) == SumFunction([p \in places |-> Image(request, p).size])

ImageBytes(request) == Bytes(request, Shown(request))

(* Variant for a mutant: the number of images is not limited.              *)
KeptInBudget(request, max) ==
  {p \in Shown(request) : Bytes(request, Since(p, Shown(request))) <= ImageBudget}

Kept(request, max) ==
  LET since(p) == Since(p, Shown(request))
  IN  {p \in Shown(request) : /\ Cardinality(since(p)) <= max
                              /\ Bytes(request, since(p)) <= ImageBudget}

Pruned(request, max) ==
  LET kept == Kept(request, max)
  IN  [i \in DOMAIN request |->
         [request[i] EXCEPT !.images =
            [j \in DOMAIN @ |-> [@[j] EXCEPT !.shown = <<i, j>> \in kept]]]]

(* The newest image alone exceeds the budget.                              *)
NewestTooLarge(request) == Shown(request) # {} /\ Kept(request, 1) = {}

-----------------------------------------------------------------------------
(* _compact_to_recent                                                      *)

Indexes(request, kind) == {i \in DOMAIN request : request[i].kind = kind}
ToolIndexes(request)   == Indexes(request, "tool")
FirstRecent(request, recent) ==
  CHOOSE i \in ToolIndexes(request) :
    Cardinality({j \in ToolIndexes(request) : j >= i}) = recent

(* Variant for a mutant: a batch is cut in its middle.                     *)
ExchangeStartAtTool(request, tool) == tool

ExchangeStart(request, tool) ==
  LET before == {i \in Indexes(request, "assistant") : i < tool}
  IN  IF before = {} THEN tool ELSE Max(before)

(* _history_summary: a header and a line for each result, the oldest lines *)
(* omitted, with a note that says so, beyond the limit.                    *)
Summary(tools, limit) ==
  [Plain("summary") EXCEPT !.size = IF 1 + tools <= limit THEN 1 + tools ELSE limit + 1]

NoSummary == 0

Compact(request, recent, limit) ==
  LET tools  == ToolIndexes(request)
      cutoff == ExchangeStart(request, FirstRecent(request, recent))
      base   == Min(Indexes(request, "assistant"))
  IN  IF Cardinality(tools) <= recent \/ cutoff <= base THEN request
      ELSE SubSeq(request, 1, base - 1)
           \o (IF limit = NoSummary THEN <<>>
               ELSE <<Summary(Cardinality({i \in tools : i < cutoff}), limit)>>)
           \o SubSeq(request, cutoff, Len(request))

-----------------------------------------------------------------------------
(* project_tool_messages (result_projection.py): a result above the limit  *)
(* is reduced to what it must keep, and filled with excerpts if it is      *)
(* text; a result whose core does not fit cannot be shown.                 *)

Oversized(m, limit) == m.kind = "tool" /\ m.size > limit
Projectable(request, limit) ==
  \A i \in DOMAIN request : Oversized(request[i], limit) => request[i].core <= limit
ProjectedSize(m, limit) == IF m.fills THEN limit ELSE m.core
Projected(request, limit) ==
  [i \in DOMAIN request |->
     IF Oversized(request[i], limit)
     THEN [request[i] EXCEPT !.size = ProjectedSize(request[i], limit)]
     ELSE request[i]]

(* _descending_limits                                                      *)
Halvings(value) == CHOOSE k \in 0 .. value : value = 2 ^ k
Limits(value) == [i \in 1 .. Halvings(value) + 1 |-> 2 ^ (Halvings(value) + 1 - i)]

-----------------------------------------------------------------------------
(* prepare: the recent exchanges, as many as fit; then the newest one with *)
(* its results projected, under a summary that shrinks and is dropped at   *)
(* last.  The first attempt that fits is sent, after a second look at its  *)
(* images; the limit on the whole body is the sum of the two budgets.      *)

Unprojected == 0

Attempt(request, recent, summary, limit) ==
  [view |-> Compact(request, recent, summary), limit |-> limit]

ToolCount(request) == Cardinality(ToolIndexes(request))
Most(request, recent) ==
  IF bounded THEN Min({ToolCount(request), recent}) ELSE ToolCount(request)

(* Variant for a mutant: when the configured number does not fit, only one *)
(* exchange is kept.                                                       *)
RecentInHaste(request, recent) ==
  <<Attempt(request, Most(request, recent), SummaryLimit, Unprojected)>>

RecentViews(request, recent) ==
  [i \in 1 .. Most(request, recent) |->
     Attempt(request, Most(request, recent) + 1 - i, SummaryLimit, Unprojected)]

Summaries(request) ==
  (IF ToolCount(request) > 1 THEN Limits(SummaryLimit) ELSE <<SummaryLimit>>) \o <<NoSummary>>

Projections(request) ==
  FlattenSeq([s \in DOMAIN Summaries(request) |->
                [l \in DOMAIN Limits(ResultLimit) |->
                   Attempt(request, 1, Summaries(request)[s], Limits(ResultLimit)[l])]])

Attempts(request, recent) ==
  IF ToolIndexes(request) = {} THEN <<[view |-> request, limit |-> Unprojected]>>
  ELSE RecentViews(request, recent) \o Projections(request)

Raises(attempt) == attempt.limit # Unprojected /\ ~ Projectable(attempt.view, attempt.limit)
Content(attempt) ==
  IF attempt.limit = Unprojected THEN attempt.view ELSE Projected(attempt.view, attempt.limit)
Fits(attempt) == ~ Raises(attempt) /\ Size(Content(attempt)) <= TextBudget

Prepared(request, recent) ==
  LET attempts == Attempts(request, recent)
      first    == SelectInSeq(attempts, LAMBDA a : Raises(a) \/ Fits(a))
  IN  IF first = 0 THEN [how |-> "refused", view |-> <<>>]
      ELSE IF Raises(attempts[first]) THEN [how |-> "unprojectable", view |-> <<>>]
      ELSE IF ImageBytes(Content(attempts[first])) > ImageBudget
      THEN [how |-> "refused", view |-> <<>>]
      ELSE [how |-> "asked", view |-> Content(attempts[first])]

-----------------------------------------------------------------------------
Init ==
  /\ bounded \in BOOLEAN
  /\ messages = <<SystemPrompt, Task>>
  /\ turn = 1 /\ phase = "turn" /\ view = <<>> /\ retried = FALSE

FromUser == Cardinality(Indexes(messages, "user"))

NextTurn(added) ==
  /\ phase = "asked" /\ turn < MaxTurns
  /\ messages' = messages \o added
  /\ turn' = turn + 1 /\ phase' = "turn" /\ view' = <<>> /\ retried' = FALSE
  /\ UNCHANGED bounded

(* claim_messages, before the request                                      *)
Claim ==
  /\ phase = "turn" /\ FromUser < MaxMessages
  /\ messages' = Append(messages, UserMessage)
  /\ UNCHANGED <<bounded, turn, phase, view, retried>>

(* The request is prepared and sent, or the solve ends.                    *)
Ask ==
  /\ phase = "turn"
  /\ IF NewestTooLarge(messages)
     THEN phase' = "image too large" /\ UNCHANGED <<messages, view>>
     ELSE /\ messages' = Pruned(messages, 2)
          /\ LET prepared == Prepared(messages', Recent)
             IN  phase' = prepared.how /\ view' = prepared.view
  /\ UNCHANGED <<bounded, turn, retried>>

(* Variant for a mutant: the history itself is pruned for the retry.       *)
RetryInPlace ==
  /\ phase = "asked" /\ bounded /\ ~ retried
  /\ messages' = Pruned(messages, 1)
  /\ LET prepared == Prepared(messages', 1)
     IN  phase' = prepared.how /\ view' = prepared.view
  /\ retried' = TRUE
  /\ UNCHANGED <<bounded, turn>>

(* The context is too long for the model: one more request, from a copy    *)
(* with one image and one exchange.                                        *)
Retry ==
  /\ phase = "asked" /\ bounded /\ ~ retried
  /\ LET prepared == Prepared(Pruned(messages, 1), 1)
     IN  phase' = prepared.how /\ view' = prepared.view
  /\ retried' = TRUE
  /\ UNCHANGED <<bounded, messages, turn>>

(* Another error, a timeout, a stop, or the last turn.                     *)
End ==
  /\ phase = "asked"
  /\ phase' = "over" /\ view' = <<>>
  /\ UNCHANGED <<bounded, messages, turn, retried>>

(* Input that came while the model answered supersedes the response.       *)
Supersede == FromUser < MaxMessages /\ NextTurn(<<UserMessage>>)

(* A response that cannot be used is not part of the history.              *)
Repair == NextTurn(<<Feedback>>)

(* The calls of an accepted response have been executed.  If it was cut to *)
(* its first call, the model is told.                                      *)
Accept ==
  \E results \in Batches, deferred \in BOOLEAN :
    /\ deferred => Len(results) = 1
    /\ NextTurn(<<Assistant>> \o [i \in DOMAIN results |-> Tool(results[i])]
                \o Observations(results)
                \o (IF deferred THEN <<Feedback>> ELSE <<>>))

Next == Claim \/ Ask \/ Retry \/ End \/ Supersede \/ Repair \/ Accept

Spec == Init /\ [][Next]_vars

-----------------------------------------------------------------------------
(* A message without the size a projection may change.                     *)
Shape(request) == [i \in DOMAIN request |-> [request[i] EXCEPT !.size = 0]]

(* The system prompt, the task and what came before the first response are *)
(* in every request, then at most a summary, then everything from some     *)
(* response on: no call without its result, no result without its call,    *)
(* and nothing newer than the newest response is lost, so a message that   *)
(* was claimed for this request is in it (history.py:201-231,280-288).     *)
RequestIsWellFormed ==
  phase = "asked" =>
    LET source == Shape(Pruned(messages, IF retried THEN 1 ELSE 2))
        seen   == Shape(view)
        cuts   == Indexes(messages, "assistant")
    IN  \/ seen = source
        \/ \E c \in cuts :
             LET head == SubSeq(source, 1, Min(cuts) - 1)
                 tail == SubSeq(source, c, Len(source))
             IN  \/ seen = head \o tail
                 \/ seen = head \o <<[Plain("summary") EXCEPT !.size = 0]>> \o tail

(* What the newest exchange and the fixed instructions weigh by themselves.*)
Necessary(request) ==
  IF ToolIndexes(request) = {} THEN request ELSE Compact(request, 1, NoSummary)
NothingFits ==
  \A limit \in Range(Limits(ResultLimit)) :
    LET attempt == [view |-> Necessary(messages), limit |-> limit] IN ~ Fits(attempt)

(* A request leaves within every budget, with one image at most when it is *)
(* the retry, and a solve ends for the weight of its request only if what  *)
(* the request must contain cannot be made to fit (history.py:123-198,     *)
(* planner.py:602-648,743-756,1543-1552).                                  *)
BudgetsDecide ==
  /\ phase = "asked" =>
       /\ Size(view) <= TextBudget
       /\ ImageBytes(view) <= ImageBudget
       /\ Cardinality(Shown(view)) <= IF retried THEN 1 ELSE 2
  /\ phase = "refused" => NothingFits

(* Of the exchanges the policy may keep, whole and under a full summary,   *)
(* as many are kept as fit: what is dropped was too much.  An exchange may *)
(* be kept if fewer than the configured number of results follow it        *)
(* (history.py:110-140).                                                   *)
KeepsWhatFits ==
  (phase = "asked" /\ Indexes(messages, "assistant") # {}) =>
    LET cuts        == Indexes(messages, "assistant")
        most        == IF ~ bounded THEN Len(messages) ELSE IF retried THEN 1 ELSE Recent
        since(c)    == {d \in cuts : d >= c}
        newer(c)    == {t \in ToolIndexes(messages) : \E d \in since(c) \ {c} : t > d}
        dropped(c)  == Cardinality({t \in ToolIndexes(messages) : t < c})
        weight(c)   ==
          IF c = Min(cuts) THEN Size(messages)
          ELSE Size(SubSeq(messages, 1, Min(cuts) - 1)
                    \o <<Summary(dropped(c), SummaryLimit)>>
                    \o SubSeq(messages, c, Len(messages)))
        kept        == Cardinality(Indexes(view, "assistant"))
    IN  \A c \in cuts :
          /\ Cardinality(since(c)) = kept => Cardinality(newer(c)) < most
          /\ Cardinality(since(c)) > kept /\ Cardinality(newer(c)) < most
               => weight(c) > TextBudget

(* The comment at history.py:172-174: "A final no-summary attempt avoids   *)
(* rejecting a request where the fixed instructions plus newest atomic     *)
(* exchange do fit by themselves."                                         *)
NeverRejectedIfItFits == phase \in {"refused", "unprojectable"} => NothingFits

(* An image leaves the history only for newer ones: two of them, or enough *)
(* to fill the budget, and never because a retry made do with less         *)
(* (planner.py:607-610,725-730,1543-1565).                                 *)
NewestImagesKept ==
  \A p \in Places(messages) \ Shown(messages) :
    \E q \in Since(p, Places(messages)) :
      LET since == Since(q, Places(messages))
      IN  Cardinality(since) > 2 \/ Bytes(messages, since) > ImageBudget
=============================================================================
