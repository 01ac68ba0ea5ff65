---------------------------- MODULE Conversation ----------------------------
(***************************************************************************)
(* One session of Agent.run: the list of messages the model is sent, which *)
(* PromptAssembly keeps, and the loop that calls the model and runs the    *)
(* tools it asks for.  A provider refuses a request in which a tool call   *)
(* and its result do not pair up; histories are compacted, calls skipped   *)
(* and stages changed, and every provider's adapter repairs what it gets.  *)
(* Texts are left out but for the results of tools, which are sent in full *)
(* once and shortened afterwards.  Whether a limit is reached is for the   *)
(* environment to say: the budgets are in Spending, and what becomes of    *)
(* the session's transaction is in MessageDelivery.                        *)
(***************************************************************************)
EXTENDS Naturals, Sequences, SequencesExt, FiniteSets

CONSTANTS
  MaxIterations,   \* MAX_ITERATIONS
  Interval,        \* MID_LOOP_MSG_CHECK_INTERVAL
  MaxCalls,        \* bound on the calls of one response
  Keeps,           \* the keep_recent a model may ask compact_history for
  NoInt,           \* one that is not a number
  PastLength,      \* messages of past sessions
  MaxChanges       \* bound on configuration changes and messages that come in meanwhile

ASSUME ConversationAssumption ==
  /\ {MaxIterations, Interval, MaxCalls} \subseteq Nat \ {0}
  /\ Keeps \subseteq Nat /\ NoInt \notin Nat /\ {PastLength, MaxChanges} \subseteq Nat

VARIABLES
  messages,  \* PromptAssembly.messages
  start,     \* _current_session_start_index
  prompt,    \* the stage block of the system prompt, and the tools that are offered
  stage,     \* session.thinking_stage
  thinks,    \* thinking_enabled, as last read
  pc,        \* what the loop is at
  batch,     \* calls of the last response still to be run
  iteration, \* session.iteration
  issued,    \* calls the model has made
  injected,  \* summarization_state["history_injected"]
  dirty,     \* _config_dirty
  unread,    \* channel messages that came in meanwhile
  changes,   \* configuration changes and messages so far
  reason     \* end reason of the session

vars == <<messages, start, prompt, stage, thinks, pc, batch, iteration, issued, injected,
          dirty, unread, changes, reason>>

Stages == {"none", "thinking", "execution"}
Ids == 1..(MaxIterations * MaxCalls)
Names == {"other", "memory", "compact", "thinking_done", "end"}
Call == [id : Ids, name : Names, keep : Keeps \cup {NoInt}]

\* A tool result is in full, shortened or, instead of one, a remark; calls are ids.
Message == [role : {"user", "assistant", "tool"}, calls : Seq(Ids), answers : Ids \cup {0},
            text : {"full", "cut", "remark"}, seen : 0..2]
Plain(role) == [role |-> role, calls |-> <<>>, answers |-> 0, text |-> "remark", seen |-> 0]
Asking(ids) == [Plain("assistant") EXCEPT !.calls = ids]
Result(id, text) == [Plain("tool") EXCEPT !.answers = id, !.text = text]

TypeOK ==
  /\ messages \in Seq(Message) /\ start \in Nat
  /\ prompt \in [block : Stages, tools : {"thinking", "all"}]
  /\ stage \in Stages /\ thinks \in BOOLEAN
  /\ pc \in {"top", "paused", "call", "tools", "ended"}
  /\ batch \in Seq(Call)
  /\ iteration \in 0..MaxIterations /\ issued \in 0..(MaxIterations * MaxCalls)
  /\ {injected, dirty, unread} \subseteq BOOLEAN
  /\ changes \in 0..MaxChanges
  /\ reason \in {"none", "normal_end", "interrupted", "max_iterations", "budget_exhausted",
                 "rate_limited_timeout", "error", "crash"}

-----------------------------------------------------------------------------
(* The list of messages.                                                   *)

CallsOf(ms) == UNION {ToSet(ms[i].calls) : i \in DOMAIN ms}
AnsweredIn(ms) == {ms[i].answers : i \in DOMAIN ms} \ {0}
Dangling(ms) == CallsOf(ms) \ AnsweredIn(ms)

\* A remark for every call of ids without a result in ms.
Remarks(ids, ms) ==
  FlattenSeq([j \in DOMAIN ids |->
    IF ids[j] \in Dangling(ms) THEN <<Result(ids[j], "remark")>> ELSE <<>>])

\* The mutant of Repaired: the remarks come at the end.
RepairedAtEnd(ms) ==
  ms \o Remarks(FlattenSeq([i \in DOMAIN ms |-> ms[i].calls]), ms)

\* Every call without a result gets a remark for one, right behind the message it is in.
Repaired(ms) == FlattenSeq([i \in DOMAIN ms |-> <<ms[i]>> \o Remarks(ms[i].calls, ms)])

\* ms[-keep:] when there are more than keep: of keep = 0, Python makes all of them.
LastOf(ms, keep) ==
  IF Len(ms) > keep /\ keep > 0 THEN SubSeq(ms, Len(ms) - keep + 1, Len(ms)) ELSE ms

Compacted(ms, keep) == Repaired(LastOf(SubSeq(ms, start + 1, Len(ms)), keep))

\* Results in front of the last answer of the model are shortened.
LastAnswer(ms) == SelectLastInSeq(ms, LAMBDA m : m.role = "assistant")
\* The mutant of Expired: it stops one message short.
ExpiredShort(ms) ==
  [i \in DOMAIN ms |->
     IF i < LastAnswer(ms) - 1 /\ ms[i].text = "full" THEN [ms[i] EXCEPT !.text = "cut"] ELSE ms[i]]

Expired(ms) ==
  [i \in DOMAIN ms |->
     IF i < LastAnswer(ms) /\ ms[i].text = "full" THEN [ms[i] EXCEPT !.text = "cut"] ELSE ms[i]]

\* The request is sent.
Seen(ms) == [i \in DOMAIN ms |-> IF ms[i].text = "full" THEN [ms[i] EXCEPT !.seen = @ + 1] ELSE ms[i]]

-----------------------------------------------------------------------------
(* What the adapters make of it.                                           *)

\* Results of calls that were not made before them are left out.
WithoutOrphans(ms) ==
  FlattenSeq([i \in DOMAIN ms |->
    IF ms[i].role = "tool" /\ ms[i].answers \notin CallsOf(SubSeq(ms, 1, i)) THEN <<>> ELSE <<ms[i]>>])

\* The calls of ids that are not among gone.
Without(ids, gone) ==
  FlattenSeq([j \in DOMAIN ids |-> IF ids[j] \in gone THEN <<>> ELSE <<ids[j]>>])

\* Anthropic: calls without a result are taken out, and a user has the last word.
ToAnthropic(ms) ==
  LET paired == WithoutOrphans(ms)
      wire == [i \in DOMAIN paired |->
                 [paired[i] EXCEPT !.calls = Without(@, Dangling(paired))]] IN
  IF wire # <<>> /\ Last(wire).role = "assistant" THEN Append(wire, Plain("user")) ELSE wire

ToOpenAI(ms) == Repaired(ms)

\* Gemini: a request with nothing in it becomes an empty message of the user.
ToGemini(ms) ==
  LET wire == Repaired(WithoutOrphans(ms)) IN IF wire = <<>> THEN <<Plain("user")>> ELSE wire

\* The HTTP clients of the legacy mode: Anthropic's does the same over again, Gemini's repairs
\* nothing.
LegacyAnthropic(ms) == ToAnthropic(ms)
LegacyGemini(ms) ==
  LET wire == WithoutOrphans(ms) IN IF wire = <<>> THEN <<Plain("user")>> ELSE wire

-----------------------------------------------------------------------------
(* What scripts/validate_llm_messages.py says of a list.  Its builders     *)
(* "mirror production code exactly", but for the repairs.                  *)

BuiltForAnthropic(ms) == WithoutOrphans(ms)
BuiltForOpenAI(ms) == ms
BuiltForGemini(ms) == WithoutOrphans(ms)

WireRole(m) == IF m.role = "tool" THEN "user" ELSE m.role

\* The user begins, turns alternate, and the next message alone answers every call.
AnthropicValid(wire) ==
  /\ wire # <<>> => WireRole(Head(wire)) = "user"
  /\ \A i \in 2..Len(wire) : WireRole(wire[i - 1]) # WireRole(wire[i])
  /\ \A i \in DOMAIN wire : wire[i].calls # <<>> =>
       i < Len(wire) /\ ToSet(wire[i].calls) \subseteq {wire[i + 1].answers}

\* Every call is answered, wherever.
InternalValid(ms) == Dangling(ms) = {}
OpenAIValid(wire) == Dangling(wire) = {}
GeminiValid(wire) == Dangling(wire) = {}

Validated(ms) ==
  /\ InternalValid(ms)
  /\ AnthropicValid(BuiltForAnthropic(ms))
  /\ OpenAIValid(BuiltForOpenAI(ms))
  /\ GeminiValid(BuiltForGemini(ms))

-----------------------------------------------------------------------------
(* The session.                                                            *)

\* load_history: past sessions without their calls, and what the agent is woken for.
Init ==
  /\ thinks \in BOOLEAN
  /\ stage = IF thinks THEN "thinking" ELSE "none"
  /\ prompt = [block |-> stage, tools |-> IF thinks THEN "thinking" ELSE "all"]
  /\ messages = [i \in 1..PastLength |-> Plain(IF i % 2 = 1 THEN "user" ELSE "assistant")]
                  \o <<Plain("user")>>
  /\ start = PastLength
  /\ pc = "top" /\ batch = <<>> /\ iteration = 0 /\ issued = 0 /\ injected = FALSE
  /\ dirty = FALSE /\ unread = FALSE /\ changes = 0 /\ reason = "none"

End(why) == pc' = "ended" /\ reason' = why /\ batch' = <<>>

config == <<prompt, stage, thinks, dirty>>

\* The user changes the agent's configuration (ConfigListener), or somebody writes to it.  The
\* loop does not look before its next iteration: that it happens during a call is no restriction.
Change ==
  /\ pc = "call" /\ changes < MaxChanges
  /\ changes' = changes + 1
  /\ \/ dirty' = TRUE /\ UNCHANGED unread
     \/ unread' = TRUE /\ UNCHANGED dirty
  /\ UNCHANGED <<messages, start, prompt, stage, thinks, pc, batch, iteration, issued, injected,
                 reason>>

\* Every Interval iterations.
Looks == iteration > 0 /\ iteration % Interval = 0

\* _reload_config: all tools are offered, and no stage block is left.
Reload ==
  IF Looks /\ dirty
  THEN /\ thinks' \in BOOLEAN /\ prompt' = [block |-> "none", tools |-> "all"]
       /\ dirty' = FALSE
       /\ UNCHANGED stage
  ELSE UNCHANGED config

\* New messages, and a hint to compact when the history has grown.
Injected ==
  \E pressure \in BOOLEAN :
    LET heard == IF Looks /\ unread THEN <<Plain("user")>> ELSE <<>>
        hint == IF pressure /\ ~injected THEN <<Plain("user")>> ELSE <<>> IN
    /\ injected' = (injected \/ pressure)
    /\ \/ messages' = messages \o heard \o hint /\ pc' = "paused"         \* a rate limit
          /\ UNCHANGED <<batch, reason>>
       \/ messages' = Expired(messages \o heard \o hint) /\ pc' = "call"
          /\ UNCHANGED <<batch, reason>>
       \/ messages' = messages \o heard \o hint /\ End("budget_exhausted")

Iterate ==
  /\ pc = "top" /\ iteration < MaxIterations
  /\ Injected /\ Reload
  /\ unread' = (unread /\ ~Looks)
  /\ UNCHANGED <<start, iteration, issued, changes>>

Exhausted ==
  /\ pc = "top" /\ iteration = MaxIterations
  /\ End("max_iterations")
  /\ UNCHANGED <<messages, start, config, iteration, issued, injected, unread, changes>>

\* The flag is looked at before an iteration, and during a pause.
Interrupted ==
  /\ pc \in {"top", "paused"} /\ (pc = "top" => iteration < MaxIterations)
  /\ End("interrupted")
  /\ UNCHANGED <<messages, start, config, iteration, issued, injected, unread, changes>>

\* rate_limit_soft_pause: the limit clears, is raised, or ten minutes pass.
\* Its mutant: the gates are looked at again, and the ten minutes start again with them.
PauseEndsAgain ==
  /\ pc = "paused" /\ pc' = "top"
  /\ UNCHANGED <<messages, start, config, batch, iteration, issued, injected, unread, changes, reason>>

PauseEnds ==
  /\ pc = "paused"
  /\ \/ messages' = Expired(messages) /\ pc' = "call" /\ UNCHANGED <<batch, reason>>
     \/ End("rate_limited_timeout") /\ UNCHANGED messages
  /\ UNCHANGED <<start, config, iteration, issued, injected, unread, changes>>

CallFails ==
  /\ pc = "call"
  /\ End("error")
  /\ UNCHANGED <<messages, start, config, iteration, issued, injected, unread, changes>>

Named(calls, names) ==
  FlattenSeq([i \in DOMAIN calls |-> IF calls[i].name \in names THEN <<calls[i]>> ELSE <<>>])
IdsOf(calls) == [i \in DOMAIN calls |-> calls[i].id]

Counted(n) == iteration + 1

\* rebuild_for_execution_stage, and all tools.
ExecutionPrompt == [block |-> "execution", tools |-> "all"]

\* thinking_done, in the thinking stage: the first is answered, and the stage changes.
Transition(calls) == Named(calls, {"thinking_done"}) # <<>> /\ thinks /\ stage = "thinking"

\* The response: text only ends the session; end has to be alone, and others of the loop's own
\* calls are not run.
Respond ==
  /\ pc = "call"
  /\ \E n \in 0..MaxCalls : \E calls \in [1..n -> [name : Names, keep : Keeps \cup {NoInt}]] :
       LET made == [i \in 1..n |-> [id |-> issued + i, name |-> calls[i].name, keep |-> calls[i].keep]]
           done == Named(made, {"thinking_done"})
           ends == Named(made, {"end"})
           rest == Named(made, Names \ {"end", "thinking_done"})
           asked == Append(Seen(messages), Asking(IdsOf(made)))
           moved == IF Transition(made) THEN Append(asked, Result(done[1].id, "remark")) ELSE asked
           warned == IF rest = <<>> THEN moved
                     ELSE moved \o [i \in DOMAIN ends |-> Result(ends[i].id, "remark")] IN
       /\ \A i \in 1..n : calls[i].name # "compact" => calls[i].keep = NoInt
       /\ messages' = warned
       /\ issued' = issued + n
       /\ iteration' = Counted(n)
       /\ IF Transition(made)
          THEN stage' = "execution" /\ prompt' = ExecutionPrompt
          ELSE UNCHANGED <<stage, prompt>>
       /\ IF n = 0 \/ (rest = <<>> /\ ends # <<>>) THEN End("normal_end")
          ELSE /\ pc' = IF rest = <<>> THEN "top" ELSE "tools"
               /\ batch' = rest
               /\ UNCHANGED reason
  /\ UNCHANGED <<start, thinks, dirty, injected, unread, changes>>

\* The next call is run; one that fails, is disabled or unknown is answered with the error.
RunTool ==
  /\ pc = "tools"
  /\ LET c == Head(batch)
         answered == Append(messages, Result(c.id, "full")) IN
     /\ \/ messages' = answered /\ UNCHANGED <<start, prompt, injected>>
        \/ /\ c.name = "memory" /\ messages' = answered
           /\ prompt' = [prompt EXCEPT !.block = stage]
           /\ UNCHANGED <<start, injected>>
        \/ /\ c.name = "compact" /\ c.keep # NoInt
           /\ messages' = Compacted(answered, c.keep)
           /\ start' = 0 /\ injected' = FALSE
           /\ UNCHANGED prompt
  /\ batch' = Tail(batch)
  /\ pc' = IF Tail(batch) = <<>> THEN "top" ELSE "tools"
  /\ UNCHANGED <<stage, thinks, dirty, iteration, issued, unread, changes, reason>>

\* keep_recent is not a number: the comparison raises, outside the handler's try.
CompactCrashes ==
  /\ pc = "tools" /\ Head(batch).name = "compact" /\ Head(batch).keep = NoInt
  /\ messages' = Append(messages, Result(Head(batch).id, "full"))
  /\ End("crash")
  /\ UNCHANGED <<start, config, iteration, issued, injected, unread, changes>>

Progress == \/ Iterate \/ Exhausted \/ PauseEnds \/ CallFails \/ Respond \/ RunTool
            \/ CompactCrashes
Next == Progress \/ Interrupted \/ Change

Spec == Init /\ [][Next]_vars
\* Waits are bounded: the pause by ten minutes, a request by its timeout, and so are tools.
FairSpec == Spec /\ WF_vars(Progress)

-----------------------------------------------------------------------------
(* Properties.                                                             *)

\* The results of the calls of message i, in the block of results behind it.
BlockBehind(ms, i) ==
  {ms[j].answers : j \in {k \in (i + 1)..Len(ms) : \A l \in (i + 1)..k : ms[l].role = "tool"}}
CallsAnswered(ms) == \A i \in DOMAIN ms : ToSet(ms[i].calls) \subseteq BlockBehind(ms, i)
ResultsAsked(ms) ==
  \A i \in DOMAIN ms : ms[i].role = "tool" => ms[i].answers \in CallsOf(SubSeq(ms, 1, i))

\* "every assistant message with tool_calls is immediately followed by tool-role messages for
\* each tool_call_id" (openai_sdk.py): so it is in what every adapter sends, whatever was
\* compacted, skipped or never run; Anthropic's and Gemini's send no result without its call
\* either, the legacy client of Gemini too (but that one sends calls that were never run), and
\* Anthropic's ends with the user.  What the script passes, the adapters send as it was built.
WireWellFormed ==
  pc = "call" =>
    /\ Validated(messages) =>
         /\ ToOpenAI(messages) = BuiltForOpenAI(messages)
         /\ ToAnthropic(messages) = BuiltForAnthropic(messages)
         /\ BuiltForGemini(messages) # <<>> => ToGemini(messages) = BuiltForGemini(messages)
    /\ CallsAnswered(ToOpenAI(messages))
    /\ CallsAnswered(ToGemini(messages)) /\ ResultsAsked(ToGemini(messages))
    /\ ResultsAsked(LegacyGemini(messages))
    /\ \A wire \in {ToAnthropic(messages), LegacyAnthropic(messages)} :
         /\ CallsAnswered(wire) /\ ResultsAsked(wire)
         /\ wire # <<>> => Last(wire).role # "assistant"

\* "the agent sees the full output for exactly one LLM call" (agent.py): a result has been sent
\* in full at most once, and none is shortened before.
SeenFullOnce ==
  \A i \in DOMAIN messages :
    messages[i].seen <= 1 /\ (messages[i].text = "cut" => messages[i].seen = 1)

\* Every session ends.
SessionEnds == <>(pc = "ended")

=============================================================================
