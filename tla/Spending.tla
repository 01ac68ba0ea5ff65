------------------------------ MODULE Spending ------------------------------
(***************************************************************************)
(* The budgets of a project and the agents that spend them: before every   *)
(* call of the model a session looks at the tokens of the day and the      *)
(* calls of the hour.  What a session has used is recorded in the          *)
(* transaction of its wake cycle, which the others see when it commits:    *)
(* an agent reckons with its own spending and what is committed.           *)
(***************************************************************************)
EXTENDS Integers

CONSTANTS
  Agents,
  Budgets,     \* daily token budgets the user may set
  Rates,       \* limits on calls per hour the user may set; 0 is none
  MaxTokens,   \* bound on the tokens of a call
  MaxPolls,    \* RATE_LIMIT_MAX_WAIT_SECONDS / RATE_LIMIT_POLL_SECONDS
  MaxCalls,    \* bound on the calls of an hour
  NoLimits     \* no row in memory

Limits == [budget : Budgets, rate : Rates]

ASSUME SpendingAssumption ==
  /\ Budgets \subseteq Nat \ {0} /\ Budgets # {} /\ Rates \subseteq Nat /\ Rates # {}
  /\ {MaxTokens, MaxPolls, MaxCalls} \subseteq Nat \ {0}
  /\ NoLimits \notin Limits

VARIABLES
  settings,  \* the row of project_settings
  tokens,    \* committed usage of the day
  calls,     \* committed calls of the last hour
  share,     \* history: what of tokens each agent has used
  pc,        \* what the agent's session is at
  policy,    \* Agent._budget
  pending,   \* recorded in the agent's transaction
  polls,     \* wait_total
  seen       \* fresh_ps: the row as the session has it in memory

vars == <<settings, tokens, calls, share, pc, policy, pending, polls, seen>>

Nothing == [tokens |-> 0, calls |-> 0]

TypeOK ==
  /\ settings \in Limits
  /\ tokens \in Nat /\ calls \in Nat /\ share \in [Agents -> Nat]
  /\ pc \in [Agents -> {"asleep", "gate", "paused", "call"}]
  /\ policy \in [Agents -> Limits \cup {NoLimits}] /\ seen \in [Agents -> Limits \cup {NoLimits}]
  /\ \A a \in Agents : policy[a] = NoLimits <=> pc[a] = "asleep"
  /\ pending \in [Agents -> [tokens : Nat, calls : Nat]]
  /\ polls \in [Agents -> 0..(MaxPolls - 1)]
  /\ \A a \in Agents : polls[a] # 0 => seen[a] # NoLimits
  /\ \A a \in Agents : polls[a] # 0 => pc[a] = "paused"

Init ==
  /\ settings \in Limits
  /\ tokens = 0 /\ calls = 0 /\ share = [a \in Agents |-> 0]
  /\ pc = [a \in Agents |-> "asleep"]
  /\ policy = [a \in Agents |-> NoLimits] /\ seen = policy
  /\ pending = [a \in Agents |-> Nothing]
  /\ polls = [a \in Agents |-> 0]

\* daily_tokens_for_project and hourly_stats, in the agent's transaction.
TokensToday(a) == tokens + pending[a].tokens
CallsLastHour(a) == calls + pending[a].calls

At(a, where) == pc' = [pc EXCEPT ![a] = where]

Forgotten(a) ==
  /\ At(a, "asleep")
  /\ policy' = [policy EXCEPT ![a] = NoLimits] /\ seen' = [seen EXCEPT ![a] = NoLimits]
  /\ pending' = [pending EXCEPT ![a] = Nothing]
  /\ polls' = [polls EXCEPT ![a] = 0]

\* The session ends, and the wake cycle commits what it used.
Ends(a, used) ==
  /\ Forgotten(a)
  /\ tokens' = tokens + used.tokens /\ calls' = calls + used.calls
  /\ share' = [share EXCEPT ![a] = @ + used.tokens]

Wake(a) ==
  /\ pc[a] = "asleep"
  /\ policy' = [policy EXCEPT ![a] = settings]
  /\ At(a, "gate")
  /\ UNCHANGED <<settings, tokens, calls, share, pending, polls, seen>>

\* A configuration change may have made the session read its limits again.
Reload(a) ==
  /\ pc[a] = "gate"
  /\ policy' = [policy EXCEPT ![a] = settings]
  /\ UNCHANGED <<settings, tokens, calls, share, pc, pending, polls, seen>>

\* The mutant of Spent: the session looks at what the others see.
SpentByOthers(a) == tokens >= policy[a].budget
Spent(a) == TokensToday(a) >= policy[a].budget

TooFast(a, limits) == limits.rate > 0 /\ CallsLastHour(a) >= limits.rate

\* The daily budgets end the session, the hourly limits pause it.
Gate(a) ==
  /\ pc[a] = "gate"
  /\ \/ Spent(a) /\ Ends(a, pending[a])
     \/ /\ ~Spent(a)
        /\ At(a, IF TooFast(a, policy[a]) THEN "paused" ELSE "call")
        /\ UNCHANGED <<tokens, calls, share, pending, policy, polls, seen>>
  /\ UNCHANGED settings

\* A poll reads the row of the settings.  The row that the previous poll has left in the
\* session's memory is not read again: what a later poll sees is what the first one saw.
RowAtPoll(a) == IF seen[a] = NoLimits THEN settings ELSE seen[a]

\* The mutant of NextPoll: waiting is not counted.
NextPollUncounted(n) == n
NextPoll(n) == n + 1

\* rate_limit_soft_pause; the daily budgets are not looked at again.
Poll(a) ==
  /\ pc[a] = "paused"
  /\ \/ /\ ~TooFast(a, RowAtPoll(a))
        /\ At(a, "call")
        /\ policy' = [policy EXCEPT ![a] = RowAtPoll(a)]
        /\ polls' = [polls EXCEPT ![a] = 0] /\ seen' = [seen EXCEPT ![a] = NoLimits]
        /\ UNCHANGED <<tokens, calls, share, pending>>
     \/ /\ TooFast(a, RowAtPoll(a)) /\ NextPoll(polls[a]) = MaxPolls
        /\ Ends(a, pending[a])
     \/ /\ TooFast(a, RowAtPoll(a)) /\ NextPoll(polls[a]) < MaxPolls
        /\ polls' = [polls EXCEPT ![a] = NextPoll(@)]
        /\ seen' = [seen EXCEPT ![a] = RowAtPoll(a)]
        /\ UNCHANGED <<tokens, calls, share, pc, policy, pending>>
  /\ UNCHANGED settings

\* The call, and its usage; the session goes on, or has come to its end.
Call(a) ==
  /\ pc[a] = "call" /\ CallsLastHour(a) < MaxCalls
  /\ \E n \in 1..MaxTokens :
       LET used == [tokens |-> pending[a].tokens + n, calls |-> pending[a].calls + 1] IN
       \/ /\ At(a, "gate") /\ pending' = [pending EXCEPT ![a] = used]
          /\ UNCHANGED <<tokens, calls, share, policy, polls, seen>>
       \/ Ends(a, used)
  /\ UNCHANGED settings

CallFails(a) ==
  /\ pc[a] = "call"
  /\ Ends(a, pending[a])
  /\ UNCHANGED settings

\* An interrupt, a crash or an exception rolls the transaction back, and with it the record
\* of what was spent.
Abort(a) ==
  /\ pc[a] # "asleep"
  /\ Forgotten(a)
  /\ UNCHANGED <<settings, tokens, calls, share>>

\* PATCH /repositories/{id}/settings.
UpdateSettings ==
  /\ settings' \in Limits
  /\ UNCHANGED <<tokens, calls, share, pc, policy, pending, polls, seen>>

\* What was used an hour ago, and what was used yesterday, counts no longer.
HourPasses ==
  /\ calls' = 0
  /\ pending' = [a \in Agents |-> [pending[a] EXCEPT !.calls = 0]]
  /\ UNCHANGED <<settings, tokens, share, pc, policy, polls, seen>>

Midnight ==
  /\ tokens' = 0 /\ share' = [a \in Agents |-> 0]
  /\ pending' = [a \in Agents |-> [pending[a] EXCEPT !.tokens = 0]]
  /\ UNCHANGED <<settings, calls, pc, policy, polls, seen>>

Step(a) == Wake(a) \/ Reload(a) \/ Gate(a) \/ Poll(a) \/ Call(a) \/ CallFails(a) \/ Abort(a)
Next == (\E a \in Agents : Step(a)) \/ UpdateSettings \/ HourPasses \/ Midnight

Spec == Init /\ [][Next]_vars
\* Sleeps end, the loop runs on, and a request has a timeout.
Fairness == \A a \in Agents : WF_vars(Gate(a) \/ Poll(a) \/ Call(a))
FairSpec == Spec /\ Fairness

-----------------------------------------------------------------------------
(* Properties.                                                             *)

\* However the sessions overlap and whenever they commit, what an agent's sessions of a day
\* put on record stays below the largest budget that was set plus one call: a project that
\* ends every session at its budget can get past it by the factor of its agents, no further.
Overshoot ==
  \A a \in Agents : \E b \in Budgets : share[a] + pending[a].tokens < b + MaxTokens

\* Why it holds: nobody has used more than the sum that everybody sees, so a session that has
\* passed the gate, and calls the model or waits to do so, is below a budget that was set.
Bounded ==
  \A a \in Agents :
    /\ share[a] <= tokens
    /\ pc[a] \in {"paused", "call"} => \E b \in Budgets : share[a] + pending[a].tokens < b

IndInv == TypeOK /\ Bounded /\ Overshoot

\* A paused session goes on or ends, whatever the others and the user do.
PauseEnds == \A a \in Agents : pc[a] = "paused" ~> pc[a] # "paused"

\* "Each poll re-reads project settings so a user adjusting limits from the frontend takes
\* effect within one cycle" (helpers.py): not so from the second poll on.
RaiseTakesEffect ==
  [][\A a \in Agents : Poll(a) /\ settings.rate = 0 => pc'[a] = "call"]_vars

=============================================================================
