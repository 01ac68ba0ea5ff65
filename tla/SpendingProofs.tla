--------------------------- MODULE SpendingProofs ---------------------------
(***************************************************************************)
(* Theorems about Spending for any agents, budgets, rate limits, calls and *)
(* number of polls.                                                        *)
(***************************************************************************)
EXTENDS Spending, TLAPS

\* What one agent has to do with Bounded and Overshoot.
Within(a) ==
  /\ share[a] <= tokens
  /\ pc[a] \in {"paused", "call"} => \E b \in Budgets : share[a] + pending[a].tokens < b
  /\ \E b \in Budgets : share[a] + pending[a].tokens < b + MaxTokens

LEMMA ByAgent == IndInv <=> TypeOK /\ \A a \in Agents : Within(a)
  BY DEF IndInv, Bounded, Overshoot, Within

-----------------------------------------------------------------------------
(* Types.                                                                  *)

\* There is a budget to be below of, and a first poll to come.
LEMMA Parameters ==
  /\ \E b \in Budgets : 0 < b
  /\ 0 \in 0..(MaxPolls - 1)
  /\ MaxTokens \in Nat
  /\ \A l \in Limits : l # NoLimits
<1>1. PICK b : b \in Budgets
  BY SpendingAssumption
<1>2. b \in Nat /\ b # 0
  BY <1>1, SpendingAssumption
<1>3. 0 < b
  BY <1>2
<1>4. MaxPolls \in Nat \ {0} /\ MaxTokens \in Nat
  BY SpendingAssumption
<1>5. 0 \in 0..(MaxPolls - 1)
  BY <1>4
<1> QED
  BY <1>1, <1>3, <1>4, <1>5, SpendingAssumption

\* A session that ends leaves nothing of its objects, whatever it has used.
LEMMA ForgottenType ==
  ASSUME TypeOK, NEW a \in Agents, Forgotten(a),
         settings' \in Limits, tokens' \in Nat, calls' \in Nat, share' \in [Agents -> Nat]
  PROVE  TypeOK'
<1>1. /\ pc' \in [Agents -> {"asleep", "gate", "paused", "call"}]
      /\ policy' \in [Agents -> Limits \cup {NoLimits}] /\ seen' \in [Agents -> Limits \cup {NoLimits}]
      /\ pending' \in [Agents -> [tokens : Nat, calls : Nat]]
      /\ polls' \in [Agents -> 0..(MaxPolls - 1)]
  BY Parameters DEF TypeOK, Forgotten, At, Nothing
<1>2. /\ pc'[a] = "asleep" /\ policy'[a] = NoLimits /\ polls'[a] = 0
      /\ \A x \in Agents \ {a} : /\ pc'[x] = pc[x] /\ policy'[x] = policy[x]
                                /\ polls'[x] = polls[x] /\ seen'[x] = seen[x]
  BY DEF TypeOK, Forgotten, At
<1> QED
  BY <1>1, <1>2 DEF TypeOK

LEMMA EndsType ==
  ASSUME TypeOK, NEW a \in Agents, NEW used \in [tokens : Nat, calls : Nat], Ends(a, used),
         UNCHANGED settings
  PROVE  TypeOK'
<1>1. tokens' \in Nat /\ calls' \in Nat /\ share' \in [Agents -> Nat] /\ settings' \in Limits
  BY DEF TypeOK, Ends
<1> QED
  BY <1>1, ForgottenType DEF Ends

\* Every step of a session keeps the types.
LEMMA SessionType ==
  ASSUME TypeOK, NEW a \in Agents, Step(a)
  PROVE  TypeOK'
<1> USE SpendingAssumption
<1>1. pending[a] \in [tokens : Nat, calls : Nat]
  BY DEF TypeOK
<1>2. CASE Wake(a)
  BY <1>2 DEF TypeOK, Wake, At
<1>3. CASE Reload(a)
  BY <1>3 DEF TypeOK, Reload
<1>4. CASE Gate(a)
  <2>1. CASE Ends(a, pending[a])
    BY <1>1, <1>4, <2>1, EndsType DEF Gate
  <2>2. CASE ~Spent(a)
    BY <1>4, <2>2 DEF Gate, At, TypeOK
  <2> QED
    BY <1>4, <2>1, <2>2 DEF Gate
<1>5. CASE Poll(a)
  <2>1. CASE ~TooFast(a, RowAtPoll(a))
    <3>1. RowAtPoll(a) \in Limits /\ RowAtPoll(a) # NoLimits
      BY Parameters DEF RowAtPoll, TypeOK
    <3>2. /\ pc[a] = "paused" /\ UNCHANGED <<settings, tokens, calls, share, pending>>
          /\ pc' = [pc EXCEPT ![a] = "call"] /\ policy' = [policy EXCEPT ![a] = RowAtPoll(a)]
          /\ polls' = [polls EXCEPT ![a] = 0] /\ seen' = [seen EXCEPT ![a] = NoLimits]
      BY <1>5, <2>1 DEF Poll, At
    <3> QED
      BY <3>1, <3>2, Parameters DEF TypeOK
  <2>2. CASE Ends(a, pending[a])
    BY <1>1, <1>5, <2>2, EndsType DEF Poll
  <2>3. CASE TooFast(a, RowAtPoll(a)) /\ NextPoll(polls[a]) < MaxPolls
    <3>1. /\ pc[a] = "paused" /\ UNCHANGED <<settings, tokens, calls, share, pc, policy, pending>>
          /\ polls' = [polls EXCEPT ![a] = NextPoll(polls[a])]
          /\ seen' = [seen EXCEPT ![a] = RowAtPoll(a)]
      BY <1>5, <2>3 DEF Poll
    <3>2. RowAtPoll(a) \in Limits
      BY DEF RowAtPoll, TypeOK
    <3>3. NextPoll(polls[a]) \in 0..(MaxPolls - 1)
      BY <2>3 DEF NextPoll, TypeOK
    <3> QED
      BY <3>1, <3>2, <3>3, Parameters DEF TypeOK
  <2> QED
    BY <1>5, <2>1, <2>2, <2>3 DEF Poll
<1>6. CASE Call(a)
  <2> PICK n \in 1..MaxTokens :
        LET used == [tokens |-> pending[a].tokens + n, calls |-> pending[a].calls + 1] IN
        \/ /\ At(a, "gate") /\ pending' = [pending EXCEPT ![a] = used]
           /\ UNCHANGED <<tokens, calls, share, policy, polls, seen>>
        \/ Ends(a, used)
    BY <1>6 DEF Call
  <2> DEFINE used == [tokens |-> pending[a].tokens + n, calls |-> pending[a].calls + 1]
  <2>1. used \in [tokens : Nat, calls : Nat]
    BY <1>1
  <2>2. CASE Ends(a, used)
    BY <1>6, <2>1, <2>2, EndsType DEF Call
  <2>3. CASE /\ At(a, "gate") /\ pending' = [pending EXCEPT ![a] = used]
             /\ UNCHANGED <<tokens, calls, share, policy, polls, seen>>
    <3> HIDE DEF used
    <3> QED
      BY <1>6, <2>1, <2>3 DEF Call, At, TypeOK
  <2> QED
    BY <2>2, <2>3
<1>7. CASE CallFails(a)
  BY <1>1, <1>7, EndsType DEF CallFails
<1>8. CASE Abort(a)
  BY <1>8, ForgottenType DEF Abort, TypeOK
<1> QED
  BY <1>2, <1>3, <1>4, <1>5, <1>6, <1>7, <1>8 DEF Step

\* ... and so does what the user and the clock do.
LEMMA EnvironmentType ==
  ASSUME TypeOK, UpdateSettings \/ HourPasses \/ Midnight
  PROVE  TypeOK'
  BY DEF UpdateSettings, HourPasses, Midnight, TypeOK

-----------------------------------------------------------------------------
(* The bound.                                                              *)

\* A session that ends adds to its agent's share and to the sum what it leaves out of pending.
LEMMA EndsWithin ==
  ASSUME TypeOK, TypeOK', NEW a \in Agents, NEW used \in [tokens : Nat, calls : Nat], Ends(a, used),
         share[a] <= tokens, \E b \in Budgets : share[a] + used.tokens < b + MaxTokens
  PROVE  Within(a)'
<1>1. /\ share'[a] = share[a] + used.tokens /\ tokens' = tokens + used.tokens
      /\ pending'[a].tokens = 0 /\ pc'[a] = "asleep"
  BY DEF Ends, Forgotten, At, Nothing, TypeOK
<1>2. share[a] \in Nat /\ tokens \in Nat /\ used.tokens \in Nat
  BY DEF TypeOK
<1> QED
  BY <1>1, <1>2, SpendingAssumption DEF Within

\* One that passes its gate is below the budget it has read, since its agent's share is part of
\* what is committed.
LEMMA GateWithin ==
  ASSUME TypeOK, NEW a \in Agents, share[a] <= tokens, pc[a] # "asleep", ~Spent(a)
  PROVE  \E b \in Budgets : share[a] + pending[a].tokens < b
<1>1. policy[a] \in Limits
  BY DEF TypeOK
<1>2. policy[a].budget \in Budgets /\ policy[a].budget \in Nat
  BY <1>1, SpendingAssumption DEF Limits
<1>3. share[a] \in Nat /\ tokens \in Nat /\ pending[a].tokens \in Nat
  BY DEF TypeOK
<1>4. tokens + pending[a].tokens < policy[a].budget
  BY <1>2, <1>3 DEF Spent, TokensToday
<1> QED
  BY <1>2, <1>3, <1>4

\* Below a budget is below it plus a call.
LEMMA BelowWithin ==
  ASSUME NEW n \in Nat, NEW k \in 0..MaxTokens, \E b \in Budgets : n < b
  PROVE  \E b \in Budgets : n + k < b + MaxTokens
  BY SpendingAssumption

\* A session's step keeps its own agent within the bound ...
LEMMA SessionWithin ==
  ASSUME TypeOK, TypeOK', NEW a \in Agents, Within(a), Step(a)
  PROVE  Within(a)'
<1> USE SpendingAssumption
<1>1. /\ share[a] \in Nat /\ tokens \in Nat /\ pending[a].tokens \in Nat
      /\ pending[a] \in [tokens : Nat, calls : Nat]
  BY DEF TypeOK
<1>2. /\ share[a] <= tokens
      /\ \E b \in Budgets : share[a] + pending[a].tokens < b + MaxTokens
  BY DEF Within
<1>3. CASE Wake(a)
  BY <1>1, <1>3 DEF Within, Wake, At, TypeOK
<1>4. CASE Reload(a)
  BY <1>1, <1>4 DEF Within, Reload, TypeOK
<1>5. CASE Gate(a)
  <2>1. CASE Ends(a, pending[a])
    BY <1>1, <1>2, <2>1, EndsWithin
  <2>2. CASE ~Spent(a) /\ UNCHANGED <<tokens, share, pending>>
    BY <1>1, <1>2, <1>5, <2>2, GateWithin DEF Gate, Within
  <2> QED
    BY <1>5, <2>1, <2>2 DEF Gate
<1>6. CASE Poll(a)
  <2>1. CASE Ends(a, pending[a])
    BY <1>1, <1>2, <2>1, EndsWithin
  <2>2. CASE UNCHANGED <<tokens, share, pending>>
    BY <1>1, <1>6, <2>2 DEF Poll, Within
  <2> QED
    BY <1>6, <2>1, <2>2 DEF Poll
<1>7. CASE Call(a)
  <2> PICK n \in 1..MaxTokens :
        LET used == [tokens |-> pending[a].tokens + n, calls |-> pending[a].calls + 1] IN
        \/ /\ At(a, "gate") /\ pending' = [pending EXCEPT ![a] = used]
           /\ UNCHANGED <<tokens, calls, share, policy, polls, seen>>
        \/ Ends(a, used)
    BY <1>7 DEF Call
  <2> DEFINE used == [tokens |-> pending[a].tokens + n, calls |-> pending[a].calls + 1]
  <2>1. used \in [tokens : Nat, calls : Nat] /\ used.tokens = pending[a].tokens + n
    BY <1>1
  <2>2. \E b \in Budgets : share[a] + pending[a].tokens < b
    BY <1>7 DEF Call, Within
  <2>3. \E b \in Budgets : (share[a] + pending[a].tokens) + n < b + MaxTokens
    BY <1>1, <2>2, BelowWithin
  <2>4. share[a] + used.tokens = (share[a] + pending[a].tokens) + n
    BY <1>1, <2>1
  <2>5. CASE Ends(a, used)
    BY <1>2, <2>1, <2>3, <2>4, <2>5, EndsWithin
  <2>6. CASE /\ At(a, "gate") /\ pending' = [pending EXCEPT ![a] = used]
             /\ UNCHANGED <<tokens, calls, share, policy, polls, seen>>
    <3>1. pending'[a] = used /\ pc'[a] = "gate"
      BY <2>6 DEF At, TypeOK
    <3> HIDE DEF used
    <3> QED
      BY <1>2, <2>3, <2>4, <2>6, <3>1 DEF Within
  <2> QED
    BY <2>5, <2>6
<1>8. CASE CallFails(a)
  BY <1>1, <1>2, <1>8, EndsWithin DEF CallFails
<1>9. CASE Abort(a)
  <2>1. /\ share' = share /\ tokens' = tokens
        /\ pending'[a].tokens = 0 /\ pc'[a] = "asleep"
    BY <1>9 DEF Abort, Forgotten, At, Nothing, TypeOK
  <2> QED
    BY <1>1, <1>2, <2>1 DEF Within
<1> QED
  BY <1>3, <1>4, <1>5, <1>6, <1>7, <1>8, <1>9 DEF Step

\* ... and the others: it only adds to the sum.
LEMMA OthersWithin ==
  ASSUME TypeOK, TypeOK', NEW a \in Agents, NEW x \in Agents \ {a}, Within(x), Step(a)
  PROVE  Within(x)'
<1>1. share'[x] = share[x] /\ pending'[x] = pending[x] /\ pc'[x] = pc[x]
  BY DEF TypeOK, Step, Wake, Reload, Gate, Poll, Call, CallFails, Abort, Ends, Forgotten, At
<1>2. tokens <= tokens'
  <2>1. pending[a].tokens \in Nat /\ tokens \in Nat
    BY DEF TypeOK
  <2>2. \A n \in 1..MaxTokens : n \in Nat
    BY SpendingAssumption
  <2> QED
    BY <2>1, <2>2 DEF Step, Wake, Reload, Gate, Poll, Call, CallFails, Abort, Ends
<1>3. share[x] \in Nat /\ tokens \in Nat /\ tokens' \in Nat
  BY DEF TypeOK
<1> QED
  BY <1>1, <1>2, <1>3 DEF Within

\* At midnight everybody is below any budget.
LEMMA EnvironmentWithin ==
  ASSUME TypeOK, NEW x \in Agents, Within(x), UpdateSettings \/ HourPasses \/ Midnight
  PROVE  Within(x)'
<1> USE SpendingAssumption
<1>1. CASE UpdateSettings
  BY <1>1 DEF UpdateSettings, Within
<1>2. CASE HourPasses
  <2>1. pending'[x].tokens = pending[x].tokens
    BY <1>2 DEF HourPasses, TypeOK
  <2> QED
    BY <1>2, <2>1 DEF HourPasses, Within
<1>3. CASE Midnight
  <2>1. share'[x] = 0 /\ tokens' = 0 /\ pending'[x].tokens = 0
    BY <1>3 DEF Midnight, TypeOK
  <2>2. PICK b \in Budgets : 0 < b
    BY Parameters
  <2>3. 0 + 0 < b /\ 0 + 0 < b + MaxTokens
    BY <2>2
  <2> QED
    BY <2>1, <2>2, <2>3 DEF Within
<1> QED
  BY <1>1, <1>2, <1>3

-----------------------------------------------------------------------------
(* Theorems.                                                               *)

LEMMA InitIndInv == Init => IndInv
<1> SUFFICES ASSUME Init PROVE IndInv
  OBVIOUS
<1> USE SpendingAssumption
<1>1. TypeOK
  BY Parameters DEF Init, TypeOK, Nothing
<1>2. \A a \in Agents : share[a] = 0 /\ tokens = 0 /\ pending[a].tokens = 0
  BY DEF Init, Nothing
<1>4. ASSUME NEW a \in Agents PROVE Within(a)
  <2>1. pc[a] = "asleep"
    BY DEF Init
  <2>2. PICK b \in Budgets : 0 < b
    BY Parameters
  <2>3. 0 + 0 < b + MaxTokens
    BY <2>2, SpendingAssumption
  <2> QED
    BY <1>2, <2>1, <2>3 DEF Within
<1> QED
  BY <1>1, <1>4, ByAgent

LEMMA NextIndInv == IndInv /\ [Next]_vars => IndInv'
<1> SUFFICES ASSUME IndInv, [Next]_vars PROVE IndInv'
  OBVIOUS
<1>1. TypeOK /\ \A x \in Agents : Within(x)
  BY ByAgent
<1>2. ASSUME NEW a \in Agents, Step(a) PROVE TypeOK' /\ \A x \in Agents : Within(x)'
  <2>1. TypeOK'
    BY <1>1, <1>2, SessionType
  <2>2. Within(a)'
    BY <1>1, <1>2, <2>1, SessionWithin
  <2>3. ASSUME NEW x \in Agents \ {a} PROVE Within(x)'
    BY <1>1, <1>2, <2>1, OthersWithin
  <2> QED
    BY <2>1, <2>2, <2>3
<1>3. ASSUME UpdateSettings \/ HourPasses \/ Midnight
      PROVE  TypeOK' /\ \A x \in Agents : Within(x)'
  BY <1>1, <1>3, EnvironmentType, EnvironmentWithin
<1>4. ASSUME UNCHANGED vars PROVE TypeOK' /\ \A x \in Agents : Within(x)'
  BY <1>1, <1>4 DEF vars, TypeOK, Within
<1>5. TypeOK' /\ \A x \in Agents : Within(x)'
  BY <1>2, <1>3, <1>4 DEF Next
<1> QED
  BY <1>5 DEF IndInv, Bounded, Overshoot, Within

\* Types and bound hold in every behaviour of the sessions, the user and the clock.
THEOREM Invariance == Spec => []IndInv
  BY InitIndInv, NextIndInv, PTL DEF Spec

\* Every variable of the sessions and of the usage they share keeps its type: what the code
\* calls wait_total and its row in memory exist in a pause only.
THEOREM TypeCorrect == Spec => []TypeOK
<1>1. IndInv => TypeOK
  BY DEF IndInv
<1> QED
  BY <1>1, Invariance, PTL

\* An agent's sessions of a day put on record less than the largest budget plus one call.
THEOREM OvershootSafe == Spec => []Overshoot
<1>1. IndInv => Overshoot
  BY DEF IndInv
<1> QED
  BY <1>1, Invariance, PTL
=============================================================================
