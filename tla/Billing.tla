-------------------------------- MODULE Billing --------------------------------
(***************************************************************************)
(* The tier of one user against the subscriptions the user has at Stripe,  *)
(* which tells of them by webhooks: in any order, more than once, again    *)
(* when one is answered with an error, and never again when one is         *)
(* answered, even by a handler that did not find what it is about.  A       *)
(* handler is a transaction that reads the user, then the one row of       *)
(* subscriptions the user may have, and writes the columns that differ     *)
(* from what it read.                                                      *)
(***************************************************************************)
EXTENDS Integers, FiniteSets

CONSTANTS
  Subs,        \* Stripe's subscriptions
  Requests,    \* checkout requests at a time
  Handlers,    \* webhooks handled at a time
  MaxCheckouts,
  MaxEvents,   \* bound on the events
  MaxFaults    \* bound on answers lost, errors and events Stripe gives up

VARIABLES
  user,       \* users: tier and stripe_customer_id
  row,        \* the user's row of subscriptions
  requests,   \* the customer each checkout request has read
  customers,  \* customers created, numbered
  sessions,   \* checkout sessions that are open
  stripe,     \* the subscriptions as Stripe has them
  events,     \* events Stripe has to deliver
  handlers,   \* the webhooks under way
  told,       \* history: the newest event applied
  astray,     \* history: events lost, out of order or handled at once, or more than
              \* one subscription, customer or plan at a time
  mixed,      \* history: two events of the tier handled at once, or the end of a
              \* subscription the row is not of
  asked,      \* checkouts asked for
  clock, faults

account == <<user, row>>
stripes == <<customers, sessions, stripe, events, clock>>
history == <<astray, mixed>>
vars == <<account, requests, stripes, handlers, told, history, asked, faults>>

Tiers == {"individual", "team"}   \* _PAID_TIERS
NoCustomer == 0
NoRow == [tier |-> "free", status |-> "none", sub |-> "none", customer |-> NoCustomer]
Unknown == [tier |-> "free", status |-> "none", customer |-> NoCustomer]
NoEvent == [n |-> 0, type |-> "none", sub |-> "none", status |-> "none"]
Idle == [event |-> NoEvent, at |-> "rest", user |-> "free", row |-> NoRow]
Live(s) == stripe[s].status \in {"active", "past_due"}

TypeOK ==
  /\ user \in [tier : {"free"} \cup Tiers, customer : 0 .. customers]
  /\ row.tier \in {"free"} \cup Tiers /\ row.sub \in Subs \cup {"none"}
  /\ row.status \in {"none", "active", "past_due", "canceled"} /\ row.customer \in 0 .. customers
  /\ \A s \in Subs : stripe[s].customer \in 0 .. customers
  /\ astray \in BOOLEAN /\ mixed \in BOOLEAN

Init ==
  /\ user = [tier |-> "free", customer |-> NoCustomer] /\ row = NoRow
  /\ requests = [r \in Requests |-> [at |-> "rest", customer |-> NoCustomer]]
  /\ customers = 0 /\ sessions = {} /\ stripe = [s \in Subs |-> Unknown]
  /\ events = {} /\ handlers = [h \in Handlers |-> Idle]
  /\ told = 0 /\ astray = FALSE /\ mixed = FALSE /\ asked = 0 /\ clock = 0 /\ faults = 0

(***************************************************************************)
(* POST /billing/checkout-session                                          *)
(***************************************************************************)
(* The user is loaded before the handler runs ...                            *)
AskCheckout(r) ==
  /\ requests[r].at = "rest" /\ asked < MaxCheckouts /\ asked' = asked + 1
  /\ requests' = [requests EXCEPT ![r] = [at |-> "loaded", customer |-> user.customer]]
  /\ UNCHANGED <<account, stripes, handlers, told, history, faults>>

(* ... and gets a customer where it had none then, even if it has one now.   *)
Checkout(r) ==
  /\ requests[r].at = "loaded"
  /\ IF requests[r].customer = NoCustomer
     THEN customers' = customers + 1 /\ user' = [user EXCEPT !.customer = customers']
     ELSE UNCHANGED <<customers, user>>
  /\ astray' = (astray \/ (user'.customer # user.customer /\ user.customer # NoCustomer))
  /\ \E tier \in Tiers :
       sessions' = sessions \cup {[tier |-> tier,
         customer |-> IF requests[r].customer = NoCustomer THEN user'.customer ELSE requests[r].customer]}
  /\ requests' = [requests EXCEPT ![r] = [at |-> "rest", customer |-> NoCustomer]]
  /\ UNCHANGED <<row, stripe, events, handlers, told, mixed, asked, clock, faults>>

(***************************************************************************)
(* Stripe                                                                  *)
(***************************************************************************)
Event(n, type, s, status) == [n |-> n, type |-> type, sub |-> s, status |-> status]

Sends(type, s, status) ==
  /\ clock < MaxEvents /\ clock' = clock + 1
  /\ events' = events \cup {Event(clock', type, s, status)}

Changes(s, status, type) ==
  /\ stripe' = [stripe EXCEPT ![s].status = status]
  /\ Sends(type, s, status)
  /\ UNCHANGED <<account, requests, customers, sessions, handlers, told, history, asked, faults>>

(* The user pays a checkout session.  Nothing keeps one who has a            *)
(* subscription from taking another.                                         *)
Subscribe(s) ==
  /\ stripe[s] = Unknown
  /\ \E x \in sessions :
       /\ stripe' = [stripe EXCEPT ![s] = [tier |-> x.tier, status |-> "active", customer |-> x.customer]]
       /\ sessions' = sessions \ {x}
  /\ Sends("completed", s, "active")
  /\ astray' = (astray \/ \E o \in Subs : Live(o))
  /\ UNCHANGED <<account, requests, customers, handlers, told, mixed, asked, faults>>

PaymentFails(s) == stripe[s].status = "active" /\ Changes(s, "past_due", "payment_failed")
Pays(s) == stripe[s].status = "past_due" /\ Changes(s, "active", "paid")
Ends(s) == Live(s) /\ Changes(s, "canceled", "deleted")

(* A renewal, a change by the portal: an update tells of it, without the     *)
(* tier.                                                                     *)
Updates(s) ==
  /\ Live(s)
  /\ \E tier \in Tiers :
       /\ stripe' = [stripe EXCEPT ![s].tier = tier]
       /\ astray' = (astray \/ tier # stripe[s].tier)
  /\ Sends("updated", s, stripe[s].status)
  /\ UNCHANGED <<account, requests, customers, sessions, handlers, told, mixed, asked, faults>>

GiveUp ==
  /\ faults < MaxFaults /\ faults' = faults + 1
  /\ \E e \in events : (\A h \in Handlers : handlers[h].event # e) /\ events' = events \ {e}
  /\ astray' = TRUE
  /\ UNCHANGED <<account, requests, customers, sessions, stripe, handlers, told, mixed, asked, clock>>

(***************************************************************************)
(* POST /billing/webhook                                                   *)
(***************************************************************************)
OfTier == {"completed", "deleted"}   \* the events that change the user's tier

Receive(h) ==
  /\ handlers[h] = Idle
  /\ \E e \in events :
       /\ \A g \in Handlers : handlers[g].event # e
       /\ handlers' = [handlers EXCEPT ![h].event = e, ![h].at =
            IF e.type \in OfTier THEN "user" ELSE "row"]
       /\ astray' = (astray \/ e.n < told \/ \E g \in Handlers : handlers[g] # Idle)
       /\ mixed' = (mixed \/ \E g \in Handlers :
            {e.type, handlers[g].event.type} \subseteq OfTier)
  /\ UNCHANGED <<account, requests, stripes, told, asked, faults>>

(* The answer is 200: the event is done with, unless Stripe does not get it. *)
Answered(h) ==
  /\ \/ events' = events \ {handlers[h].event} /\ UNCHANGED faults
     \/ faults < MaxFaults /\ faults' = faults + 1 /\ UNCHANGED events
  /\ handlers' = [handlers EXCEPT ![h] = Idle]
  /\ told' = IF handlers[h].event.n > told THEN handlers[h].event.n ELSE told
  /\ UNCHANGED <<requests, customers, sessions, stripe, clock, asked>>

(* _find_user: a checkout by the id it carries, the rest by the customer.    *)
FindUser(h) ==
  LET e == handlers[h].event IN
  /\ handlers[h].at = "user"
  /\ \/ /\ e.type = "completed" \/ stripe[e.sub].customer = user.customer
        /\ handlers' = [handlers EXCEPT ![h].at = "row", ![h].user = user.tier]
        /\ UNCHANGED <<account, requests, stripes, told, history, asked, faults>>
     \/ /\ e.type # "completed" /\ stripe[e.sub].customer # user.customer
        /\ Answered(h) /\ UNCHANGED <<account, history>>

(* What the row has to be for the query to find it.                          *)
Matches(e, r) ==
  /\ r # NoRow
  /\ e.type # "completed" => r.sub = e.sub
  /\ e.type = "payment_failed" => r.customer = stripe[e.sub].customer

FindRow(h) ==
  LET e == handlers[h].event IN
  /\ handlers[h].at = "row"
  /\ \/ /\ Matches(e, row) \/ e.type \in OfTier
        /\ handlers' = [handlers EXCEPT ![h].at = "commit", ![h].row = IF Matches(e, row) THEN row ELSE NoRow]
        /\ UNCHANGED <<account, requests, stripes, told, history, asked, faults>>
     \/ /\ ~Matches(e, row) /\ e.type \notin OfTier
        /\ Answered(h) /\ UNCHANGED <<account, history>>

(* An UPDATE has the columns that differ from what was read.                 *)
Merged(now, seen, new) == [c \in DOMAIN now |-> IF new[c] # seen[c] THEN new[c] ELSE now[c]]

Wanted(e, seen) ==
  CASE e.type = "completed" -> [tier |-> stripe[e.sub].tier, status |-> "active", sub |-> e.sub,
                                customer |-> stripe[e.sub].customer]
    [] e.type = "updated" -> [seen EXCEPT !.status = e.status]
    [] e.type = "payment_failed" -> [seen EXCEPT !.status = "past_due"]
    [] e.type = "paid" -> [seen EXCEPT !.status = "active"]
    [] e.type = "deleted" -> IF seen = NoRow THEN seen
                             ELSE [seen EXCEPT !.tier = "free", !.status = "canceled"]

(* A mutant: the downgrade is of the row alone.                              *)
TierOfRow(e, tier) == IF e.type = "completed" THEN stripe[e.sub].tier ELSE tier
TierAfter(e, tier) ==
  CASE e.type = "completed" -> stripe[e.sub].tier
    [] e.type = "deleted" -> "free"
    [] OTHER -> tier

(* The commit.  A second row of the user is refused (Fails).                 *)
Apply(h) ==
  LET job == handlers[h]
      new == Wanted(job.event, job.row)
      tier == TierAfter(job.event, job.user)
  IN /\ job.at = "commit"
     /\ job.event.type = "completed" /\ job.row = NoRow => row = NoRow
     /\ row' = IF job.row = NoRow /\ job.event.type # "completed" THEN row
               ELSE Merged(row, job.row, new)
     /\ user' = IF tier = job.user THEN user ELSE [user EXCEPT !.tier = tier]
     /\ mixed' = (mixed \/ (job.event.type = "deleted" /\ job.row = NoRow /\ row # NoRow))
     /\ Answered(h) /\ UNCHANGED astray

(* The database fails, or the row has been inserted meanwhile: an error that *)
(* makes Stripe deliver the event again.                                     *)
Fails(h) ==
  /\ handlers[h] # Idle
  /\ \/ faults < MaxFaults /\ faults' = faults + 1
     \/ /\ handlers[h].at = "commit" /\ handlers[h].event.type = "completed"
        /\ handlers[h].row = NoRow /\ row # NoRow /\ UNCHANGED faults
  /\ handlers' = [handlers EXCEPT ![h] = Idle]
  /\ UNCHANGED <<account, requests, stripes, told, history, asked>>

Next ==
  \/ \E r \in Requests : AskCheckout(r) \/ Checkout(r)
  \/ \E s \in Subs : Subscribe(s) \/ PaymentFails(s) \/ Pays(s) \/ Ends(s) \/ Updates(s)
  \/ GiveUp
  \/ \E h \in Handlers : Receive(h) \/ FindUser(h) \/ FindRow(h) \/ Apply(h) \/ Fails(h)

Spec == Init /\ [][Next]_vars

(***************************************************************************)
(* Properties                                                              *)
(***************************************************************************)
(* check_can_start_sandbox, which no setting turns off.                      *)
Blocked == row.status = "past_due"

(* When Stripe has told everything, in order and of one subscription at a    *)
(* time, some of it twice, the user has the tier that is paid for and is     *)
(* blocked exactly while a payment is due.                                   *)
FollowsStripe ==
  events = {} /\ ~astray /\ ~mixed =>
    /\ user.tier = IF \E s \in Subs : Live(s) THEN stripe[CHOOSE s \in Subs : Live(s)].tier ELSE "free"
    /\ Blocked <=> \E s \in Subs : stripe[s].status = "past_due"
=============================================================================
