------------------------------- MODULE Billing -------------------------------
(***************************************************************************)
(* How a profile follows its Stripe subscriptions.                         *)
(*                                                                         *)
(* Stripe sends an event for each change and sends it again until it is    *)
(* answered with 200, in no particular order.  A web process handles an    *)
(* event in steps that are not one transaction: it asks the cache whether  *)
(* the event was handled, loads the profile, saves the subscription id,    *)
(* reads the latest recorded transition and enqueues a state change, and   *)
(* at last marks the event in the cache.  The workers of Django-Q carry    *)
(* the changes out: one insert, then one update of Profile.state.          *)
(*                                                                         *)
(* Events of other products and of unknown customers, invoice.payment_     *)
(* failed and checkouts that are not paid change nothing here and are left *)
(* out, and so is the settings form, which saves its copy of the whole     *)
(* profile (module Trials).  Definitions whose comments begin "Fault"      *)
(* replace the next one without that word when properties are put to the   *)
(* test.                                                                   *)
(***************************************************************************)
EXTENDS Naturals, Sequences, FiniteSets

CONSTANTS
    Subscriptions,  \* Stripe subscription ids
    Statuses,       \* the statuses a living subscription takes
    Servers,        \* web processes that serve the webhook
    Workers,        \* processes of the Django-Q cluster
    None,           \* no subscription id, no status, no state
    Ordered,        \* environment: Stripe delivers an event only after the earlier ones
    Exclusive,      \* environment: a customer has one living subscription at a time
    Crashes,        \* environment: processes die and calls raise
    MaxEvents,      \* bound: events Stripe sends
    MaxTasks        \* bound: tasks in the queue

(* ProfileStates *)
States == {"stranger", "signed_up", "trial_started", "trial_ended",
           "subscribed", "cancelled", "churned"}

ASSUME BillingAssumption ==
    /\ Statuses \subseteq {"incomplete", "incomplete_expired", "trialing",
                     "active", "past_due", "unpaid"}
    /\ Ordered \in BOOLEAN /\ Exclusive \in BOOLEAN /\ Crashes \in BOOLEAN
    /\ MaxEvents \in Nat /\ MaxTasks \in Nat \ {0}
    /\ None \notin Subscriptions \cup States

VARIABLES
    stripe,         \* Stripe: status and cancel request of each subscription
    events,         \* Stripe: the events so far, oldest first
    cache,          \* events marked as handled for 24 hours
    subscriptionId, \* Profile.stripe_subscription_id
    state,          \* Profile.state
    latest,         \* to_state of the newest ProfileStateTransition
    servers,        \* the event each web process handles, and how far it is
    queue,          \* state changes in Redis
    workers,        \* the state change each worker carries out
    handled,        \* ghost: events answered with 200 at least once
    tracked,        \* ghost: events whose state change was enqueued
    newest,         \* ghost: the newest event loaded for, until handlers cross
    upset,          \* ghost: state changes were lost, raced or out of order
    crossed         \* ghost: handlers overlapped or ran out of order

vars == <<stripe, events, cache, subscriptionId, state, latest, servers, queue,
          workers, handled, tracked, newest, upset, crossed>>
atStripe == <<stripe, events>>
profile == <<subscriptionId, state, latest>>
ghosts == <<handled, tracked, newest, upset, crossed>>

EventIds == 1 .. MaxEvents
AllStatuses == Statuses \cup {"canceled"}
Events == [kind: {"created", "updated", "deleted", "checkout"},
           subscription: Subscriptions, status: AllStatuses, cancel: BOOLEAN,
           previous: Statuses \cup {None}]
Changes == [from: States, to: States]
ASSUME NoneAssumption == None \notin [change: Changes, made: BOOLEAN]
Steps == {"checked", "loaded", "saved", "read", "tracked", "done"}

TypeOK ==
    /\ stripe \in [Subscriptions -> [status: AllStatuses \cup {None},
                                     cancel: BOOLEAN]]
    /\ events \in Seq(Events) /\ Len(events) <= MaxEvents
    /\ cache \subseteq EventIds
    /\ subscriptionId \in Subscriptions \cup {None}
    /\ state \in States /\ latest \in States
    /\ servers \in [Servers -> [event: EventIds, step: Steps,
                                id: Subscriptions \cup {None},
                                from: States \cup {None}] \cup {None}]
    /\ queue \in Seq(Changes) /\ Len(queue) <= MaxTasks
    /\ workers \in [Workers -> [change: Changes, made: BOOLEAN] \cup {None}]
    /\ handled \subseteq EventIds
    /\ tracked \subseteq EventIds /\ newest \in 0 .. MaxEvents
    /\ upset \in BOOLEAN /\ crossed \in BOOLEAN

(* The signup's own state change is on its way. *)
Init ==
    /\ stripe = [s \in Subscriptions |-> [status |-> None, cancel |-> FALSE]]
    /\ events = <<>> /\ cache = {}
    /\ subscriptionId = None
    /\ state = "stranger" /\ latest = "stranger"
    /\ servers = [s \in Servers |-> None]
    /\ queue = <<[from |-> "stranger", to |-> "signed_up"]>>
    /\ workers = [w \in Workers |-> None]
    /\ handled = {} /\ tracked = {} /\ newest = 0
    /\ upset = FALSE /\ crossed = FALSE

-----------------------------------------------------------------------------
(* Stripe.                                                                 *)

Living(s) == stripe[s].status \in Statuses

Send(kind, s, status, cancel, previous) ==
    /\ Len(events) < MaxEvents
    /\ stripe' = [stripe EXCEPT ![s] = [status |-> status, cancel |-> cancel]]
    /\ events' = Append(events, [kind |-> kind, subscription |-> s,
         status |-> status, cancel |-> cancel, previous |-> previous])
    /\ UNCHANGED <<cache, profile, servers, queue, workers, ghosts>>

Subscribe(s, status) ==
    /\ stripe[s].status = None
    /\ Exclusive => \A t \in Subscriptions : ~Living(t)
    /\ Send("created", s, status, FALSE, None)

CompleteCheckout(s) ==
    /\ Living(s)
    /\ Send("checkout", s, stripe[s].status, stripe[s].cancel, None)

(* previous_attributes holds the old status when the status changed. *)
Update(s, status, cancel) ==
    /\ Living(s)
    /\ <<status, cancel>> # <<stripe[s].status, stripe[s].cancel>>
    /\ Send("updated", s, status, cancel,
            IF status # stripe[s].status THEN stripe[s].status ELSE None)

End(s) ==
    /\ Living(s)
    /\ Send("deleted", s, "canceled", stripe[s].cancel, None)

-----------------------------------------------------------------------------
(* The webhook.                                                            *)

(* get_subscription_target_state *)
TargetState(status, cancel, previous) ==
    CASE status = "trialing" -> "trial_started"
      [] status \in {"active", "past_due"} /\ cancel -> "cancelled"
      [] status \in {"active", "past_due"} /\ ~cancel -> "subscribed"
      [] status \in {"canceled", "unpaid", "incomplete_expired"} ->
           IF previous = "trialing" THEN "trial_ended" ELSE "churned"
      [] OTHER -> None

(* The state an event asks for; a checkout in subscription mode asks none. *)
Asked(event) ==
    CASE event.kind = "checkout" -> None
      [] event.kind = "deleted" -> "churned"
      [] OTHER -> TargetState(event.status, event.cancel, event.previous)

Handling(s) == events[servers[s].event]
At(s, step) == servers[s] # None /\ (servers[s] # None => servers[s].step = step)
Go(s, step, id) ==
    servers' = [servers EXCEPT ![s] =
                  [event |-> servers[s].event, step |-> step, id |-> id,
                   from |-> None]]

(* Fault: the event is marked before it is handled.                        *)
DeliverMarked(s, n) ==
    /\ servers[s] = None
    /\ Ordered => 1 .. n - 1 \subseteq handled
    /\ n \notin cache
    /\ cache' = cache \cup {n}
    /\ servers' = [servers EXCEPT ![s] =
             [event |-> n, step |-> "checked", id |-> None, from |-> None]]
    /\ UNCHANGED <<atStripe, profile, queue, workers, ghosts>>

Deliver(s, n) ==
    /\ servers[s] = None
    /\ Ordered => 1 .. n - 1 \subseteq handled
    /\ n \notin cache
    /\ servers' = [servers EXCEPT ![s] =
             [event |-> n, step |-> "checked", id |-> None, from |-> None]]
    /\ UNCHANGED <<atStripe, cache, profile, queue, workers, ghosts>>

(* Fault: an event whose change was enqueued counts as handled.             *)
LoadOnce(s) ==
    /\ At(s, "checked")
    /\ IF servers[s].event \in tracked THEN Go(s, "done", None)
       ELSE IF Handling(s).kind = "deleted" THEN Go(s, "saved", None)
       ELSE Go(s, "loaded", subscriptionId)
    /\ crossed' = (crossed \/ newest > servers[s].event
                     \/ \E t \in Servers \ {s} :
                          servers[t] # None /\ ~At(t, "checked"))
    /\ newest' = IF crossed' THEN 0 ELSE servers[s].event
    /\ UNCHANGED <<atStripe, cache, profile, queue, workers, handled, tracked,
                   upset>>

(* get_profile_for_customer; a deletion saves no id and goes on to track. *)
Load(s) ==
    /\ At(s, "checked")
    /\ IF Handling(s).kind = "deleted" THEN Go(s, "saved", None)
       ELSE Go(s, "loaded", subscriptionId)
    /\ crossed' = (crossed \/ newest > servers[s].event
                     \/ \E t \in Servers \ {s} :
                          servers[t] # None /\ ~At(t, "checked"))
    /\ newest' = IF crossed' THEN 0 ELSE servers[s].event
    /\ UNCHANGED <<atStripe, cache, profile, queue, workers, handled, tracked,
                   upset>>

(* update_profile_stripe_ids compares with the profile it has loaded. *)
SaveId(s) ==
    /\ At(s, "loaded")
    /\ subscriptionId' = IF servers[s].id # Handling(s).subscription
                         THEN Handling(s).subscription ELSE subscriptionId
    /\ Go(s, IF Asked(Handling(s)) = None THEN "done" ELSE "saved", None)
    /\ UNCHANGED <<atStripe, cache, state, latest, queue, workers, ghosts>>

Outstanding ==
    {queue[i] : i \in 1 .. Len(queue)}
      \cup {workers[w].change : w \in {v \in Workers : workers[v] # None}}

(* A change from a state to itself is dropped by its worker, even when the  *)
(* latest transition is another one by the time it is enqueued, or is going *)
(* to be once the changes still on their way are carried out.               *)
ReadsTooEarly(s, to) ==
    /\ servers[s].from = to
    /\ latest # to \/ \E c \in Outstanding : c.to # to

(* Profile.current_state is read before the task is made ... *)
ReadState(s) ==
    /\ At(s, "saved")
    /\ servers' = [servers EXCEPT ![s].step = "read", ![s].from = latest]
    /\ UNCHANGED <<atStripe, cache, profile, queue, workers, ghosts>>

(* ... and Profile.track_state_change pushes it. *)
Track(s) ==
    /\ At(s, "read") /\ Len(queue) < MaxTasks
    /\ LET to == Asked(Handling(s)) IN
         /\ queue' = Append(queue, [from |-> servers[s].from, to |-> to])
         /\ upset' = (upset \/ ReadsTooEarly(s, to)
                       \/ \E n \in tracked : n > servers[s].event)
    /\ tracked' = tracked \cup {servers[s].event}
    /\ Go(s, IF Handling(s).kind = "deleted" THEN "tracked" ELSE "done", None)
    /\ UNCHANGED <<atStripe, cache, profile, workers, handled, newest, crossed>>

(* handle_deleted_subscription clears the id last, whichever it is by now. *)
ClearId(s) ==
    /\ At(s, "tracked")
    /\ subscriptionId' = None
    /\ Go(s, "done", None)
    /\ UNCHANGED <<atStripe, cache, state, latest, queue, workers, ghosts>>

Acknowledge(s) ==
    /\ At(s, "done")
    /\ cache' = cache \cup {servers[s].event}
    /\ handled' = handled \cup {servers[s].event}
    /\ servers' = [servers EXCEPT ![s] = None]
    /\ UNCHANGED <<atStripe, profile, queue, workers, tracked, newest, upset,
                   crossed>>

(* An exception or a dead process: no 200, so Stripe will send it again. *)
Fail(s) ==
    /\ Crashes
    /\ servers[s] # None
    /\ servers' = [servers EXCEPT ![s] = None]
    /\ UNCHANGED <<atStripe, cache, profile, queue, workers, ghosts>>

(* The cache forgets, at the timeout or earlier. *)
Forget(n) ==
    /\ n \in cache
    /\ cache' = cache \ {n}
    /\ UNCHANGED <<atStripe, profile, servers, queue, workers, ghosts>>

-----------------------------------------------------------------------------
(* The task track_state_change.                                            *)

(* Fault: a change from another state than the latest one is skipped.       *)
TakeIfCurrent(w) ==
    /\ workers[w] = None /\ queue # <<>>
    /\ queue' = Tail(queue)
    /\ LET change == Head(queue) IN
         IF change.from = change.to \/ change.from # latest
         THEN UNCHANGED <<workers, upset>>
         ELSE /\ workers' = [workers EXCEPT ![w] =
                               [change |-> change, made |-> FALSE]]
              /\ upset' = (upset \/ \E v \in Workers : workers[v] # None /\
                             (workers[v] # None => workers[v].change.to # change.to))
    /\ UNCHANGED <<atStripe, cache, profile, servers, handled, tracked, newest,
                   crossed>>

Take(w) ==
    /\ workers[w] = None /\ queue # <<>>
    /\ queue' = Tail(queue)
    /\ LET change == Head(queue) IN
         IF change.from = change.to
         THEN UNCHANGED <<workers, upset>>
         ELSE /\ workers' = [workers EXCEPT ![w] =
                               [change |-> change, made |-> FALSE]]
              /\ upset' = (upset \/ \E v \in Workers : workers[v] # None /\
                             (workers[v] # None => workers[v].change.to # change.to))
    /\ UNCHANGED <<atStripe, cache, profile, servers, handled, tracked, newest,
                   crossed>>

Record(w) ==
    /\ workers[w] # None /\ (workers[w] # None => ~workers[w].made)
    /\ latest' = workers[w].change.to
    /\ workers' = [workers EXCEPT ![w].made = TRUE]
    /\ UNCHANGED <<atStripe, cache, subscriptionId, state, servers, queue, ghosts>>

SaveState(w) ==
    /\ workers[w] # None /\ (workers[w] # None => workers[w].made)
    /\ state' = workers[w].change.to
    /\ workers' = [workers EXCEPT ![w] = None]
    /\ UNCHANGED <<atStripe, cache, subscriptionId, latest, servers, queue, ghosts>>

(* The task raises or its worker dies; Redis keeps no copy of it. *)
Die(w) ==
    /\ Crashes
    /\ workers[w] # None
    /\ workers' = [workers EXCEPT ![w] = None]
    /\ upset' = TRUE
    /\ UNCHANGED <<atStripe, cache, profile, servers, queue, handled, tracked,
                   newest, crossed>>

-----------------------------------------------------------------------------
Stripe(s) ==
    \/ \E status \in Statuses : Subscribe(s, status)
    \/ CompleteCheckout(s)
    \/ \E status \in Statuses, cancel \in BOOLEAN : Update(s, status, cancel)
    \/ End(s)

Webhook(s) ==
    \/ \E n \in 1 .. Len(events) : Deliver(s, n)
    \/ Load(s) \/ SaveId(s) \/ ReadState(s) \/ Track(s) \/ ClearId(s)
    \/ Acknowledge(s) \/ Fail(s)

Work(w) == Take(w) \/ Record(w) \/ SaveState(w) \/ Die(w)

Next ==
    \/ \E s \in Subscriptions : Stripe(s)
    \/ \E s \in Servers : Webhook(s)
    \/ \E n \in EventIds : Forget(n)
    \/ \E w \in Workers : Work(w)

Spec == Init /\ [][Next]_vars

-----------------------------------------------------------------------------
(* Properties.                                                             *)

Settled ==
    /\ 1 .. Len(events) \subseteq handled
    /\ \A s \in Servers : servers[s] = None
    /\ \A w \in Workers : workers[w] = None
    /\ queue = <<>>

(* The state the last event that asks for one asks for. *)
LastAsked ==
    LET asking == {n \in 1 .. Len(events) : Asked(events[n]) # None} IN
    IF asking = {} THEN "signed_up"
    ELSE Asked(events[CHOOSE n \in asking : \A m \in asking : m <= n])

(* Whatever was delivered twice, answered late or handled by two processes  *)
(* at once, the profile ends in the state Stripe last asked for, and its    *)
(* state is that of its latest transition, unless a change was lost with    *)
(* its worker, overtaken by a later one, carried out beside a different     *)
(* one, or made a change from a state to itself by a latest transition that *)
(* was read before another change was recorded                              *)
(* (core/models.py Profile.track_state_change).                             *)
StateFollowsStripe ==
    Settled /\ ~upset => state = LastAsked /\ latest = LastAsked

(* The subscription id is that of the last event, or empty after a          *)
(* deletion, unless two handlers overlapped or events came out of order:    *)
(* a handler that fails half way and is run again does no harm.             *)
IdFollowsStripe ==
    LET last == events[Len(events)] IN
    Settled /\ ~crossed /\ events # <<>> =>
      subscriptionId = IF last.kind = "deleted" THEN None ELSE last.subscription

(* An event is not marked as handled before its state change is in the      *)
(* queue: a process that dies in between leaves it to Stripe's next try     *)
(* (core/views.py stripe_webhook).                                          *)
MarkedAreTracked ==
    \A n \in cache : Asked(events[n]) # None => n \in tracked

(* What a help text says: "The current state of the user's profile"         *)
(* (core/models.py:55), which Profile.current_state reads from the latest   *)
(* transition.                                                              *)
StateIsLatest == Settled => state = latest

(* What a comment says of CHURNED: "when user lost access to paid features" *)
(* (core/choices.py:52).                                                    *)
ChurnedLostAccess ==
    Settled /\ state = "churned" =>
      \A s \in Subscriptions :
        TargetState(stripe[s].status, stripe[s].cancel, None)
          \notin {"trial_started", "subscribed", "cancelled"}
=============================================================================
