---------------------------- MODULE BillingProofs ----------------------------
(***************************************************************************)
(* Proofs about Billing, for any number of subscriptions, web processes,   *)
(* workers and events.                                                     *)
(***************************************************************************)
EXTENDS Billing, TLAPS

Handlers == [event: EventIds, step: Steps, id: Subscriptions \cup {None},
             from: States \cup {None}]
Jobs == [change: Changes, made: BOOLEAN]

(* Events handled or marked were sent. *)
Sent ==
    /\ cache \subseteq 1 .. Len(events)
    /\ \A s \in Servers : servers[s] # None => servers[s].event \in 1 .. Len(events)

(* A handler about to track has a state to ask for; one that is past it has *)
(* tracked what there was to track.                                         *)
InHand ==
    \A s \in Servers :
        /\ At(s, "saved") \/ At(s, "read") => Asked(Handling(s)) # None
        /\ At(s, "read") => servers[s].from # None
        /\ At(s, "tracked") \/ At(s, "done") =>
             (Asked(Handling(s)) # None => servers[s].event \in tracked)

IInv == TypeOK /\ Sent /\ InHand /\ MarkedAreTracked

(* What an event asks for is a state of a profile, or nothing. *)
LEMMA AskedIsState ==
    ASSUME NEW e \in Events
    PROVE  Asked(e) \in States \cup {None}
<1>1. TargetState(e.status, e.cancel, e.previous) \in States \cup {None}
  BY Zenon DEF TargetState, States
<1> QED
  BY <1>1, Zenon DEF Asked, States

LEMMA InitIInv == Init => IInv
<1> SUFFICES ASSUME Init PROVE IInv
  OBVIOUS
<1>1. queue \in Seq(Changes) /\ Len(queue) <= MaxTasks
  <2>1. [from |-> "stranger", to |-> "signed_up"] \in Changes
    BY DEF Changes, States
  <2>2. queue = <<[from |-> "stranger", to |-> "signed_up"]>>
    BY DEF Init
  <2>3. Len(queue) = 1 /\ 1 <= MaxTasks
    BY <2>2, BillingAssumption
  <2> QED
    BY <2>1, <2>2, <2>3
<1>2. events \in Seq(Events) /\ Len(events) <= MaxEvents
  BY BillingAssumption DEF Init
<1>3. TypeOK
  <2>1. newest \in 0 .. MaxEvents
    BY BillingAssumption DEF Init
  <2> QED
    BY <1>1, <1>2, <2>1 DEF Init, TypeOK, States, AllStatuses
<1>4. Sent /\ InHand /\ MarkedAreTracked
  BY DEF Init, Sent, InHand, MarkedAreTracked, At
<1> QED
  BY <1>3, <1>4 DEF IInv

(* Stripe appends to what it has sent: nothing sent before changes. *)
LEMMA SendStep ==
    ASSUME IInv, NEW kind \in {"created", "updated", "deleted", "checkout"},
           NEW s \in Subscriptions, NEW status \in AllStatuses,
           NEW cancel \in BOOLEAN, NEW previous \in Statuses \cup {None},
           Send(kind, s, status, cancel, previous)
    PROVE  IInv'
<1> DEFINE e == [kind |-> kind, subscription |-> s, status |-> status,
                 cancel |-> cancel, previous |-> previous]
<1>1. e \in Events
  BY DEF Events
<1>2. events' = Append(events, e) /\ Len(events) < MaxEvents
  BY DEF Send
<1>3. events' \in Seq(Events) /\ Len(events') = Len(events) + 1
  <2> HIDE DEF e
  <2> QED
    BY <1>1, <1>2 DEF IInv, TypeOK
<1>4. \A n \in 1 .. Len(events) : events'[n] = events[n]
  <2> HIDE DEF e
  <2> QED
    BY <1>1, <1>2 DEF IInv, TypeOK
<1>5. stripe' \in [Subscriptions -> [status: AllStatuses \cup {None},
                                    cancel: BOOLEAN]]
  BY DEF Send, IInv, TypeOK
<1>6. TypeOK'
  BY <1>2, <1>3, <1>5, BillingAssumption
    DEF IInv, TypeOK, Send, profile, ghosts
<1>7. Sent'
  BY <1>3 DEF IInv, TypeOK, Sent, Send
<1>8. \A t \in Servers : servers[t] # None => Handling(t)' = Handling(t)
  BY <1>4 DEF IInv, Sent, Handling, Send
<1>9. InHand'
  BY <1>8 DEF IInv, InHand, At, Asked, Send, ghosts
<1>10. MarkedAreTracked'
  BY <1>4 DEF IInv, Sent, MarkedAreTracked, Asked, Send, ghosts
<1> QED
  BY <1>6, <1>7, <1>9, <1>10 DEF IInv

(* What a handler is about to do next, with the event it has. *)
LEMMA Onward ==
    ASSUME IInv, NEW s \in Servers, servers[s] # None, NEW step \in Steps,
           NEW id \in Subscriptions \cup {None}, Go(s, step, id)
    PROVE  \E h \in Handlers : /\ servers' = [servers EXCEPT ![s] = h]
                              /\ h.event = servers[s].event
                              /\ h.step = step /\ h.id = id
<1>1. servers[s] \in Handlers
  BY DEF IInv, TypeOK, Handlers
<1> DEFINE h == [event |-> servers[s].event, step |-> step, id |-> id,
                 from |-> None]
<1>2. /\ h \in Handlers /\ h.event = servers[s].event
      /\ h.step = step /\ h.id = id
  BY <1>1 DEF Handlers
<1>3. servers' = [servers EXCEPT ![s] = h]
  BY DEF Go
<1> HIDE DEF h
<1> QED
  BY <1>2, <1>3

(* One web process moves on with the event it has, everything sent stays as *)
(* it was and what was tracked stays tracked.                               *)
LEMMA MoveOn ==
    ASSUME IInv, NEW s \in Servers, servers[s] # None, NEW h \in Handlers,
           servers' = [servers EXCEPT ![s] = h], h.event = servers[s].event,
           events' = events, cache' = cache, tracked \subseteq tracked',
           h.step \in {"saved", "read"} => Asked(Handling(s)) # None,
           h.step = "read" => h.from # None,
           h.step \in {"tracked", "done"} =>
             (Asked(Handling(s)) # None => servers[s].event \in tracked')
    PROVE  /\ servers' \in [Servers -> Handlers \cup {None}]
           /\ Sent' /\ InHand' /\ MarkedAreTracked'
<1>1. servers \in [Servers -> Handlers \cup {None}]
  BY DEF IInv, TypeOK, Handlers
<1>2. servers' \in [Servers -> Handlers \cup {None}]
  BY <1>1
<1>3. servers'[s] = h /\ \A t \in Servers : t # s => servers'[t] = servers[t]
  BY <1>1
<1>4. \A t \in Servers : servers[t] # None => Handling(t)' = Handling(t)
  BY <1>3 DEF Handling
<1>5. Sent'
  BY <1>3 DEF IInv, Sent
<1>6. ASSUME NEW t \in Servers
      PROVE  /\ At(t, "saved")' \/ At(t, "read")' => Asked(Handling(t))' # None
             /\ At(t, "read")' => servers'[t].from # None
             /\ At(t, "tracked")' \/ At(t, "done")' =>
                  (Asked(Handling(t))' # None => servers'[t].event \in tracked')
  <2>1. servers[t] # None => Asked(Handling(t))' = Asked(Handling(t))
    BY <1>4 DEF Asked
  <2>2. CASE t = s
    BY <1>3, <2>1, <2>2 DEF At
  <2>3. CASE t # s
    BY <1>3, <2>1, <2>3 DEF IInv, InHand, At
  <2> QED
    BY <2>2, <2>3
<1>7. InHand'
  BY <1>6 DEF InHand
<1>8. MarkedAreTracked'
  BY DEF IInv, MarkedAreTracked, Asked
<1> QED
  BY <1>2, <1>5, <1>7, <1>8

(* One web process begins with an event or puts it down. *)
LEMMA TakeUpOrPutDown ==
    ASSUME IInv, NEW s \in Servers, NEW h \in Handlers \cup {None},
           servers' = [servers EXCEPT ![s] = h],
           h # None => h.event \in 1 .. Len(events) /\ h.step = "checked",
           events' = events, cache' \subseteq 1 .. Len(events),
           tracked' = tracked,
           \A n \in cache' : Asked(events[n]) # None => n \in tracked
    PROVE  /\ servers' \in [Servers -> Handlers \cup {None}]
           /\ Sent' /\ InHand' /\ MarkedAreTracked'
<1>1. servers \in [Servers -> Handlers \cup {None}]
  BY DEF IInv, TypeOK, Handlers
<1>2. servers' \in [Servers -> Handlers \cup {None}]
  BY <1>1
<1>3. servers'[s] = h /\ \A t \in Servers : t # s => servers'[t] = servers[t]
  BY <1>1
<1>4. Sent'
  BY <1>3 DEF IInv, Sent
<1>5. ASSUME NEW t \in Servers
      PROVE  /\ At(t, "saved")' \/ At(t, "read")' => Asked(Handling(t))' # None
             /\ At(t, "read")' => servers'[t].from # None
             /\ At(t, "tracked")' \/ At(t, "done")' =>
                  (Asked(Handling(t))' # None => servers'[t].event \in tracked')
  <2>1. CASE t = s
    BY <1>3, <2>1 DEF At
  <2>2. CASE t # s
    <3>1. servers'[t] = servers[t]
      BY <1>3, <2>2
    <3>2. Handling(t)' = Handling(t)
      BY <3>1 DEF Handling
    <3> QED
      BY <3>1, <3>2 DEF IInv, InHand, At, Asked
  <2> QED
    BY <2>1, <2>2
<1>6. InHand'
  BY <1>5 DEF InHand
<1>7. MarkedAreTracked'
  BY DEF MarkedAreTracked, Asked
<1> QED
  BY <1>2, <1>4, <1>6, <1>7

(* A worker leaves events, marks and handlers alone. *)
LEMMA Elsewhere ==
    ASSUME IInv, UNCHANGED <<events, cache, servers, tracked>>
    PROVE  Sent' /\ InHand' /\ MarkedAreTracked'
<1>1. \A t \in Servers : Handling(t)' = Handling(t)
  BY DEF Handling
<1>2. InHand'
  BY <1>1 DEF IInv, InHand, At, Asked
<1>3. Sent' /\ MarkedAreTracked'
  BY DEF IInv, Sent, MarkedAreTracked, Asked
<1> QED
  BY <1>2, <1>3

LEMMA DeliverStep ==
    ASSUME IInv, NEW s \in Servers, NEW n \in 1 .. Len(events), Deliver(s, n)
    PROVE  IInv'
<1> DEFINE h == [event |-> n, step |-> "checked", id |-> None, from |-> None]
<1>1. h \in Handlers /\ h.event = n /\ h.step = "checked"
  <2>1. n \in EventIds
    BY BillingAssumption DEF IInv, TypeOK, EventIds
  <2> QED
    BY <2>1 DEF Handlers, Steps
<1>2. servers' = [servers EXCEPT ![s] = h]
  BY DEF Deliver
<1>3. events' = events /\ cache' = cache /\ tracked' = tracked
  BY DEF Deliver, atStripe, ghosts
<1>4. /\ servers' \in [Servers -> Handlers \cup {None}]
      /\ Sent' /\ InHand' /\ MarkedAreTracked'
  <2> HIDE DEF h
  <2>1. \A m \in cache' : Asked(events[m]) # None => m \in tracked
    BY <1>3 DEF IInv, MarkedAreTracked
  <2>2. cache' \subseteq 1 .. Len(events)
    BY <1>3 DEF IInv, Sent
  <2> QED
    BY <1>1, <1>2, <1>3, <2>1, <2>2, TakeUpOrPutDown
<1>5. TypeOK'
  BY <1>4 DEF Deliver, IInv, TypeOK, Handlers, atStripe, profile, ghosts
<1> QED
  BY <1>4, <1>5 DEF IInv

LEMMA LoadStep ==
    ASSUME IInv, NEW s \in Servers, Load(s)
    PROVE  IInv'
<1>1. servers[s] # None /\ servers[s] \in Handlers
      /\ servers[s].event \in 1 .. Len(events)
  BY DEF Load, At, IInv, TypeOK, Handlers, Sent
<1>2. PICK step \in {"saved", "loaded"}, id \in Subscriptions \cup {None} :
        /\ Go(s, step, id)
        /\ step = "saved" => Handling(s).kind = "deleted"
  BY DEF Load, IInv, TypeOK
<1>3. PICK h \in Handlers : /\ servers' = [servers EXCEPT ![s] = h]
                            /\ h.event = servers[s].event
                            /\ h.step = step /\ h.id = id
  <2>1. step \in Steps
    BY DEF Steps
  <2> QED
    BY <1>1, <1>2, <2>1, Onward
<1>4. step = "saved" => Asked(Handling(s)) # None
  <2>1. "churned" # None
    BY BillingAssumption DEF States
  <2>2. Handling(s).kind = "deleted" => Asked(Handling(s)) = "churned"
    BY Zenon DEF Asked
  <2> QED
    BY <1>2, <2>1, <2>2
<1>5. events' = events /\ cache' = cache /\ tracked' = tracked
  BY DEF Load, atStripe
<1>6. /\ servers' \in [Servers -> Handlers \cup {None}]
      /\ Sent' /\ InHand' /\ MarkedAreTracked'
  BY <1>1, <1>3, <1>4, <1>5, MoveOn
<1>7. newest' \in 0 .. MaxEvents /\ crossed' \in BOOLEAN
  <2>1. servers[s].event \in 0 .. MaxEvents /\ 0 \in 0 .. MaxEvents
    BY <1>1, BillingAssumption DEF IInv, TypeOK
  <2>2. crossed' \in BOOLEAN
    BY DEF Load, IInv, TypeOK
  <2> QED
    BY <2>1, <2>2 DEF Load
<1>8. TypeOK'
  BY <1>6, <1>7 DEF Load, IInv, TypeOK, Handlers, atStripe, profile
<1> QED
  BY <1>6, <1>8 DEF IInv

LEMMA SaveIdStep ==
    ASSUME IInv, NEW s \in Servers, SaveId(s)
    PROVE  IInv'
<1>1. servers[s] # None /\ servers[s] \in Handlers
  BY DEF SaveId, At, IInv, TypeOK, Handlers
<1>2. PICK step \in {"done", "saved"} :
        /\ Go(s, step, None)
        /\ step = "saved" <=> Asked(Handling(s)) # None
  BY DEF SaveId
<1>3. PICK h \in Handlers : /\ servers' = [servers EXCEPT ![s] = h]
                            /\ h.event = servers[s].event
                            /\ h.step = step /\ h.id = None
  <2>1. step \in Steps
    BY DEF Steps
  <2> QED
    BY <1>1, <1>2, <2>1, Onward
<1>4. events' = events /\ cache' = cache /\ tracked' = tracked
  BY DEF SaveId, atStripe, ghosts
<1>5. /\ servers' \in [Servers -> Handlers \cup {None}]
      /\ Sent' /\ InHand' /\ MarkedAreTracked'
  BY <1>1, <1>2, <1>3, <1>4, MoveOn
<1>6. events[servers[s].event] \in Events
  BY <1>1 DEF IInv, Sent, TypeOK
<1>7. subscriptionId' \in Subscriptions \cup {None}
  BY <1>6 DEF SaveId, IInv, TypeOK, Handling, Events
<1>8. TypeOK'
  BY <1>5, <1>7 DEF SaveId, IInv, TypeOK, Handlers, atStripe, ghosts
<1> QED
  BY <1>5, <1>8 DEF IInv

(* What a handler holds once it has read the latest transition.            *)
LEMMA Reads ==
    ASSUME IInv, NEW s \in Servers, ReadState(s)
    PROVE  \E h \in Handlers :
             /\ servers' = [servers EXCEPT ![s] = h]
             /\ h.event = servers[s].event /\ h.step = "read"
             /\ h.from # None
<1>1. servers[s] # None /\ servers[s] \in Handlers
      /\ servers \in [Servers -> Handlers \cup {None}]
  BY DEF ReadState, At, IInv, TypeOK, Handlers
<1>2. PICK h : h = [servers[s] EXCEPT !.step = "read", !.from = latest]
  OBVIOUS
<1>3. h \in Handlers /\ h.event = servers[s].event /\ h.step = "read"
      /\ h.from # None
  BY <1>1, <1>2, BillingAssumption DEF Handlers, Steps, IInv, TypeOK
<1>4. servers' = [servers EXCEPT ![s] = h]
  BY <1>1, <1>2 DEF ReadState
<1> QED
  BY <1>3, <1>4

LEMMA ReadStateStep ==
    ASSUME IInv, NEW s \in Servers, ReadState(s)
    PROVE  IInv'
<1>1. servers[s] # None /\ At(s, "saved")
  BY DEF ReadState, At
<1>2. PICK h \in Handlers : /\ servers' = [servers EXCEPT ![s] = h]
                            /\ h.event = servers[s].event /\ h.step = "read"
                            /\ h.from # None
  BY Reads
<1>3. events' = events /\ cache' = cache /\ tracked' = tracked
  BY DEF ReadState, atStripe, ghosts
<1>4. Asked(Handling(s)) # None
  BY <1>1 DEF IInv, InHand
<1>5. /\ servers' \in [Servers -> Handlers \cup {None}]
      /\ Sent' /\ InHand' /\ MarkedAreTracked'
  BY <1>1, <1>2, <1>3, <1>4, MoveOn
<1>6. TypeOK'
  BY <1>5 DEF ReadState, IInv, TypeOK, Handlers, atStripe, profile, ghosts
<1> QED
  BY <1>5, <1>6 DEF IInv

LEMMA TrackStep ==
    ASSUME IInv, NEW s \in Servers, Track(s)
    PROVE  IInv'
<1>1. /\ servers[s] # None /\ servers[s] \in Handlers /\ At(s, "read")
      /\ servers[s].event \in 1 .. Len(events)
  BY DEF Track, At, IInv, TypeOK, Handlers, Sent
<1>2. PICK step \in {"tracked", "done"} : Go(s, step, None)
  BY DEF Track
<1>3. PICK h \in Handlers : /\ servers' = [servers EXCEPT ![s] = h]
                            /\ h.event = servers[s].event
                            /\ h.step = step /\ h.id = None
  <2>1. step \in Steps
    BY DEF Steps
  <2> QED
    BY <1>1, <1>2, <2>1, Onward
<1>4. events' = events /\ cache' = cache /\ tracked \subseteq tracked'
      /\ servers[s].event \in tracked'
  BY DEF Track, atStripe
<1>5. /\ servers' \in [Servers -> Handlers \cup {None}]
      /\ Sent' /\ InHand' /\ MarkedAreTracked'
  BY <1>1, <1>3, <1>4, MoveOn
<1>6. Handling(s) \in Events
  BY <1>1 DEF IInv, TypeOK, Handling
<1>7. Asked(Handling(s)) \in States
  BY <1>1, <1>6, AskedIsState DEF IInv, InHand
<1> DEFINE change == [from |-> servers[s].from, to |-> Asked(Handling(s))]
<1>8. change \in Changes
  BY <1>1, <1>7 DEF Changes, IInv, InHand, Handlers, At
<1>9. queue' \in Seq(Changes) /\ Len(queue') <= MaxTasks
  <2>1. queue' = Append(queue, change) /\ Len(queue) < MaxTasks
    BY DEF Track
  <2> HIDE DEF change
  <2> QED
    BY <1>8, <2>1, BillingAssumption DEF IInv, TypeOK
<1>10. tracked' \subseteq EventIds
  BY <1>1 DEF Track, IInv, TypeOK, Handlers
<1>11. upset' \in BOOLEAN
  BY DEF Track, IInv, TypeOK
<1>12. TypeOK'
  BY <1>5, <1>9, <1>10, <1>11
    DEF Track, IInv, TypeOK, Handlers, atStripe, profile
<1> QED
  BY <1>5, <1>12 DEF IInv

LEMMA ClearIdStep ==
    ASSUME IInv, NEW s \in Servers, ClearId(s)
    PROVE  IInv'
<1>1. servers[s] # None /\ At(s, "tracked")
  BY DEF ClearId, At
<1>2. PICK h \in Handlers : /\ servers' = [servers EXCEPT ![s] = h]
                            /\ h.event = servers[s].event
                            /\ h.step = "done" /\ h.id = None
  <2>1. "done" \in Steps /\ Go(s, "done", None)
    BY DEF Steps, ClearId
  <2> QED
    BY <1>1, <2>1, Onward
<1>3. events' = events /\ cache' = cache /\ tracked' = tracked
  BY DEF ClearId, atStripe, ghosts
<1>4. Asked(Handling(s)) # None => servers[s].event \in tracked'
  BY <1>1, <1>3 DEF IInv, InHand
<1>5. /\ servers' \in [Servers -> Handlers \cup {None}]
      /\ Sent' /\ InHand' /\ MarkedAreTracked'
  BY <1>1, <1>2, <1>3, <1>4, MoveOn
<1>6. TypeOK'
  BY <1>5 DEF ClearId, IInv, TypeOK, Handlers, atStripe, ghosts
<1> QED
  BY <1>5, <1>6 DEF IInv

LEMMA AcknowledgeStep ==
    ASSUME IInv, NEW s \in Servers, Acknowledge(s)
    PROVE  IInv'
<1>1. servers[s] # None /\ servers[s] \in Handlers /\ At(s, "done")
  BY DEF Acknowledge, At, IInv, TypeOK, Handlers
<1>2. events' = events /\ tracked' = tracked
      /\ cache' = cache \cup {servers[s].event}
      /\ servers' = [servers EXCEPT ![s] = None]
  BY DEF Acknowledge, atStripe
<1>3. cache' \subseteq 1 .. Len(events)
  BY <1>1, <1>2 DEF IInv, Sent
<1>4. \A n \in cache' : Asked(events[n]) # None => n \in tracked
  BY <1>1, <1>2 DEF IInv, InHand, MarkedAreTracked, Handling
<1>5. /\ servers' \in [Servers -> Handlers \cup {None}]
      /\ Sent' /\ InHand' /\ MarkedAreTracked'
  BY <1>2, <1>3, <1>4, TakeUpOrPutDown
<1>6. cache' \subseteq EventIds /\ handled' \subseteq EventIds
  BY <1>1 DEF Acknowledge, Handlers, IInv, TypeOK
<1>7. TypeOK'
  BY <1>5, <1>6 DEF Acknowledge, IInv, TypeOK, Handlers, atStripe, profile
<1> QED
  BY <1>5, <1>7 DEF IInv

LEMMA FailStep ==
    ASSUME IInv, NEW s \in Servers, Fail(s)
    PROVE  IInv'
<1>1. events' = events /\ tracked' = tracked /\ cache' = cache
      /\ servers' = [servers EXCEPT ![s] = None]
  BY DEF Fail, atStripe, ghosts
<1>2. cache' \subseteq 1 .. Len(events)
  BY <1>1 DEF IInv, Sent
<1>3. \A n \in cache' : Asked(events[n]) # None => n \in tracked
  BY <1>1 DEF IInv, MarkedAreTracked
<1>4. /\ servers' \in [Servers -> Handlers \cup {None}]
      /\ Sent' /\ InHand' /\ MarkedAreTracked'
  BY <1>1, <1>2, <1>3, TakeUpOrPutDown
<1>5. TypeOK'
  BY <1>4 DEF Fail, IInv, TypeOK, Handlers, atStripe, profile, ghosts
<1> QED
  BY <1>4, <1>5 DEF IInv

LEMMA ForgetStep ==
    ASSUME IInv, NEW n \in EventIds, Forget(n)
    PROVE  IInv'
<1>1. \A t \in Servers : Handling(t)' = Handling(t)
  BY DEF Forget, Handling, atStripe
<1>2. InHand'
  BY <1>1 DEF IInv, InHand, At, Asked, Forget, ghosts
<1>3. Sent' /\ MarkedAreTracked'
  BY DEF IInv, Sent, MarkedAreTracked, Asked, Forget, atStripe, ghosts
<1>4. TypeOK'
  BY DEF IInv, TypeOK, Forget, atStripe, profile, ghosts
<1> QED
  BY <1>2, <1>3, <1>4 DEF IInv

LEMMA WorkStep ==
    ASSUME IInv, NEW w \in Workers, Work(w)
    PROVE  IInv'
<1>1. CASE Take(w)
  <2>1. Head(queue) \in Changes /\ Tail(queue) \in Seq(Changes)
        /\ Len(Tail(queue)) <= MaxTasks
    BY <1>1, BillingAssumption DEF Take, IInv, TypeOK
  <2>2. workers' \in [Workers -> Jobs \cup {None}]
    <3>1. [change |-> Head(queue), made |-> FALSE] \in Jobs
      BY <2>1 DEF Jobs
    <3>2. workers \in [Workers -> Jobs \cup {None}]
      BY DEF IInv, TypeOK, Jobs
    <3>3. \/ workers' = workers
          \/ workers' = [workers EXCEPT ![w] =
                            [change |-> Head(queue), made |-> FALSE]]
      BY <1>1 DEF Take
    <3> QED
      BY <3>1, <3>2, <3>3
  <2>3. upset' \in BOOLEAN
    BY <1>1 DEF Take, IInv, TypeOK
  <2>4. TypeOK'
    BY <1>1, <2>1, <2>2, <2>3 DEF Take, IInv, TypeOK, Jobs, atStripe, profile
  <2> QED
    BY <1>1, <2>4, Elsewhere DEF Take, IInv, atStripe
<1>2. CASE Record(w)
  <2>1. workers[w] \in Jobs
    BY <1>2 DEF Record, IInv, TypeOK, Jobs
  <2>2. TypeOK'
    BY <1>2, <2>1 DEF Record, IInv, TypeOK, Jobs, Changes, atStripe, ghosts
  <2> QED
    BY <1>2, <2>2, Elsewhere DEF Record, IInv, atStripe, ghosts
<1>3. CASE SaveState(w)
  <2>1. workers[w] \in Jobs
    BY <1>3 DEF SaveState, IInv, TypeOK, Jobs
  <2>2. TypeOK'
    BY <1>3, <2>1 DEF SaveState, IInv, TypeOK, Jobs, Changes, atStripe, ghosts
  <2> QED
    BY <1>3, <2>2, Elsewhere DEF SaveState, IInv, atStripe, ghosts
<1>4. CASE Die(w)
  <2>1. TypeOK'
    BY <1>4 DEF Die, IInv, TypeOK, atStripe, profile
  <2> QED
    BY <1>4, <2>1, Elsewhere DEF Die, IInv, atStripe
<1> QED
  BY <1>1, <1>2, <1>3, <1>4 DEF Work

LEMMA StripeStep ==
    ASSUME IInv, NEW s \in Subscriptions, Stripe(s)
    PROVE  IInv'
<1>1. stripe[s].cancel \in BOOLEAN /\ stripe[s].status \in AllStatuses \cup {None}
  BY DEF IInv, TypeOK
<1>2. CASE \E status \in Statuses : Subscribe(s, status)
  BY <1>2, SendStep DEF Subscribe, AllStatuses
<1>3. CASE CompleteCheckout(s)
  BY <1>1, <1>3, SendStep DEF CompleteCheckout, Living, AllStatuses
<1>4. CASE \E status \in Statuses, cancel \in BOOLEAN : Update(s, status, cancel)
  BY <1>4, SendStep DEF Update, Living, AllStatuses
<1>5. CASE End(s)
  BY <1>1, <1>5, SendStep DEF End, AllStatuses
<1> QED
  BY <1>2, <1>3, <1>4, <1>5 DEF Stripe

LEMMA Inductive == IInv /\ [Next]_vars => IInv'
<1> SUFFICES ASSUME IInv, [Next]_vars PROVE IInv'
  OBVIOUS
<1>1. CASE \E s \in Subscriptions : Stripe(s)
  BY <1>1, StripeStep
<1>2. CASE \E s \in Servers : Webhook(s)
  BY <1>2, DeliverStep, LoadStep, SaveIdStep, ReadStateStep, TrackStep,
     ClearIdStep, AcknowledgeStep, FailStep DEF Webhook
<1>3. CASE \E n \in EventIds : Forget(n)
  BY <1>3, ForgetStep
<1>4. CASE \E w \in Workers : Work(w)
  BY <1>4, WorkStep
<1>5. CASE UNCHANGED vars
  <2>1. TypeOK'
    BY <1>5 DEF IInv, TypeOK, vars
  <2> QED
    BY <1>5, <2>1, Elsewhere DEF IInv, vars
<1> QED
  BY <1>1, <1>2, <1>3, <1>4, <1>5 DEF Next

LEMMA Invariance == Spec => []IInv
<1> QED
  BY InitIInv, Inductive, PTL DEF Spec

(* Every variable keeps its type: in particular no handler enqueues a state *)
(* change without a state to change to.                                     *)
THEOREM TypeCorrect == Spec => []TypeOK
<1>1. IInv => TypeOK
  BY DEF IInv
<1> QED
  BY <1>1, Invariance, PTL

(* An event marked in the cache has its state change in the queue, or had,  *)
(* whatever fails and however often the event is delivered.                 *)
THEOREM NoMarkedEventLost == Spec => []MarkedAreTracked
<1>1. IInv => MarkedAreTracked
  BY DEF IInv
<1> QED
  BY <1>1, Invariance, PTL

-----------------------------------------------------------------------------
(* The subscription id.  While no two handlers overlap and none begins     *)
(* with an event older than one already begun with, the one that is past   *)
(* its load has the newest event, and nobody else touches the id.          *)
Busy(s) == servers[s] # None /\ ~At(s, "checked")
IdOf(n) == IF events[n].kind = "deleted" THEN None ELSE events[n].subscription

InTurn ==
    /\ newest \in 0 .. Len(events)
    /\ \A n \in handled : n <= newest
    /\ \A s \in Servers : Busy(s) =>
         servers[s].event = newest /\ \A t \in Servers \ {s} : ~Busy(t)
OnTheWay ==
    \A s \in Servers :
      /\ At(s, "loaded") =>
           servers[s].id = subscriptionId /\ Handling(s).kind # "deleted"
      /\ (At(s, "saved") \/ At(s, "read")) /\ Handling(s).kind # "deleted" =>
           subscriptionId = IdOf(servers[s].event)
      /\ At(s, "tracked") => Handling(s).kind = "deleted"
      /\ At(s, "done") => subscriptionId = IdOf(servers[s].event)

(* Once the newest event was answered: a second handling that fails half   *)
(* way leaves the id as the first one did.                                 *)
Followed == newest \in handled => subscriptionId = IdOf(newest)

IdInv == ~crossed => InTurn /\ OnTheWay /\ Followed

LEMMA ServersAre ==
    ASSUME IInv
    PROVE  /\ servers \in [Servers -> Handlers \cup {None}]
           /\ \A s \in Servers : servers[s] # None =>
                servers[s] \in Handlers /\ servers[s].event \in 1 .. Len(events)
BY DEF IInv, TypeOK, Sent, Handlers

LEMMA HandledAre ==
    ASSUME IInv
    PROVE  Len(events) \in Nat /\ handled \subseteq Nat
BY BillingAssumption DEF IInv, TypeOK, EventIds

(* What leaves handlers, loads and the id alone, and nothing sent changes. *)
LEMMA IdElsewhere ==
    ASSUME IInv, IdInv,
           UNCHANGED <<servers, newest, handled, crossed, subscriptionId>>,
           1 .. Len(events) \subseteq 1 .. Len(events'), Len(events') \in Nat,
           \A n \in 1 .. Len(events) : events'[n] = events[n]
    PROVE  IdInv'
<1> SUFFICES ASSUME ~crossed PROVE InTurn' /\ OnTheWay' /\ Followed'
  BY DEF IdInv
<1>1. \A s \in Servers : servers[s] # None =>
        servers[s].event \in 1 .. Len(events) /\ Handling(s)' = Handling(s)
        /\ IdOf(servers[s].event)' = IdOf(servers[s].event)
  BY ServersAre DEF Handling, IdOf
<1>2. InTurn /\ OnTheWay /\ Followed
  BY DEF IdInv
<1>3. InTurn'
  <2>1. newest \in 0 .. Len(events')
    BY <1>2, HandledAre DEF InTurn
  <2> QED
    BY <1>2, <2>1 DEF InTurn, Busy, At
<1>4. OnTheWay'
  BY <1>1, <1>2 DEF OnTheWay, At
<1>5. Followed'
  <2> SUFFICES ASSUME newest \in handled
               PROVE  subscriptionId = IdOf(newest)'
    BY DEF Followed
  <2>1. newest \in 1 .. Len(events)
    <3>1. handled \subseteq EventIds
      BY DEF IInv, TypeOK
    <3> QED
      BY <1>2, <3>1, HandledAre, BillingAssumption DEF InTurn, EventIds
  <2> QED
    BY <1>2, <2>1 DEF Followed, IdOf
<1> QED
  BY <1>3, <1>4, <1>5

(* A process takes up an event or puts one down. *)
LEMMA IdPutDown ==
    ASSUME IInv, IdInv, NEW s \in Servers, NEW h \in Handlers \cup {None},
           servers' = [servers EXCEPT ![s] = h], h # None => h.step = "checked",
           UNCHANGED <<events, newest, handled, crossed, subscriptionId>>
    PROVE  IdInv'
<1> SUFFICES ASSUME ~crossed PROVE InTurn' /\ OnTheWay' /\ Followed'
  BY DEF IdInv
<1>1. servers'[s] = h /\ \A t \in Servers \ {s} : servers'[t] = servers[t]
  BY ServersAre
<1>2. ~Busy(s)' /\ \A t \in Servers \ {s} : Busy(t)' <=> Busy(t)
  BY <1>1 DEF Busy, At
<1>3. InTurn'
  BY <1>1, <1>2 DEF IdInv, InTurn
<1>4. OnTheWay'
  <2> SUFFICES ASSUME NEW t \in Servers
               PROVE  /\ At(t, "loaded")' => servers'[t].id = subscriptionId
                                             /\ Handling(t)'.kind # "deleted"
                      /\ (At(t, "saved")' \/ At(t, "read")')
                            /\ Handling(t)'.kind # "deleted" =>
                           subscriptionId = IdOf(servers[t].event)'
                      /\ At(t, "tracked")' => Handling(t)'.kind = "deleted"
                      /\ At(t, "done")' => subscriptionId = IdOf(servers[t].event)'
    BY DEF OnTheWay
  <2>1. CASE t = s
    BY <1>1, <2>1 DEF At
  <2>2. CASE t # s
    <3>1. servers'[t] = servers[t]
      BY <1>1, <2>2
    <3> QED
      BY <3>1 DEF IdInv, OnTheWay, At, Handling, IdOf
  <2> QED
    BY <2>1, <2>2
<1>5. Followed'
  BY DEF IdInv, Followed, IdOf
<1> QED
  BY <1>3, <1>4, <1>5

(* The process that is past its load goes on: nobody else is. *)
LEMMA IdGoesOn ==
    ASSUME IInv, IdInv, NEW s \in Servers, Busy(s), NEW h \in Handlers,
           servers' = [servers EXCEPT ![s] = h], h.event = servers[s].event,
           h.step \notin {"checked", "loaded"},
           UNCHANGED <<events, newest, handled, crossed>>,
           ~crossed =>
             /\ subscriptionId' = subscriptionId \/ subscriptionId' = IdOf(h.event)
             /\ h.step \in {"saved", "read"} /\ Handling(s).kind # "deleted" =>
                  subscriptionId' = IdOf(h.event)
             /\ h.step = "tracked" => Handling(s).kind = "deleted"
             /\ h.step = "done" => subscriptionId' = IdOf(h.event)
    PROVE  IdInv'
<1> SUFFICES ASSUME ~crossed PROVE InTurn' /\ OnTheWay' /\ Followed'
  BY DEF IdInv
<1>1. servers'[s] = h /\ \A t \in Servers \ {s} : servers'[t] = servers[t]
  BY ServersAre
<1>2. Handling(s)' = Handling(s) /\ \A n : IdOf(n)' = IdOf(n)
  BY <1>1 DEF Handling, IdOf
<1>3. \A t \in Servers \ {s} : Busy(t)' <=> Busy(t)
  BY <1>1 DEF Busy, At
<1>4. h.event = newest /\ \A t \in Servers \ {s} : ~Busy(t)
  BY DEF IdInv, InTurn
<1>5. InTurn'
  BY <1>1, <1>3, <1>4 DEF IdInv, InTurn
<1>6. OnTheWay'
  <2> SUFFICES ASSUME NEW t \in Servers
               PROVE  /\ ~At(t, "loaded")'
                      /\ (At(t, "saved")' \/ At(t, "read")')
                            /\ Handling(t)'.kind # "deleted" =>
                           subscriptionId' = IdOf(servers[t].event)'
                      /\ At(t, "tracked")' => Handling(t)'.kind = "deleted"
                      /\ At(t, "done")' => subscriptionId' = IdOf(servers[t].event)'
    BY DEF OnTheWay
  <2>1. CASE t = s
    BY <1>1, <1>2, <2>1 DEF At
  <2>2. CASE t # s
    BY <1>1, <1>4, <2>2 DEF At, Busy
  <2> QED
    BY <2>1, <2>2
<1>7. Followed'
  BY <1>2, <1>4 DEF IdInv, Followed
<1> QED
  BY <1>5, <1>6, <1>7

LEMMA IdLoadStep ==
    ASSUME IInv, IdInv, NEW s \in Servers, Load(s)
    PROVE  IdInv'
<1> SUFFICES ASSUME ~crossed' PROVE InTurn' /\ OnTheWay' /\ Followed'
  BY DEF IdInv
<1>1. servers[s] # None /\ servers[s] \in Handlers
      /\ servers[s].event \in 1 .. Len(events)
  BY ServersAre DEF Load, At
<1>2. PICK step, id : /\ Go(s, step, id)
                      /\ step \in Steps /\ id \in Subscriptions \cup {None}
                      /\ IF Handling(s).kind = "deleted" THEN step = "saved"
                         ELSE step = "loaded" /\ id = subscriptionId
  BY DEF Load, Steps, IInv, TypeOK
<1>3. PICK h \in Handlers : /\ servers' = [servers EXCEPT ![s] = h]
                            /\ h.event = servers[s].event
                            /\ h.step = step /\ h.id = id
  BY <1>1, <1>2, Onward
<1>4. /\ newest' = h.event /\ UNCHANGED <<events, handled, subscriptionId>>
      /\ ~crossed /\ ~(newest > h.event)
      /\ \A t \in Servers \ {s} : ~Busy(t)
  BY <1>3 DEF Load, Busy, atStripe, profile
<1>5. InTurn /\ OnTheWay /\ Followed
  BY <1>4 DEF IdInv
<1>6. servers'[s] = h /\ \A t \in Servers \ {s} : servers'[t] = servers[t]
  BY <1>3, ServersAre
<1>7. \A t \in Servers \ {s} : ~Busy(t)'
  BY <1>4, <1>6 DEF Busy, At
<1>8. newest \in Nat /\ h.event \in Nat /\ newest <= h.event
      /\ h.event \in 0 .. Len(events)
  BY <1>1, <1>3, <1>4, <1>5, HandledAre DEF InTurn
<1>9. InTurn'
  <2>1. \A n \in handled : n <= h.event
    BY <1>5, <1>8, HandledAre DEF InTurn
  <2> QED
    BY <1>4, <1>6, <1>7, <1>8, <2>1 DEF InTurn
<1>10. OnTheWay'
  <2> SUFFICES ASSUME NEW t \in Servers
               PROVE  /\ At(t, "loaded")' => servers'[t].id = subscriptionId'
                                             /\ Handling(t)'.kind # "deleted"
                      /\ At(t, "saved")' => Handling(t)'.kind = "deleted"
                      /\ ~At(t, "read")' /\ ~At(t, "tracked")' /\ ~At(t, "done")'
    BY DEF OnTheWay
  <2>1. CASE t = s
    <3>1. Handling(s)' = Handling(s)
      BY <1>3, <1>4, <1>6 DEF Handling
    <3> QED
      BY <1>2, <1>3, <1>4, <1>6, <2>1, <3>1 DEF At
  <2>2. CASE t # s
    BY <1>6, <1>7, <2>2 DEF At, Busy
  <2> QED
    BY <2>1, <2>2
<1>11. Followed'
  <2> SUFFICES ASSUME h.event \in handled PROVE subscriptionId = IdOf(h.event)
    BY <1>4 DEF Followed, IdOf
  <2>1. h.event = newest
    BY <1>5, <1>8 DEF InTurn
  <2> QED
    BY <1>5, <2>1 DEF Followed
<1> QED
  BY <1>9, <1>10, <1>11

LEMMA IdSaveStep ==
    ASSUME IInv, IdInv, NEW s \in Servers, SaveId(s)
    PROVE  IdInv'
<1>1. servers[s] # None /\ At(s, "loaded") /\ Busy(s)
  BY DEF SaveId, At, Busy
<1>2. PICK step \in {"done", "saved"} : Go(s, step, None)
  BY DEF SaveId
<1>3. PICK h \in Handlers : /\ servers' = [servers EXCEPT ![s] = h]
                            /\ h.event = servers[s].event
                            /\ h.step = step /\ h.id = None
  <2>1. step \in Steps
    BY DEF Steps
  <2> QED
    BY <1>1, <1>2, <2>1, Onward
<1>4. UNCHANGED <<events, newest, handled, crossed>>
  BY DEF SaveId, atStripe, ghosts
<1>5. ~crossed => subscriptionId' = IdOf(h.event)
  <2> SUFFICES ASSUME ~crossed PROVE subscriptionId' = IdOf(h.event)
    OBVIOUS
  <2>1. servers[s].id = subscriptionId /\ Handling(s).kind # "deleted"
    BY <1>1 DEF IdInv, OnTheWay
  <2>2. IdOf(h.event) = Handling(s).subscription
    BY <1>3, <2>1 DEF IdOf, Handling
  <2> QED
    BY <2>1, <2>2 DEF SaveId
<1> QED
  BY <1>1, <1>3, <1>4, <1>5, IdGoesOn

LEMMA IdReadStep ==
    ASSUME IInv, IdInv, NEW s \in Servers, ReadState(s)
    PROVE  IdInv'
<1>1. At(s, "saved") /\ Busy(s)
  BY DEF ReadState, At, Busy
<1>2. PICK h \in Handlers : /\ servers' = [servers EXCEPT ![s] = h]
                            /\ h.event = servers[s].event /\ h.step = "read"
                            /\ h.from # None
  BY Reads
<1>3. UNCHANGED <<events, newest, handled, crossed, subscriptionId>>
  BY DEF ReadState, atStripe, profile, ghosts
<1>4. ~crossed /\ Handling(s).kind # "deleted" => subscriptionId = IdOf(h.event)
  BY <1>1, <1>2 DEF IdInv, OnTheWay
<1> QED
  BY <1>1, <1>2, <1>3, <1>4, IdGoesOn

LEMMA IdTrackStep ==
    ASSUME IInv, IdInv, NEW s \in Servers, Track(s)
    PROVE  IdInv'
<1>1. servers[s] # None /\ At(s, "read") /\ Busy(s)
  BY DEF Track, At, Busy
<1>2. PICK step \in {"tracked", "done"} :
        Go(s, step, None) /\ (step = "tracked" <=> Handling(s).kind = "deleted")
  BY DEF Track
<1>3. PICK h \in Handlers : /\ servers' = [servers EXCEPT ![s] = h]
                            /\ h.event = servers[s].event
                            /\ h.step = step /\ h.id = None
  <2>1. step \in Steps
    BY DEF Steps
  <2> QED
    BY <1>1, <1>2, <2>1, Onward
<1>4. UNCHANGED <<events, newest, handled, crossed, subscriptionId>>
  BY DEF Track, atStripe, profile
<1>5. ~crossed /\ step = "done" => subscriptionId = IdOf(h.event)
  BY <1>1, <1>2, <1>3 DEF IdInv, OnTheWay
<1> QED
  BY <1>1, <1>2, <1>3, <1>4, <1>5, IdGoesOn

LEMMA IdClearStep ==
    ASSUME IInv, IdInv, NEW s \in Servers, ClearId(s)
    PROVE  IdInv'
<1>1. servers[s] # None /\ At(s, "tracked") /\ Busy(s)
  BY DEF ClearId, At, Busy
<1>2. PICK h \in Handlers : /\ servers' = [servers EXCEPT ![s] = h]
                            /\ h.event = servers[s].event
                            /\ h.step = "done" /\ h.id = None
  <2>1. "done" \in Steps /\ Go(s, "done", None)
    BY DEF Steps, ClearId
  <2> QED
    BY <1>1, <2>1, Onward
<1>3. subscriptionId' = None /\ UNCHANGED <<events, newest, handled, crossed>>
  BY DEF ClearId, atStripe, ghosts
<1>4. ~crossed => IdOf(h.event) = None
  BY <1>1, <1>2 DEF IdInv, OnTheWay, IdOf, Handling
<1> QED
  BY <1>1, <1>2, <1>3, <1>4, IdGoesOn

LEMMA IdAcknowledgeStep ==
    ASSUME IInv, IdInv, NEW s \in Servers, Acknowledge(s)
    PROVE  IdInv'
<1> SUFFICES ASSUME ~crossed PROVE InTurn' /\ OnTheWay' /\ Followed'
  BY DEF Acknowledge, IdInv
<1>1. servers[s] # None /\ At(s, "done") /\ Busy(s)
  BY DEF Acknowledge, At, Busy
<1>2. /\ servers' = [servers EXCEPT ![s] = None]
      /\ handled' = handled \cup {servers[s].event}
      /\ UNCHANGED <<events, newest, crossed, subscriptionId>>
  BY DEF Acknowledge, atStripe, profile
<1>3. servers'[s] = None /\ \A t \in Servers \ {s} : servers'[t] = servers[t]
  BY <1>2, ServersAre
<1>4. InTurn /\ servers[s].event = newest /\ \A t \in Servers \ {s} : ~Busy(t)
  BY <1>1 DEF IdInv, InTurn
<1>5. \A t \in Servers : ~Busy(t)'
  BY <1>3, <1>4 DEF Busy, At
<1>6. InTurn'
  <2>1. newest <= newest
    BY <1>4, HandledAre DEF InTurn
  <2> QED
    BY <1>2, <1>4, <1>5, <2>1 DEF InTurn
<1>7. OnTheWay'
  BY <1>5 DEF OnTheWay, Busy, At
<1>8. Followed'
  BY <1>1, <1>2, <1>4 DEF IdInv, OnTheWay, Followed, IdOf
<1> QED
  BY <1>6, <1>7, <1>8

LEMMA SendKeeps ==
    ASSUME IInv, NEW s \in Subscriptions, Stripe(s)
    PROVE  /\ UNCHANGED <<cache, profile, servers, queue, workers, ghosts>>
           /\ 1 .. Len(events) \subseteq 1 .. Len(events') /\ Len(events') \in Nat
           /\ \A n \in 1 .. Len(events) : events'[n] = events[n]
<1>1. PICK kind, status, cancel, previous : Send(kind, s, status, cancel, previous)
  BY DEF Stripe, Subscribe, CompleteCheckout, Update, End
<1>2. PICK e : events' = Append(events, e)
  BY <1>1 DEF Send
<1>3. events \in Seq(Events)
  BY DEF IInv, TypeOK
<1> QED
  BY <1>1, <1>2, <1>3 DEF Send

LEMMA IdStep == IInv /\ IdInv /\ [Next]_vars => IdInv'
<1> SUFFICES ASSUME IInv, IdInv, [Next]_vars PROVE IdInv'
  OBVIOUS
<1>1. ASSUME NEW s \in Subscriptions, Stripe(s) PROVE IdInv'
  BY <1>1, SendKeeps, IdElsewhere DEF profile, ghosts
<1>2. ASSUME NEW s \in Servers, NEW n \in 1 .. Len(events), Deliver(s, n) PROVE IdInv'
  <2>1. PICK h : h = [event |-> n, step |-> "checked", id |-> None,
                      from |-> None]
    OBVIOUS
  <2>2. n \in EventIds
    BY <1>2, BillingAssumption DEF IInv, TypeOK, EventIds
  <2>3. h \in Handlers /\ h.step = "checked"
    BY <2>1, <2>2 DEF Handlers, Steps
  <2>4. servers' = [servers EXCEPT ![s] = h]
        /\ UNCHANGED <<events, newest, handled, crossed, subscriptionId>>
    BY <1>2, <2>1 DEF Deliver, atStripe, profile, ghosts
  <2> QED
    BY <2>3, <2>4, IdPutDown
<1>3. ASSUME NEW s \in Servers, Fail(s) PROVE IdInv'
  <2>1. servers' = [servers EXCEPT ![s] = None]
        /\ UNCHANGED <<events, newest, handled, crossed, subscriptionId>>
    BY <1>3 DEF Fail, atStripe, profile, ghosts
  <2> QED
    BY <2>1, IdPutDown
<1>4. ASSUME NEW s \in Servers, Webhook(s) PROVE IdInv'
  BY <1>2, <1>3, <1>4, IdLoadStep, IdSaveStep, IdReadStep, IdTrackStep,
     IdClearStep, IdAcknowledgeStep DEF Webhook
<1>5. ASSUME (\E n \in EventIds : Forget(n)) \/ (\E w \in Workers : Work(w))
               \/ UNCHANGED vars
      PROVE  IdInv'
  <2>1. UNCHANGED <<events, servers, newest, handled, crossed, subscriptionId>>
    BY <1>5 DEF Forget, Work, Take, Record, SaveState, Die, vars, atStripe, profile,
                ghosts
  <2> QED
    BY <2>1, HandledAre, IdElsewhere
<1> QED
  BY <1>1, <1>4, <1>5 DEF Next

(* The subscription id is that of the newest event, or empty after a       *)
(* deletion, whatever failed half way, was delivered again or was          *)
(* forgotten by the cache, as long as no two handlers overlapped and none  *)
(* began with an older event (core/stripe_webhooks.py).                    *)
THEOREM IdFollows == Spec => []IdFollowsStripe
<1>1. Init => IdInv
  BY DEF Init, IdInv, InTurn, OnTheWay, Followed, Busy, At
<1>2. IInv /\ IInv' /\ IdInv /\ [Next]_vars => IdInv'
  BY IdStep
<1>3. ASSUME IInv, IdInv PROVE IdFollowsStripe
  <2> SUFFICES ASSUME Settled, ~crossed, events # <<>>
               PROVE  subscriptionId = IdOf(Len(events))
    BY DEF IdFollowsStripe, IdOf
  <2>1. Len(events) \in 1 .. Len(events) /\ Len(events) \in Nat
    BY <1>3 DEF IInv, TypeOK
  <2>2. Len(events) \in handled
    BY <2>1 DEF Settled
  <2>3. Len(events) = newest
    BY <1>3, <2>1, <2>2 DEF IdInv, InTurn
  <2> QED
    BY <1>3, <2>2, <2>3 DEF IdInv, Followed
<1> QED
  BY <1>1, <1>2, <1>3, Invariance, PTL DEF Spec

-----------------------------------------------------------------------------
(* The state.  While nothing was lost, overtaken or carried out beside a   *)
(* different change, the last change on its way is to the state of the     *)
(* newest event that was tracked, or the profile is already there.         *)
Active(w) == workers[w] # None
Tracks ==
    /\ tracked \subseteq 1 .. Len(events) /\ handled \subseteq 1 .. Len(events)
    /\ \A n \in tracked : Asked(events[n]) # None
    /\ \A n \in handled : Asked(events[n]) # None => n \in tracked

(* The changes carried out at the same time are one. *)
OneChange ==
    /\ \A v, w \in Workers : Active(v) /\ Active(w) =>
         workers[v].change.to = workers[w].change.to
    /\ \A w \in Workers : Active(w) /\ workers[w].made =>
         latest = workers[w].change.to
    /\ (\A w \in Workers : ~Active(w)) => state = latest

(* A change that its worker will drop asks for what all before it ask for. *)
DropsFit ==
    \A i \in 1 .. Len(queue) : queue[i].from = queue[i].to =>
      /\ latest = queue[i].to
      /\ \A j \in 1 .. i - 1 : queue[j].to = queue[i].to
      /\ \A w \in Workers : Active(w) => workers[w].change.to = queue[i].to

Ends(to) ==
    IF Len(queue) > 0 THEN queue[Len(queue)].to = to
    ELSE /\ \A w \in Workers : Active(w) => workers[w].change.to = to
         /\ (\A w \in Workers : ~Active(w)) => latest = to
Heads ==
    \/ tracked = {} /\ Ends("signed_up")
    \/ \E m \in tracked : (\A n \in tracked : n <= m) /\ Ends(Asked(events[m]))

StateInv == Tracks /\ (~upset => OneChange /\ DropsFit /\ Heads)

LEMMA QueueIs ==
    ASSUME IInv
    PROVE  /\ queue \in Seq(Changes) /\ Len(queue) \in Nat
           /\ workers \in [Workers -> Jobs \cup {None}] /\ None \notin Jobs
           /\ \A w \in Workers : Active(w) => workers[w] \in Jobs
           /\ events \in Seq(Events) /\ Len(events) \in Nat
BY NoneAssumption DEF IInv, TypeOK, Jobs, Active

(* What leaves the changes alone, and nothing sent or tracked changes.     *)
LEMMA StateElsewhere ==
    ASSUME IInv, StateInv,
           UNCHANGED <<state, latest, queue, workers, tracked, upset>>,
           1 .. Len(events) \subseteq 1 .. Len(events'),
           \A n \in 1 .. Len(events) : events'[n] = events[n],
           \A n \in handled' : n \in 1 .. Len(events) /\
             (n \in handled \/ (Asked(events[n]) # None => n \in tracked))
    PROVE  StateInv'
<1>1. \A n \in 1 .. Len(events) : Asked(events'[n]) = Asked(events[n])
  OBVIOUS
<1>2. Tracks'
  BY <1>1 DEF StateInv, Tracks
<1>3. ASSUME ~upset PROVE OneChange' /\ DropsFit' /\ Heads'
  <2>1. OneChange' /\ DropsFit'
    BY <1>3 DEF StateInv, OneChange, DropsFit, Active
  <2>2. \A to : Ends(to)' <=> Ends(to)
    BY DEF Ends, Active
  <2>3. Heads'
    <3>1. CASE tracked = {}
      BY <1>3, <2>2, <3>1 DEF StateInv, Heads
    <3>2. CASE tracked # {}
      <4>1. PICK m \in tracked : (\A n \in tracked : n <= m) /\ Ends(Asked(events[m]))
        BY <1>3, <3>2 DEF StateInv, Heads
      <4>2. m \in 1 .. Len(events)
        BY DEF StateInv, Tracks
      <4>3. PICK to : to = Asked(events[m]) /\ to = Asked(events'[m])
        BY <1>1, <4>2
      <4> QED
        BY <2>2, <4>1, <4>3 DEF Heads
    <3> QED
      BY <3>1, <3>2
  <2> QED
    BY <2>1, <2>3
<1> QED
  BY <1>2, <1>3 DEF StateInv

(* A handler appends the change its event asks for.                        *)
LEMMA StateTrackStep ==
    ASSUME IInv, StateInv, NEW s \in Servers, Track(s)
    PROVE  StateInv'
<1>1. /\ servers[s] # None /\ servers[s].event \in 1 .. Len(events)
      /\ Asked(Handling(s)) # None
  BY ServersAre DEF Track, At, IInv, InHand
<1>2. PICK n, to : n = servers[s].event /\ to = Asked(events[n])
  OBVIOUS
<1>3. PICK change : change = [from |-> servers[s].from, to |-> to]
  OBVIOUS
<1>4. change.from = servers[s].from /\ change.to = to
  BY <1>3
<1>5. /\ queue' = Append(queue, change) /\ tracked' = tracked \cup {n}
      /\ UNCHANGED <<events, state, latest, workers, handled>>
      /\ ~upset' => /\ ~upset /\ \A m \in tracked : ~(m > n)
                    /\ ~ReadsTooEarly(s, to)
  BY <1>2, <1>3 DEF Track, Handling, atStripe, profile
<1>6. /\ Len(queue') = Len(queue) + 1 /\ Len(queue) \in Nat
      /\ queue'[Len(queue) + 1] = change
      /\ \A i \in 1 .. Len(queue) : queue'[i] = queue[i]
  BY <1>5, QueueIs
<1>7. n \in 1 .. Len(events) /\ n \in Nat /\ to # None
  BY <1>1, <1>2, QueueIs DEF Handling
<1>8. Tracks'
  BY <1>2, <1>5, <1>7 DEF StateInv, Tracks
<1>9. ASSUME ~upset' PROVE OneChange' /\ DropsFit' /\ Heads'
  <2>1. OneChange'
    BY <1>5, <1>9 DEF StateInv, OneChange, Active
  <2>2. ASSUME change.from = to
        PROVE  /\ latest = to
               /\ \A j \in 1 .. Len(queue) : queue[j].to = to
               /\ \A w \in Workers : Active(w) => workers[w].change.to = to
    BY <1>4, <1>5, <1>9, <2>2 DEF ReadsTooEarly, Outstanding, Active
  <2>3. ASSUME NEW i \in 1 .. Len(queue'), queue'[i].from = queue'[i].to
        PROVE  /\ latest = queue'[i].to
               /\ \A j \in 1 .. i - 1 : queue'[j].to = queue'[i].to
               /\ \A w \in Workers : Active(w) => workers[w].change.to = queue'[i].to
    <3>1. CASE i \in 1 .. Len(queue)
      <4>1. queue'[i] = queue[i] /\ \A j \in 1 .. i - 1 : queue'[j] = queue[j]
        BY <1>6, <3>1
      <4> QED
        BY <1>5, <1>9, <2>3, <3>1, <4>1 DEF StateInv, DropsFit
    <3>2. CASE i \notin 1 .. Len(queue)
      <4>1. i = Len(queue) + 1
        BY <1>6, <3>2
      <4>2. queue'[i].to = to /\ change.from = to
        BY <1>4, <1>6, <2>3, <4>1
      <4>3. \A j \in 1 .. i - 1 : j \in 1 .. Len(queue) /\ queue'[j] = queue[j]
        BY <1>6, <4>1
      <4> QED
        BY <2>2, <4>2, <4>3
    <3> QED
      BY <3>1, <3>2
  <2>4. DropsFit'
    BY <1>5, <2>3 DEF DropsFit, Active
  <2>5. Ends(to)'
    BY <1>4, <1>6 DEF Ends
  <2>6. \A m \in tracked' : m <= n
    BY <1>5, <1>7, <1>9 DEF StateInv, Tracks
  <2>7. Heads'
    BY <1>2, <1>5, <2>5, <2>6 DEF Heads
  <2> QED
    BY <2>1, <2>4, <2>7
<1> QED
  BY <1>8, <1>9 DEF StateInv

(* A worker takes the oldest change, and drops one from a state to itself. *)
LEMMA StateTakeStep ==
    ASSUME IInv, StateInv, NEW w \in Workers, Take(w)
    PROVE  StateInv'
<1>1. PICK change : change = Head(queue)
  OBVIOUS
<1>2. /\ ~Active(w) /\ queue # <<>> /\ queue' = Tail(queue)
      /\ UNCHANGED <<events, state, latest, tracked, handled>>
      /\ IF change.from = change.to THEN UNCHANGED <<workers, upset>>
         ELSE /\ workers' = [workers EXCEPT ![w] = [change |-> change, made |-> FALSE]]
              /\ upset' = (upset \/ \E v \in Workers : workers[v] # None /\
                             (workers[v] # None => workers[v].change.to # change.to))
  BY <1>1 DEF Take, Active, atStripe, profile
<1>3. /\ Len(queue) \in Nat /\ Len(queue) > 0 /\ change \in Changes
      /\ Len(queue') = Len(queue) - 1 /\ change = queue[1]
      /\ \A i \in 1 .. Len(queue') : queue'[i] = queue[i + 1]
  BY <1>1, <1>2, QueueIs
<1>4. Tracks'
  BY <1>2 DEF StateInv, Tracks
<1>5. ASSUME ~upset' PROVE OneChange' /\ DropsFit' /\ Heads'
  <2>1. ~upset /\ OneChange /\ DropsFit /\ Heads
    BY <1>2, <1>5 DEF StateInv
  <2>2. CASE change.from = change.to
    <3>1. workers' = workers
      BY <1>2, <2>2
    <3>2. /\ latest = change.to
          /\ \A v \in Workers : Active(v) => workers[v].change.to = change.to
      BY <1>3, <2>1, <2>2 DEF DropsFit
    <3>3. OneChange'
      BY <1>2, <2>1, <3>1 DEF OneChange, Active
    <3>4. ASSUME NEW i \in 1 .. Len(queue'), queue'[i].from = queue'[i].to
          PROVE  /\ latest = queue'[i].to
                 /\ \A j \in 1 .. i - 1 : queue'[j].to = queue'[i].to
                 /\ \A v \in Workers : Active(v) => workers[v].change.to = queue'[i].to
      <4>1. i + 1 \in 1 .. Len(queue) /\ queue'[i] = queue[i + 1]
        BY <1>3
      <4>2. \A j \in 1 .. i - 1 : j + 1 \in 1 .. (i + 1) - 1 /\ queue'[j] = queue[j + 1]
        BY <1>3
      <4> QED
        BY <2>1, <3>4, <4>1, <4>2 DEF DropsFit
    <3>5. DropsFit'
      BY <1>2, <3>1, <3>4 DEF DropsFit, Active
    <3>6. ASSUME NEW to, Ends(to) PROVE Ends(to)'
      <4>1. CASE Len(queue') > 0
        <5>1. Len(queue') \in 1 .. Len(queue') /\ Len(queue') + 1 = Len(queue)
          BY <1>3, <4>1
        <5> QED
          BY <1>3, <3>6, <4>1, <5>1 DEF Ends
      <4>2. CASE ~(Len(queue') > 0)
        <5>1. Len(queue) = 1
          BY <1>3, <4>2
        <5>2. to = change.to
          BY <1>3, <3>6, <5>1 DEF Ends
        <5> QED
          BY <1>2, <3>1, <3>2, <4>2, <5>2 DEF Ends, Active
      <4> QED
        BY <4>1, <4>2
    <3>7. Heads'
      BY <1>2, <2>1, <3>6 DEF Heads
    <3> QED
      BY <3>3, <3>5, <3>7
  <2>3. CASE change.from # change.to
    <3>1. PICK job : job = [change |-> change, made |-> FALSE]
      OBVIOUS
    <3>2. job \in Jobs /\ job.change = change /\ job.made = FALSE
      BY <1>3, <3>1 DEF Jobs
    <3>3. workers' = [workers EXCEPT ![w] = job]
      BY <1>2, <2>3, <3>1
    <3>4. workers'[w] = job /\ \A v \in Workers \ {w} : workers'[v] = workers[v]
      BY <3>3, QueueIs
    <3>5. Active(w)' /\ \A v \in Workers \ {w} : Active(v)' <=> Active(v)
      BY <3>2, <3>4, QueueIs DEF Active
    <3>6. \A v \in Workers : Active(v) => workers[v].change.to = change.to
      BY <1>2, <1>5, <2>3 DEF Active
    <3>7. \A v \in Workers : Active(v)' => workers'[v].change.to = change.to
      BY <3>2, <3>4, <3>5, <3>6
    <3>8. OneChange'
      <4>1. \A v \in Workers : Active(v)' /\ workers'[v].made =>
              latest = workers'[v].change.to
        BY <2>1, <3>2, <3>4, <3>5 DEF OneChange
      <4> QED
        BY <1>2, <3>5, <3>7, <4>1 DEF OneChange
    <3>9. ASSUME NEW i \in 1 .. Len(queue'), queue'[i].from = queue'[i].to
          PROVE  /\ latest = queue'[i].to
                 /\ \A j \in 1 .. i - 1 : queue'[j].to = queue'[i].to
                 /\ \A v \in Workers : Active(v)' => workers'[v].change.to = queue'[i].to
      <4>1. i + 1 \in 1 .. Len(queue) /\ queue'[i] = queue[i + 1]
            /\ 1 \in 1 .. (i + 1) - 1
        BY <1>3
      <4>2. \A j \in 1 .. i - 1 : j + 1 \in 1 .. (i + 1) - 1 /\ queue'[j] = queue[j + 1]
        BY <1>3
      <4>3. change.to = queue'[i].to
        BY <1>3, <2>1, <3>9, <4>1 DEF DropsFit
      <4> QED
        BY <2>1, <3>7, <3>9, <4>1, <4>2, <4>3 DEF DropsFit
    <3>10. DropsFit'
      BY <1>2, <3>9 DEF DropsFit
    <3>11. ASSUME NEW to, Ends(to) PROVE Ends(to)'
      <4>1. CASE Len(queue') > 0
        <5>1. Len(queue') \in 1 .. Len(queue') /\ Len(queue') + 1 = Len(queue)
          BY <1>3, <4>1
        <5> QED
          BY <1>3, <3>11, <4>1, <5>1 DEF Ends
      <4>2. CASE ~(Len(queue') > 0)
        <5>1. Len(queue) = 1
          BY <1>3, <4>2
        <5>2. to = change.to
          BY <1>3, <3>11, <5>1 DEF Ends
        <5> QED
          BY <3>5, <3>7, <4>2, <5>2 DEF Ends
      <4> QED
        BY <4>1, <4>2
    <3>12. Heads'
      BY <1>2, <2>1, <3>11 DEF Heads
    <3> QED
      BY <3>8, <3>10, <3>12
  <2> QED
    BY <2>2, <2>3
<1> QED
  BY <1>4, <1>5 DEF StateInv

(* The insert of the transition, and the update of the state.              *)
LEMMA StateWorkStep ==
    ASSUME IInv, StateInv, NEW w \in Workers, Record(w) \/ SaveState(w)
    PROVE  StateInv'
<1>1. /\ Active(w) /\ workers[w] \in Jobs
      /\ UNCHANGED <<events, queue, tracked, handled, upset>>
  BY QueueIs DEF Record, SaveState, Active, atStripe, ghosts
<1>2. Tracks'
  BY <1>1 DEF StateInv, Tracks
<1>3. ASSUME ~upset PROVE OneChange' /\ DropsFit' /\ Heads'
  <2>1. OneChange /\ DropsFit /\ Heads
    BY <1>3 DEF StateInv
  <2>2. \A v \in Workers : Active(v) => workers[v].change.to = workers[w].change.to
    BY <1>1, <2>1 DEF OneChange
  <2>3. CASE Record(w)
    <3>1. latest' = workers[w].change.to /\ state' = state
          /\ workers' = [workers EXCEPT ![w].made = TRUE]
      BY <2>3 DEF Record
    <3>2. /\ \A v \in Workers \ {w} : workers'[v] = workers[v]
          /\ workers'[w] \in Jobs /\ workers'[w].change = workers[w].change
      BY <1>1, <3>1, QueueIs DEF Jobs
    <3>3. \A v \in Workers :
            (Active(v)' <=> Active(v)) /\ workers'[v].change = workers[v].change
      BY <1>1, <3>2, QueueIs DEF Active
    <3>4. OneChange'
      BY <1>1, <2>2, <3>1, <3>3 DEF OneChange
    <3>5. DropsFit'
      BY <1>1, <2>1, <3>1, <3>3 DEF DropsFit
    <3>6. \A to : Ends(to) => Ends(to)'
      BY <1>1, <3>3 DEF Ends
    <3>7. Heads'
      BY <1>1, <2>1, <3>6 DEF Heads
    <3> QED
      BY <3>4, <3>5, <3>7
  <2>4. CASE SaveState(w)
    <3>1. /\ state' = workers[w].change.to /\ latest' = latest
          /\ workers' = [workers EXCEPT ![w] = None]
          /\ latest = workers[w].change.to
      BY <1>1, <2>1, <2>4 DEF SaveState, OneChange
    <3>2. workers'[w] = None /\ \A v \in Workers \ {w} : workers'[v] = workers[v]
      BY <3>1, QueueIs
    <3>3. ~Active(w)' /\ \A v \in Workers \ {w} : Active(v)' <=> Active(v)
      BY <3>2 DEF Active
    <3>4. OneChange'
      BY <2>1, <3>1, <3>2, <3>3 DEF OneChange
    <3>5. DropsFit'
      BY <1>1, <2>1, <3>1, <3>2, <3>3 DEF DropsFit
    <3>6. ASSUME NEW to, Ends(to) PROVE Ends(to)'
      <4>1. CASE Len(queue) > 0
        BY <1>1, <3>6, <4>1 DEF Ends
      <4>2. CASE ~(Len(queue) > 0)
        <5>1. latest' = to
          BY <1>1, <3>1, <3>6, <4>2 DEF Ends
        <5>2. \A v \in Workers : Active(v)' => workers'[v].change.to = to
          BY <3>2, <3>3, <3>6, <4>2 DEF Ends
        <5> QED
          BY <1>1, <4>2, <5>1, <5>2 DEF Ends
      <4> QED
        BY <4>1, <4>2
    <3>7. Heads'
      BY <1>1, <2>1, <3>6 DEF Heads
    <3> QED
      BY <3>4, <3>5, <3>7
  <2> QED
    BY <2>3, <2>4
<1> QED
  BY <1>1, <1>2, <1>3 DEF StateInv

LEMMA StateStep == IInv /\ StateInv /\ [Next]_vars => StateInv'
<1> SUFFICES ASSUME IInv, StateInv, [Next]_vars PROVE StateInv'
  OBVIOUS
<1>1. \A n \in handled : n \in 1 .. Len(events)
  BY DEF StateInv, Tracks
<1>2. ASSUME NEW s \in Subscriptions, Stripe(s) PROVE StateInv'
  BY <1>1, <1>2, SendKeeps, StateElsewhere DEF profile, ghosts
<1>3. ASSUME NEW s \in Servers, Acknowledge(s) PROVE StateInv'
  <2>1. /\ servers[s].event \in 1 .. Len(events)
        /\ Asked(events[servers[s].event]) # None => servers[s].event \in tracked
    BY <1>3, ServersAre DEF Acknowledge, At, IInv, InHand, Handling
  <2>2. /\ handled' = handled \cup {servers[s].event}
        /\ UNCHANGED <<events, state, latest, queue, workers, tracked, upset>>
    BY <1>3 DEF Acknowledge, atStripe, profile
  <2> QED
    BY <1>1, <2>1, <2>2, StateElsewhere
<1>4. ASSUME NEW s \in Servers,
             (\E n \in 1 .. Len(events) : Deliver(s, n)) \/ Load(s) \/ SaveId(s)
               \/ ReadState(s) \/ ClearId(s) \/ Fail(s)
      PROVE  StateInv'
  <2>1. UNCHANGED <<events, state, latest, queue, workers, tracked, handled, upset>>
    BY <1>4 DEF Deliver, Load, SaveId, ReadState, ClearId, Fail, atStripe, profile, ghosts
  <2> QED
    BY <1>1, <2>1, StateElsewhere
<1>5. ASSUME NEW s \in Servers, Webhook(s) PROVE StateInv'
  BY <1>3, <1>4, <1>5, StateTrackStep DEF Webhook
<1>6. ASSUME (\E n \in EventIds : Forget(n)) \/ UNCHANGED vars PROVE StateInv'
  <2>1. UNCHANGED <<events, state, latest, queue, workers, tracked, handled, upset>>
    BY <1>6 DEF Forget, vars, atStripe, profile, ghosts
  <2> QED
    BY <1>1, <2>1, StateElsewhere
<1>7. ASSUME NEW w \in Workers, Die(w) PROVE StateInv'
  BY <1>7 DEF Die, StateInv, Tracks, atStripe
<1>8. ASSUME NEW w \in Workers, Work(w) PROVE StateInv'
  BY <1>7, <1>8, StateTakeStep, StateWorkStep DEF Work
<1> QED
  BY <1>2, <1>5, <1>6, <1>8 DEF Next

(* When everything Stripe sent is answered and every change is carried     *)
(* out, the profile is in the state Stripe last asked for, and so is its   *)
(* latest transition: whatever was delivered twice, answered late or       *)
(* handled twice at once, unless a change was lost, overtaken, carried out *)
(* beside a different one, or made one from a state to itself by a latest  *)
(* transition read before another change was recorded (core/models.py      *)
(* Profile.track_state_change).                                            *)
THEOREM StateFollows == Spec => []StateFollowsStripe
<1>1. Init => StateInv
  <2> SUFFICES ASSUME Init PROVE StateInv
    OBVIOUS
  <2>1. /\ tracked = {} /\ handled = {} /\ state = "stranger" /\ latest = "stranger"
        /\ workers = [w \in Workers |-> None]
        /\ queue = <<[from |-> "stranger", to |-> "signed_up"]>>
    BY DEF Init
  <2>2. Len(queue) = 1 /\ queue[1].from = "stranger" /\ queue[1].to = "signed_up"
    BY <2>1
  <2>3. OneChange /\ Tracks
    BY <2>1 DEF OneChange, Tracks, Active
  <2>4. DropsFit
    BY <2>2 DEF DropsFit
  <2>5. Heads
    BY <2>1, <2>2 DEF Heads, Ends
  <2> QED
    BY <2>3, <2>4, <2>5 DEF StateInv
<1>2. IInv /\ IInv' /\ StateInv /\ [Next]_vars => StateInv'
  BY StateStep
<1>3. ASSUME IInv, StateInv PROVE StateFollowsStripe
  <2> DEFINE asking == {n \in 1 .. Len(events) : Asked(events[n]) # None}
  <2> SUFFICES ASSUME Settled, ~upset PROVE state = LastAsked /\ latest = LastAsked
    BY DEF StateFollowsStripe
  <2>1. Len(queue) = 0 /\ \A w \in Workers : ~Active(w)
    BY DEF Settled, Active
  <2>2. state = latest
    BY <1>3, <2>1 DEF StateInv, OneChange
  <2>3. asking = tracked
    BY <1>3 DEF StateInv, Tracks, Settled
  <2>4. CASE tracked = {}
    <3>1. latest = "signed_up"
      BY <1>3, <2>1, <2>4 DEF StateInv, Heads, Ends
    <3> QED
      BY <2>2, <2>3, <2>4, <3>1 DEF LastAsked
  <2>5. CASE tracked # {}
    <3>1. PICK m \in tracked : (\A n \in tracked : n <= m) /\ Ends(Asked(events[m]))
      BY <1>3, <2>5 DEF StateInv, Heads
    <3>2. latest = Asked(events[m])
      BY <2>1, <3>1 DEF Ends
    <3>3. PICK last : last = CHOOSE n \in asking : \A k \in asking : k <= n
      OBVIOUS
    <3>4. last \in asking /\ \A k \in asking : k <= last
      <4> HIDE DEF asking
      <4> QED
        BY <2>3, <3>1, <3>3
    <3>5. last = m
      <4>1. last \in Nat /\ m \in Nat /\ last <= m /\ m <= last
        BY <1>3, <2>3, <3>1, <3>4 DEF StateInv, Tracks
      <4> QED
        BY <4>1
    <3>6. LastAsked = Asked(events[last])
      BY <2>3, <2>5, <3>3 DEF LastAsked
    <3> QED
      BY <2>2, <3>2, <3>5, <3>6
  <2> QED
    BY <2>4, <2>5
<1> QED
  BY <1>1, <1>2, <1>3, Invariance, PTL DEF Spec

=============================================================================
