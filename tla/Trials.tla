------------------------------- MODULE Trials -------------------------------
(***************************************************************************)
(* The trial of one profile (apps/core/trials.py): it starts with the      *)
(* first API request, lasts Duration days, and is extended by rewards and  *)
(* by hand.  A request works with the Profile that authentication loaded,  *)
(* reads the clock, and only then locks the profile (SELECT ... FOR        *)
(* UPDATE); everything it does under the lock is one step here, because    *)
(* every other writer of the profile's record waits for that lock.  The    *)
(* settings form writes every field of the Profile it loaded               *)
(* (apps/core/forms.py); the ghost clobbered says that such a write        *)
(* overwrote a newer profile.  Definitions whose comments begin "Fault"    *)
(* replace the next one without that word when properties are put to the   *)
(* test.                                                                   *)
(***************************************************************************)
EXTENDS Naturals, FiniteSets

CONSTANTS
    Requests,      \* the threads that serve API requests and claims
    Editors,       \* the threads that serve the settings form
    Rewards,       \* TrialReward
    Duration,      \* TRIAL_DURATION_DAYS
    RewardDays,    \* TrialRewardDefinition.days
    None,          \* a trial that has not started
    MaxTime,       \* bound: how far the clock runs
    MaxGranted     \* bound: days granted with extend_trial

ASSUME TrialAssumption ==
    /\ Duration \in Nat /\ RewardDays \in Nat
    /\ MaxTime \in Nat /\ MaxGranted \in Nat
    /\ IsFiniteSet(Rewards)
    /\ None \notin Nat
    /\ None \notin [started : Nat \cup {None}, ends : Nat \cup {None},
                    subscribed : BOOLEAN]

VARIABLES
    clock,         \* timezone.now(), in days
    profile,       \* the committed Profile record
    claims,        \* the TrialRewardClaim of each reward; applied: applied_at set
    granted,       \* ghost: days granted with extend_trial
    requests,      \* what each request has loaded and read, and its outcome
    editing,       \* the Profile each settings form was built on
    clobbered      \* ghost

vars == <<clock, profile, claims, granted, requests, editing, clobbered>>

(* subscribed is has_active_subscription: state SUBSCRIBED or CANCELLED.   *)
Profile == [started : Nat \cup {None}, ends : Nat \cup {None},
            subscribed : BOOLEAN]

(* api: an authenticated request; check: one that must not start a trial.  *)
Kinds == {"api", "check", "claim", "extend"}

Request == [stage : {"idle", "loaded", "timed"}, kind : Kinds,
            copy : Profile, now : Nat, verdict : {"none", "allowed", "refused"}]

(* No trial: the profile after sign-up, and the copy of a request at rest. *)
Untried == [started |-> None, ends |-> None, subscribed |-> FALSE]

Finished(verdict) ==
    [stage |-> "idle", kind |-> "api", copy |-> Untried, now |-> 0,
     verdict |-> verdict]

Init ==
    /\ clock = 0
    /\ profile = Untried
    /\ claims = [r \in Rewards |-> "unclaimed"]
    /\ granted = 0
    /\ requests = [p \in Requests |-> Finished("none")]
    /\ editing = [e \in Editors |-> None]
    /\ clobbered = FALSE

At(p, stage, kind) == requests[p].stage = stage /\ requests[p].kind = kind

Finish(p, verdict) ==
    requests' = [requests EXCEPT ![p] = Finished(verdict)]

Later(s, t) == IF s > t THEN s ELSE t

InStatus(status) == {r \in Rewards : claims[r] = status}

(* Fault: a trial is over at its end date, not after it.                   *)
UnexpiredExclusive(x, now) ==
    ~x.subscribed /\ x.started # None => now < x.ends

(* get_trial_status(...) != EXPIRED, for the profile x at time now.        *)
Unexpired(x, now) ==
    ~x.subscribed /\ x.started # None => now <= x.ends

-----------------------------------------------------------------------------
(* Authentication, or the session, loads the profile without a lock ...    *)
Load(p, kind) ==
    /\ requests[p].stage = "idle"
    /\ requests' = [requests EXCEPT
         ![p] = [stage |-> "loaded", kind |-> kind, copy |-> profile,
                 now |-> 0, verdict |-> "none"]]
    /\ UNCHANGED <<clock, profile, claims, granted, editing, clobbered>>

(* ... and the operation reads the clock before it takes the lock.         *)
ReadClock(p) ==
    /\ requests[p].stage = "loaded"
    /\ requests' = [requests EXCEPT ![p].stage = "timed", ![p].now = clock]
    /\ UNCHANGED <<clock, profile, claims, granted, editing, clobbered>>

(* require_unexpired_trial_access: the loaded profile decides.             *)
CheckAccess(p) ==
    /\ At(p, "timed", "check")
    /\ Finish(p, IF Unexpired(requests[p].copy, requests[p].now)
                 THEN "allowed" ELSE "refused")
    /\ UNCHANGED <<clock, profile, claims, granted, editing, clobbered>>

(* activate_or_require_trial_access, first part: a subscription or a       *)
(* running trial in the loaded profile is enough.                          *)
AllowFromCopy(p) ==
    /\ At(p, "timed", "api")
    /\ requests[p].copy.started # None \/ requests[p].copy.subscribed
    /\ Unexpired(requests[p].copy, requests[p].now)
    /\ Finish(p, "allowed")
    /\ UNCHANGED <<clock, profile, claims, granted, editing, clobbered>>

(* activate_or_require_trial_access under the lock: start the trial with   *)
(* the pending rewards, or judge by the profile as it is now.              *)
Activate(p) ==
    LET r == requests[p]
    IN  /\ At(p, "timed", "api")
        /\ ~r.copy.subscribed
        /\ r.copy.started # None => r.now > r.copy.ends
        /\ IF profile.subscribed \/ profile.started # None
           THEN /\ Finish(p, IF Unexpired(profile, r.now)
                             THEN "allowed" ELSE "refused")
                /\ UNCHANGED <<profile, claims>>
           ELSE /\ profile' = [profile EXCEPT
                     !.started = r.now,
                     !.ends = r.now + Duration
                              + RewardDays * Cardinality(InStatus("pending"))]
                /\ claims' = [c \in Rewards |->
                     IF claims[c] = "pending" THEN "applied" ELSE claims[c]]
                /\ Finish(p, "allowed")
        /\ UNCHANGED <<clock, granted, editing, clobbered>>

(* Fault: what is left of the trial is lost.                               *)
ExtendedFromNow(ends, now, days) == now + days

(* _extend_locked_trial                                                    *)
Extended(ends, now, days) == Later(ends, now) + days

(* Fault: whether the reward was claimed before is not asked.              *)
ClaimRewardAgain(p) ==
    /\ At(p, "timed", "claim")
    /\ \E c \in Rewards :
        /\ ~profile.subscribed
        /\ IF profile.ends = None
           THEN /\ claims' = [claims EXCEPT ![c] = "pending"]
                /\ UNCHANGED profile
           ELSE /\ claims' = [claims EXCEPT ![c] = "applied"]
                /\ profile' = [profile EXCEPT
                     !.ends = Extended(@, requests[p].now, RewardDays)]
    /\ Finish(p, "none")
    /\ UNCHANGED <<clock, granted, editing, clobbered>>

(* claim_trial_reward, when it is not refused: a reward claimed before, an *)
(* active subscription or an unverified e-mail address change nothing.     *)
ClaimReward(p) ==
    /\ At(p, "timed", "claim")
    /\ \E c \in InStatus("unclaimed") :
        /\ ~profile.subscribed
        /\ IF profile.ends = None
           THEN /\ claims' = [claims EXCEPT ![c] = "pending"]
                /\ UNCHANGED profile
           ELSE /\ claims' = [claims EXCEPT ![c] = "applied"]
                /\ profile' = [profile EXCEPT
                     !.ends = Extended(@, requests[p].now, RewardDays)]
    /\ Finish(p, "none")
    /\ UNCHANGED <<clock, granted, editing, clobbered>>

(* extend_trial                                                            *)
ExtendTrial(p) ==
    /\ At(p, "timed", "extend")
    /\ profile.ends # None
    /\ \E days \in 1..(MaxGranted - granted) :
        /\ profile' = [profile EXCEPT
             !.ends = Extended(@, requests[p].now, days)]
        /\ granted' = granted + days
    /\ Finish(p, "none")
    /\ UNCHANGED <<clock, claims, editing, clobbered>>

(* A refused claim or extension, an error, a lost worker.                  *)
GiveUp(p) ==
    /\ requests[p].stage # "idle"
    /\ Finish(p, "none")
    /\ UNCHANGED <<clock, profile, claims, granted, editing, clobbered>>

-----------------------------------------------------------------------------
(* UserSettingsView: request.user.profile is loaded ...                    *)
OpenSettings(e) ==
    /\ editing[e] = None
    /\ editing' = [editing EXCEPT ![e] = profile]
    /\ UNCHANGED <<clock, profile, claims, granted, requests, clobbered>>

(* ... and ProfileUpdateForm.save writes all of it back.                   *)
SaveSettings(e) ==
    /\ editing[e] # None
    /\ profile' = editing[e]
    /\ clobbered' = (clobbered \/ editing[e] # profile)
    /\ editing' = [editing EXCEPT ![e] = None]
    /\ UNCHANGED <<clock, claims, granted, requests>>

(* The task track_state_change writes the state and nothing else.          *)
ChangeState ==
    /\ profile' = [profile EXCEPT !.subscribed = ~@]
    /\ UNCHANGED <<clock, claims, granted, requests, editing, clobbered>>

Tick ==
    /\ clock < MaxTime
    /\ clock' = clock + 1
    /\ UNCHANGED <<profile, claims, granted, requests, editing, clobbered>>

RequestStep(p) ==
    \/ \E kind \in Kinds : Load(p, kind)
    \/ ReadClock(p) \/ CheckAccess(p) \/ AllowFromCopy(p) \/ Activate(p)
    \/ ClaimReward(p) \/ ExtendTrial(p) \/ GiveUp(p)

Next ==
    \/ \E p \in Requests : RequestStep(p)
    \/ \E e \in Editors : OpenSettings(e) \/ SaveSettings(e)
    \/ ChangeState
    \/ Tick

Spec == Init /\ [][Next]_vars

-----------------------------------------------------------------------------
(* Every variable has its type.                                            *)
TypeOK ==
    /\ clock \in Nat
    /\ profile \in Profile
    /\ claims \in [Rewards -> {"unclaimed", "pending", "applied"}]
    /\ granted \in 0..MaxGranted
    /\ requests \in [Requests -> Request]
    /\ editing \in [Editors -> Profile \cup {None}]
    /\ clobbered \in BOOLEAN

(* The days a started trial owes: its duration, the rewards claimed before *)
(* or since, and what was granted by hand.                                 *)
DaysOwed == Duration + granted +
            RewardDays * Cardinality(Rewards \ InStatus("unclaimed"))

(* CHANGELOG.md:565 and core/trials.py:55 ("earn 3 days"): every reward    *)
(* claimed, before the trial started or during it, is in its end date, and *)
(* so is every day granted; nothing stays pending once a trial runs.       *)
RewardsEarned ==
    profile.started # None => profile.ends >= profile.started + DaysOwed

(* Only a settings form saved over a newer profile can take a reward away, *)
(* leave one pending for ever, or apply one to a trial that is not there.  *)
EveryRewardCounted ==
    ~clobbered =>
        /\ (profile.started = None) <=> (profile.ends = None)
        /\ profile.started = None => granted = 0 /\ InStatus("applied") = {}
        /\ profile.started # None => InStatus("pending") = {}
        /\ RewardsEarned

(* A trial starts once and its end never comes nearer, whatever order      *)
(* activations, claims and extensions read the clock and take the lock in. *)
TrialNeverShrinks ==
    [][~clobbered' /\ profile.started # None =>
          /\ profile'.started = profile.started
          /\ profile'.ends >= profile.ends]_vars

(* The end date moves only by days that were earned: each reward adds its  *)
(* days once, counted from the end of the trial or from now, however often *)
(* and from wherever it is claimed.                                        *)
DaysAddedOnce ==
    [][~clobbered' /\ profile.started # None =>
          profile'.ends <=
              Later(profile.ends, clock) + (granted' - granted)
              + RewardDays * Cardinality(InStatus("unclaimed") \ InStatus("unclaimed")')]_vars

(* A request that could start a trial is refused only after all the days   *)
(* owed are over, although it looked at a profile loaded earlier first.    *)
RefusedOnlyAfterTrial ==
    [][\A p \in Requests :
          /\ At(p, "timed", "api") /\ requests'[p].verdict = "refused"
          /\ ~clobbered
          => requests[p].now > profile.started + DaysOwed]_vars

(* A request allowed on the strength of a copy of the profile is still     *)
(* within the trial as it is now, unless it needs none.                    *)
AllowedWithinTrial ==
    [][\A p \in Requests :
          LET r == requests[p]
          IN  r.stage = "timed" /\ requests'[p].verdict = "allowed" /\ ~clobbered =>
                \/ r.copy.subscribed \/ profile.subscribed
                \/ r.kind = "check" /\ r.copy.started = None
                \/ profile'.started # None /\ r.now <= profile'.ends]_vars
=============================================================================
