---------------------------- MODULE TrialsProofs ----------------------------
(***************************************************************************)
(* That the trial of a profile keeps its account of days, for any number   *)
(* of requests, rewards and days.  The inductive invariant adds to the     *)
(* type and the account what a request's copy of the profile is worth:     *)
(* a trial it shows has started then, and ends no earlier than it says;    *)
(* that a request under way has no verdict yet; and that the time it read  *)
(* is past.  The second half is about who is let in (module Access).       *)
(***************************************************************************)
EXTENDS Trials, Access, FiniteSetTheorems, TLAPS

CopiesHold ==
    ~clobbered =>
        \A p \in Requests :
            /\ (requests[p].copy.started = None) <=> (requests[p].copy.ends = None)
            /\ requests[p].copy.started # None =>
                 \/ requests[p].stage = "idle"
                 \/ /\ profile.started = requests[p].copy.started
                    /\ profile.ends >= requests[p].copy.ends

Undecided ==
    \A p \in Requests : requests[p].stage # "idle" => requests[p].verdict = "none"

Past == \A p \in Requests : requests[p].now <= clock

IInv == TypeOK /\ EveryRewardCounted /\ CopiesHold /\ Undecided /\ Past

Claimed == Rewards \ InStatus("unclaimed")

LEMMA MoreDays ==
    ASSUME NEW a \in Nat, NEW b \in Nat
    PROVE  a * (b + 1) = a * b + a /\ a * b \in Nat
  OBVIOUS

LEMMA SetsFinite ==
    /\ IsFiniteSet(Claimed) /\ Cardinality(Claimed) \in Nat
    /\ IsFiniteSet(InStatus("pending"))
    /\ Cardinality(InStatus("pending")) \in Nat
<1>1. IsFiniteSet(Rewards)
  BY TrialAssumption
<1>2. Claimed \subseteq Rewards /\ InStatus("pending") \subseteq Rewards
  BY DEF Claimed, InStatus
<1> QED
  BY <1>1, <1>2, FS_Subset, FS_CardinalityType

(* Every variable keeps its type.                                          *)
LEMMA InitType == Init => TypeOK
<1> SUFFICES ASSUME Init PROVE TypeOK
  OBVIOUS
<1>1. Untried \in Profile
  BY DEF Untried, Profile
<1>2. Finished("none") \in Request
  BY <1>1 DEF Finished, Request, Kinds
<1>3. 0 \in Nat /\ 0 \in 0..MaxGranted
  BY TrialAssumption
<1> QED
  BY <1>1, <1>2, <1>3 DEF Init, TypeOK

LEMMA TypeStep == TypeOK /\ [Next]_vars => TypeOK'
<1> SUFFICES ASSUME TypeOK, [Next]_vars PROVE TypeOK'
  OBVIOUS
<1>0. clock \in Nat /\ profile \in Profile /\ granted \in Nat /\ granted <= MaxGranted
  BY TrialAssumption DEF TypeOK
<1>1. \A v \in {"none", "allowed", "refused"} : Finished(v) \in Request
  BY DEF Finished, Untried, Request, Profile, Kinds
<1>2. ASSUME NEW p \in Requests, NEW v \in {"none", "allowed", "refused"}, Finish(p, v)
      PROVE  requests' \in [Requests -> Request]
  BY <1>1, <1>2 DEF Finish, TypeOK
<1>3. ASSUME NEW p \in Requests, NEW kind \in Kinds, Load(p, kind) PROVE TypeOK'
  <2>1. [stage |-> "loaded", kind |-> kind, copy |-> profile, now |-> 0,
         verdict |-> "none"] \in Request
    BY <1>0 DEF Request
  <2> QED BY <1>3, <2>1 DEF Load, TypeOK
<1>4. ASSUME NEW p \in Requests, ReadClock(p) PROVE TypeOK'
  <2> DEFINE r == [requests[p] EXCEPT !.stage = "timed", !.now = clock]
  <2>1. r \in Request
    BY <1>0 DEF TypeOK, Request
  <2>2. requests' = [requests EXCEPT ![p] = r]
    BY <1>4 DEF ReadClock, TypeOK, Request
  <2> HIDE DEF r
  <2> QED BY <1>4, <2>1, <2>2 DEF ReadClock, TypeOK
<1>5. ASSUME NEW p \in Requests, CheckAccess(p) PROVE TypeOK'
  <2>1. requests' \in [Requests -> Request]
    BY <1>5, <1>2 DEF CheckAccess
  <2> QED BY <1>5, <2>1 DEF CheckAccess, TypeOK
<1>6. ASSUME NEW p \in Requests, AllowFromCopy(p) PROVE TypeOK'
  <2>1. requests' \in [Requests -> Request]
    BY <1>6, <1>2 DEF AllowFromCopy
  <2> QED BY <1>6, <2>1 DEF AllowFromCopy, TypeOK
<1>7. ASSUME NEW p \in Requests, Activate(p) PROVE TypeOK'
  <2>1. requests' \in [Requests -> Request]
    BY <1>7, <1>2 DEF Activate
  <2>2. profile' \in Profile
    <3> DEFINE n == Cardinality(InStatus("pending"))
    <3>1. n \in Nat /\ requests[p].now \in Nat
      BY SetsFinite DEF TypeOK, Request
    <3>2. RewardDays * n \in Nat
      BY <3>1, MoreDays, TrialAssumption
    <3> HIDE DEF n
    <3>3. requests[p].now + Duration + RewardDays * n \in Nat
      BY <3>1, <3>2, TrialAssumption
    <3>4. CASE profile' = profile
      BY <3>4, <1>0
    <3>5. CASE profile' = [profile EXCEPT !.started = requests[p].now,
                             !.ends = requests[p].now + Duration + RewardDays * n]
      BY <3>5, <3>1, <3>3, <1>0 DEF Profile
    <3> QED BY <3>4, <3>5, <1>7 DEF Activate, n
  <2>3. claims' \in [Rewards -> {"unclaimed", "pending", "applied"}]
    BY <1>7 DEF Activate, TypeOK
  <2> QED BY <1>7, <2>1, <2>2, <2>3 DEF Activate, TypeOK
<1>8. ASSUME NEW p \in Requests, ClaimReward(p) PROVE TypeOK'
  <2>1. requests' \in [Requests -> Request]
    BY <1>8, <1>2 DEF ClaimReward
  <2>2. requests[p].now \in Nat /\ profile.ends \in Nat \cup {None}
    BY <1>0 DEF TypeOK, Request, Profile
  <2>3. profile.ends # None => Extended(profile.ends, requests[p].now, RewardDays) \in Nat
    BY <2>2, TrialAssumption DEF Extended, Later
  <2>4. profile' \in Profile
    BY <1>8, <2>3, <1>0 DEF ClaimReward, Profile
  <2>5. claims' \in [Rewards -> {"unclaimed", "pending", "applied"}]
    BY <1>8 DEF ClaimReward, TypeOK, InStatus
  <2> QED BY <1>8, <2>1, <2>4, <2>5 DEF ClaimReward, TypeOK
<1>9. ASSUME NEW p \in Requests, ExtendTrial(p) PROVE TypeOK'
  <2>1. requests' \in [Requests -> Request]
    BY <1>9, <1>2 DEF ExtendTrial
  <2>2. requests[p].now \in Nat /\ profile.ends \in Nat
    BY <1>9, <1>0 DEF ExtendTrial, TypeOK, Request, Profile
  <2>3. PICK days \in 1..(MaxGranted - granted) :
          /\ profile' = [profile EXCEPT !.ends = Extended(@, requests[p].now, days)]
          /\ granted' = granted + days
    BY <1>9 DEF ExtendTrial
  <2>4. days \in Nat /\ granted + days <= MaxGranted
    BY <1>0, TrialAssumption
  <2>5. Extended(profile.ends, requests[p].now, days) \in Nat
    BY <2>2, <2>4 DEF Extended, Later
  <2>6. profile' \in Profile
    BY <2>3, <2>5, <1>0 DEF Profile
  <2>7. granted' \in 0..MaxGranted
    BY <2>3, <2>4, <1>0, TrialAssumption
  <2> QED BY <1>9, <2>1, <2>6, <2>7 DEF ExtendTrial, TypeOK
<1>10. ASSUME NEW p \in Requests, GiveUp(p) PROVE TypeOK'
  <2>1. requests' \in [Requests -> Request]
    BY <1>10, <1>2 DEF GiveUp
  <2> QED BY <1>10, <2>1 DEF GiveUp, TypeOK
<1>11. ASSUME NEW e \in Editors, OpenSettings(e) PROVE TypeOK'
  BY <1>11, <1>0 DEF OpenSettings, TypeOK
<1>12. ASSUME NEW e \in Editors, SaveSettings(e) PROVE TypeOK'
  BY <1>12 DEF SaveSettings, TypeOK
<1>13. ASSUME ChangeState PROVE TypeOK'
  BY <1>13, <1>0 DEF ChangeState, TypeOK, Profile
<1>14. ASSUME Tick PROVE TypeOK'
  BY <1>14, <1>0 DEF Tick, TypeOK
<1>15. ASSUME UNCHANGED vars PROVE TypeOK'
  BY <1>15 DEF vars, TypeOK, InStatus
<1> QED
  BY <1>3, <1>4, <1>5, <1>6, <1>7, <1>8, <1>9, <1>10, <1>11, <1>12, <1>13, <1>14, <1>15
  DEF Next, RequestStep

THEOREM TypeCorrect == Spec => []TypeOK
  BY InitType, TypeStep, PTL DEF Spec

-----------------------------------------------------------------------------
(* The account of days.                                                    *)

Account ==
    /\ (profile.started = None) <=> (profile.ends = None)
    /\ profile.started = None => granted = 0 /\ InStatus("applied") = {}
    /\ profile.started # None => InStatus("pending") = {}
    /\ RewardsEarned

LEMMA AccountMeans == EveryRewardCounted <=> (~clobbered => Account)
  BY DEF EveryRewardCounted, Account

LEMMA InitAccount == Init => Account /\ CopiesHold
<1> SUFFICES ASSUME Init PROVE Account /\ CopiesHold
  OBVIOUS
<1>1. InStatus("applied") = {}
  BY DEF Init, InStatus
<1> QED
  BY <1>1 DEF Init, Account, RewardsEarned, CopiesHold, Untried, Finished

LEMMA AccountKept ==
    ASSUME Account, UNCHANGED <<claims, granted>>,
           profile'.started = profile.started, profile'.ends = profile.ends
    PROVE  Account'
  BY DEF Account, RewardsEarned, DaysOwed, InStatus

(* Starting the trial pays for every pending reward.                       *)
LEMMA ActivatePays ==
    ASSUME TypeOK, Account, NEW p \in Requests, Activate(p)
    PROVE  Account'
<1>1. CASE profile.subscribed \/ profile.started # None
  BY <1>1, AccountKept DEF Activate
<1>2. CASE ~(profile.subscribed \/ profile.started # None)
  <2> DEFINE now == requests[p].now
             n == Cardinality(InStatus("pending"))
  <2>1. /\ profile' = [profile EXCEPT !.started = now,
                                      !.ends = now + Duration + RewardDays * n]
        /\ claims' = [c \in Rewards |->
             IF claims[c] = "pending" THEN "applied" ELSE claims[c]]
        /\ granted' = granted
    BY <1>2 DEF Activate
  <2>2. now \in Nat /\ n \in Nat /\ RewardDays * n \in Nat
    BY SetsFinite, MoreDays, TrialAssumption DEF TypeOK, Request
  <2>3. granted = 0 /\ InStatus("applied") = {}
    BY <1>2 DEF Account
  <2>4. InStatus("pending")' = {}
    BY <2>1 DEF InStatus
  <2>5. Claimed' = InStatus("pending")
    BY <2>1, <2>3 DEF Claimed, InStatus, TypeOK
  <2>6. DaysOwed' = Duration + 0 + RewardDays * n
    BY <2>1, <2>3, <2>5 DEF DaysOwed, Claimed
  <2>7. profile'.started = now /\ profile'.ends = now + Duration + RewardDays * n
    BY <2>1 DEF TypeOK, Profile
  <2> HIDE DEF now, n
  <2>8. profile'.started \in Nat /\ profile'.ends \in Nat
    BY <2>7, <2>2, TrialAssumption
  <2>9. profile'.ends >= profile'.started + DaysOwed'
    BY <2>6, <2>7, <2>2, TrialAssumption
  <2> QED
    BY <2>4, <2>8, <2>9, TrialAssumption DEF Account, RewardsEarned
<1> QED
  BY <1>1, <1>2

(* A claim either stays pending or moves the end date by its days.         *)
LEMMA ClaimPays ==
    ASSUME TypeOK, Account, NEW p \in Requests, ClaimReward(p)
    PROVE  Account'
<1> DEFINE now == requests[p].now
<1>1. PICK c \in InStatus("unclaimed") :
        IF profile.ends = None
        THEN claims' = [claims EXCEPT ![c] = "pending"] /\ profile' = profile
        ELSE /\ claims' = [claims EXCEPT ![c] = "applied"]
             /\ profile' = [profile EXCEPT !.ends = Extended(@, now, RewardDays)]
  BY DEF ClaimReward
<1>2. c \in Rewards /\ claims[c] = "unclaimed" /\ granted' = granted
  BY DEF InStatus, ClaimReward
<1>3. CASE profile.ends = None
  <2>1. profile.started = None /\ profile' = profile
    BY <1>1, <1>3 DEF Account
  <2>2. InStatus("applied")' = {}
    BY <1>1, <1>2, <1>3, <2>1 DEF Account, InStatus, TypeOK
  <2> QED
    BY <1>2, <1>3, <2>1, <2>2 DEF Account, RewardsEarned
<1>4. CASE profile.ends # None
  <2>1. now \in Nat /\ profile.ends \in Nat /\ profile.started \in Nat
        /\ granted \in Nat /\ profile.started # None
    BY <1>4, TrialAssumption DEF TypeOK, Request, Profile, Account
  <2>2. profile'.started = profile.started
        /\ profile'.ends = Extended(profile.ends, now, RewardDays)
    BY <1>1, <1>4 DEF TypeOK, Profile
  <2> HIDE DEF now
  <2>3. profile'.ends \in Nat /\ profile'.ends >= profile.ends + RewardDays
    BY <2>1, <2>2, TrialAssumption DEF Extended, Later
  <2>4. InStatus("pending")' = {}
    BY <1>1, <1>2, <1>4, <2>1 DEF Account, InStatus, TypeOK
  <2>5. Claimed' = Claimed \cup {c} /\ c \notin Claimed
    BY <1>1, <1>2, <1>4 DEF Claimed, InStatus, TypeOK
  <2>6. Cardinality(Claimed') = Cardinality(Claimed) + 1
    BY <2>5, SetsFinite, FS_AddElement
  <2>7. RewardDays * Cardinality(Claimed') = RewardDays * Cardinality(Claimed) + RewardDays
        /\ RewardDays * Cardinality(Claimed) \in Nat
    BY <2>6, SetsFinite, MoreDays, TrialAssumption
  <2>8. DaysOwed = Duration + granted + RewardDays * Cardinality(Claimed)
        /\ DaysOwed' = Duration + granted + RewardDays * Cardinality(Claimed')
    BY <1>2 DEF DaysOwed, Claimed
  <2>9. profile.ends >= profile.started + DaysOwed
    BY <2>1 DEF Account, RewardsEarned
  <2>10. profile'.ends >= profile'.started + DaysOwed'
    BY <2>1, <2>2, <2>3, <2>7, <2>8, <2>9, TrialAssumption
  <2> QED
    BY <2>1, <2>2, <2>3, <2>4, <2>10, TrialAssumption DEF Account, RewardsEarned
<1> QED
  BY <1>3, <1>4

LEMMA ExtensionPays ==
    ASSUME TypeOK, Account, NEW p \in Requests, ExtendTrial(p)
    PROVE  Account'
<1> DEFINE now == requests[p].now
<1>1. PICK days \in 1..(MaxGranted - granted) :
        /\ profile' = [profile EXCEPT !.ends = Extended(@, now, days)]
        /\ granted' = granted + days
  BY DEF ExtendTrial
<1>2. /\ days \in Nat /\ now \in Nat /\ granted \in Nat
      /\ profile.ends \in Nat /\ profile.started \in Nat /\ profile.started # None
  BY TrialAssumption DEF ExtendTrial, TypeOK, Request, Profile, Account
<1>3. profile'.started = profile.started /\ claims' = claims
      /\ profile'.ends = Extended(profile.ends, now, days)
  BY <1>1 DEF ExtendTrial, TypeOK, Profile
<1> HIDE DEF now
<1>4. profile'.ends \in Nat /\ profile'.ends >= profile.ends + days
  BY <1>2, <1>3 DEF Extended, Later
<1>5. RewardDays * Cardinality(Claimed) \in Nat
  BY SetsFinite, MoreDays, TrialAssumption
<1>6. DaysOwed = Duration + granted + RewardDays * Cardinality(Claimed)
      /\ DaysOwed' = Duration + granted' + RewardDays * Cardinality(Claimed)
  BY <1>3 DEF DaysOwed, Claimed, InStatus
<1>7. profile.ends >= profile.started + DaysOwed
  BY <1>2 DEF Account, RewardsEarned
<1>8. profile'.ends >= profile'.started + DaysOwed'
  BY <1>1, <1>2, <1>3, <1>4, <1>5, <1>6, <1>7, TrialAssumption
<1>9. InStatus("pending")' = {}
  BY <1>2, <1>3 DEF Account, InStatus
<1> QED
  BY <1>2, <1>3, <1>4, <1>8, <1>9, TrialAssumption DEF Account, RewardsEarned

(* A settings form that overwrites nothing newer writes what is there.     *)
LEMMA HarmlessSave ==
    ASSUME NEW e \in Editors, SaveSettings(e), ~clobbered'
    PROVE  ~clobbered /\ profile' = profile /\ UNCHANGED <<claims, granted, requests>>
  BY DEF SaveSettings

LEMMA ClobberedStays == [Next]_vars /\ ~clobbered' => ~clobbered
  BY DEF Next, RequestStep, Load, ReadClock, CheckAccess, AllowFromCopy, Activate,
         ClaimReward, ExtendTrial, GiveUp, OpenSettings, SaveSettings, ChangeState,
         Tick, vars

LEMMA AccountStep ==
    ASSUME TypeOK, Account, [Next]_vars, ~clobbered'
    PROVE  Account'
<1>1. ASSUME NEW p \in Requests, RequestStep(p) PROVE Account'
  <2>1. CASE UNCHANGED <<profile, claims, granted>>
    BY <2>1, AccountKept
  <2>2. CASE Activate(p) \/ ClaimReward(p) \/ ExtendTrial(p)
    BY <2>2, ActivatePays, ClaimPays, ExtensionPays
  <2> QED
    BY <1>1, <2>1, <2>2
    DEF RequestStep, Load, ReadClock, CheckAccess, AllowFromCopy, GiveUp
<1>2. ASSUME NEW e \in Editors, OpenSettings(e) \/ SaveSettings(e) PROVE Account'
  BY <1>2, HarmlessSave, AccountKept DEF OpenSettings
<1>3. CASE ChangeState
  <2>1. profile'.started = profile.started /\ profile'.ends = profile.ends
    BY <1>3 DEF ChangeState, TypeOK, Profile
  <2> QED BY <1>3, <2>1, AccountKept DEF ChangeState
<1>4. CASE Tick \/ UNCHANGED vars
  BY <1>4, AccountKept DEF Tick, vars
<1> QED
  BY <1>1, <1>2, <1>3, <1>4 DEF Next

(* The end date moves one way.                                             *)
LEMMA Grows ==
    ASSUME TypeOK, Account, [Next]_vars, ~clobbered', profile.started # None
    PROVE  /\ profile'.started = profile.started
           /\ profile'.ends \in Nat /\ profile.ends \in Nat
           /\ profile'.ends >= profile.ends
<1>0. profile.ends \in Nat
  BY TrialAssumption DEF TypeOK, Profile, Account
<1>1. ASSUME NEW p \in Requests, Activate(p) PROVE profile' = profile
  BY <1>1 DEF Activate
<1>2. ASSUME NEW p \in Requests, NEW days \in Nat,
             profile' = [profile EXCEPT !.ends = Extended(@, requests[p].now, days)]
      PROVE  /\ profile'.started = profile.started
             /\ profile'.ends \in Nat /\ profile'.ends >= profile.ends
  <2>1. profile'.started = profile.started
        /\ profile'.ends = Extended(profile.ends, requests[p].now, days)
    BY <1>2 DEF TypeOK, Profile
  <2>2. requests[p].now \in Nat
    BY DEF TypeOK, Request
  <2> QED BY <2>1, <2>2, <1>0 DEF Extended, Later
<1>3. ASSUME NEW p \in Requests, ClaimReward(p)
      PROVE  /\ profile'.started = profile.started
             /\ profile'.ends \in Nat /\ profile'.ends >= profile.ends
  <2>1. profile.ends # None /\ RewardDays \in Nat
    BY <1>0, TrialAssumption
  <2> QED BY <1>3, <1>2, <2>1 DEF ClaimReward
<1>4. ASSUME NEW p \in Requests, ExtendTrial(p)
      PROVE  /\ profile'.started = profile.started
             /\ profile'.ends \in Nat /\ profile'.ends >= profile.ends
  <2>1. PICK days \in 1..(MaxGranted - granted) :
          profile' = [profile EXCEPT !.ends = Extended(@, requests[p].now, days)]
    BY <1>4 DEF ExtendTrial
  <2>2. days \in Nat
    OBVIOUS
  <2> QED BY <2>1, <2>2, <1>2
<1>5. CASE ChangeState
  BY <1>5, <1>0 DEF ChangeState, TypeOK, Profile
<1>6. ASSUME NEW e \in Editors, SaveSettings(e) PROVE profile' = profile
  BY <1>6, HarmlessSave
<1>7. CASE profile' = profile
  BY <1>7, <1>0
<1>8. ASSUME NEW p \in Requests, RequestStep(p)
      PROVE  profile' = profile \/ ClaimReward(p) \/ ExtendTrial(p)
  BY <1>1, <1>8 DEF RequestStep, Load, ReadClock, CheckAccess, AllowFromCopy, GiveUp
<1>9. ASSUME NEW e \in Editors, OpenSettings(e) \/ SaveSettings(e)
      PROVE  profile' = profile
  BY <1>6, <1>9 DEF OpenSettings
<1>10. CASE Tick \/ UNCHANGED vars
  BY <1>7, <1>10 DEF Tick, vars
<1>11. CASE \E p \in Requests : RequestStep(p)
  BY <1>3, <1>4, <1>7, <1>8, <1>11, <1>0
<1>12. CASE \E e \in Editors : OpenSettings(e) \/ SaveSettings(e)
  BY <1>7, <1>9, <1>12
<1> QED
  BY <1>5, <1>10, <1>11, <1>12 DEF Next

LEMMA CopiesStep ==
    ASSUME TypeOK, Account, CopiesHold, ~clobbered, [Next]_vars, ~clobbered'
    PROVE  CopiesHold'
<1> DEFINE Sound(r) ==
      /\ (r.copy.started = None) <=> (r.copy.ends = None)
      /\ r.copy.started # None =>
           \/ r.stage = "idle"
           \/ profile.started = r.copy.started /\ profile.ends >= r.copy.ends
<1>1. SUFFICES ASSUME NEW q \in Requests PROVE Sound(requests[q])'
  BY DEF CopiesHold
<1>2. Sound(requests[q]) /\ requests[q] \in Request
  BY DEF CopiesHold, TypeOK
<1>3. CASE requests'[q] = requests[q]
  <2>1. CASE requests[q].copy.started = None \/ requests[q].stage = "idle"
    BY <1>2, <1>3, <2>1
  <2>2. CASE requests[q].copy.started # None /\ requests[q].stage # "idle"
    <3>1. profile.started = requests[q].copy.started
          /\ profile.ends >= requests[q].copy.ends /\ profile.started # None
          /\ requests[q].copy.ends \in Nat
      BY <1>2, <2>2, TrialAssumption DEF Request, Profile
    <3>2. profile'.started = profile.started /\ profile'.ends >= profile.ends
          /\ profile'.ends \in Nat /\ profile.ends \in Nat
      BY <3>1, Grows
    <3>3. profile'.ends >= requests[q].copy.ends
      BY <3>1, <3>2
    <3> QED BY <1>2, <1>3, <3>1, <3>2, <3>3
  <2> QED BY <2>1, <2>2
<1>4. CASE \E v : requests'[q] = Finished(v)
  BY <1>4 DEF Finished, Untried
<1>5. CASE \E kind : Load(q, kind)
  <2>1. requests'[q].copy = profile /\ profile' = profile
    BY <1>5 DEF Load, TypeOK
  <2>2. profile.started # None => profile.ends \in Nat
    BY TrialAssumption DEF TypeOK, Profile, Account
  <2> QED BY <2>1, <2>2 DEF Account
<1>6. CASE ReadClock(q)
  <2>1. requests'[q].copy = requests[q].copy /\ profile' = profile
        /\ requests[q].stage = "loaded"
    BY <1>6, <1>2 DEF ReadClock, TypeOK, Request
  <2> QED BY <1>2, <2>1
<1>7. ASSUME NEW p \in Requests, RequestStep(p) PROVE Sound(requests[q])'
  <2>1. CASE p # q
    <3>1. requests'[q] = requests[q]
      BY <1>7, <2>1
      DEF RequestStep, Load, ReadClock, CheckAccess, AllowFromCopy, Activate,
          ClaimReward, ExtendTrial, GiveUp, Finish, TypeOK
    <3> QED BY <3>1, <1>3
  <2>2. CASE p = q
    <3>1. ASSUME NEW v, Finish(q, v) PROVE requests'[q] = Finished(v)
      BY <3>1 DEF Finish, TypeOK
    <3>2. \/ \E kind : Load(q, kind)
          \/ ReadClock(q)
          \/ \E v : Finish(q, v)
      BY <1>7, <2>2
      DEF RequestStep, CheckAccess, AllowFromCopy, Activate, ClaimReward,
          ExtendTrial, GiveUp
    <3> QED BY <3>1, <3>2, <1>4, <1>5, <1>6
  <2> QED BY <2>1, <2>2
<1>8. CASE UNCHANGED requests
  BY <1>3, <1>8
<1> QED
  BY <1>7, <1>8 DEF Next, OpenSettings, SaveSettings, ChangeState, Tick, vars

-----------------------------------------------------------------------------
(* The verdicts.                                                           *)

LEMMA OwnFinish ==
    ASSUME TypeOK, NEW p \in Requests, NEW v, Finish(p, v)
    PROVE  requests'[p].verdict = v /\ requests'[p].stage = "idle"
  BY DEF Finish, Finished, TypeOK

LEMMA OthersKept ==
    ASSUME TypeOK, NEW p \in Requests, NEW q \in Requests, q # p, RequestStep(q)
    PROVE  requests'[p] = requests[p]
  BY DEF RequestStep, Load, ReadClock, CheckAccess, AllowFromCopy, Activate,
         ClaimReward, ExtendTrial, GiveUp, Finish, TypeOK

LEMMA NoOneElse ==
    ASSUME [Next]_vars, \A q \in Requests : ~RequestStep(q)
    PROVE  requests' = requests
  BY DEF Next, OpenSettings, SaveSettings, ChangeState, Tick, vars

LEMMA InitUndecided == Init => Undecided
  BY DEF Init, Undecided, Finished

LEMMA UndecidedStep ==
    ASSUME TypeOK, Undecided, [Next]_vars
    PROVE  Undecided'
<1> SUFFICES ASSUME NEW p \in Requests, requests'[p].stage # "idle"
             PROVE  requests'[p].verdict = "none"
  BY DEF Undecided
<1>1. requests[p] \in Request
  BY DEF TypeOK
<1>2. CASE requests'[p] = requests[p]
  BY <1>2 DEF Undecided
<1>3. CASE RequestStep(p)
  <2>1. CASE \E kind \in Kinds : Load(p, kind)
    BY <2>1 DEF Load, TypeOK
  <2>2. CASE ReadClock(p)
    BY <1>1, <2>2 DEF ReadClock, Undecided, TypeOK, Request
  <2> QED
    BY <1>3, <2>1, <2>2, OwnFinish
    DEF RequestStep, CheckAccess, AllowFromCopy, Activate, ClaimReward,
        ExtendTrial, GiveUp
<1>4. CASE \E q \in Requests : q # p /\ RequestStep(q)
  BY <1>2, <1>4, OthersKept
<1>5. CASE \A q \in Requests : ~RequestStep(q)
  BY <1>2, <1>5, NoOneElse
<1> QED
  BY <1>3, <1>4, <1>5

(* Only the step of a request itself decides it.                           *)
LEMMA Decided ==
    ASSUME TypeOK, Undecided, [Next]_vars, NEW p \in Requests,
           requests[p].stage = "timed", requests'[p].verdict # "none"
    PROVE  CheckAccess(p) \/ AllowFromCopy(p) \/ Activate(p)
<1>1. requests[p].verdict = "none"
  BY DEF Undecided
<1>2. RequestStep(p)
  BY <1>1, OthersKept, NoOneElse
<1>3. ~ReadClock(p) /\ \A kind \in Kinds : ~Load(p, kind)
  BY DEF ReadClock, Load
<1>4. ~ClaimReward(p) /\ ~ExtendTrial(p) /\ ~GiveUp(p)
  BY OwnFinish DEF ClaimReward, ExtendTrial, GiveUp
<1> QED
  BY <1>2, <1>3, <1>4 DEF RequestStep

(* A request that asked the locked profile is refused only after every day *)
(* owed is over.                                                           *)
LEMMA Refusal ==
    ASSUME TypeOK, Account, Undecided, [Next]_vars, NEW p \in Requests,
           At(p, "timed", "api"), requests'[p].verdict = "refused"
    PROVE  requests[p].now > profile.started + DaysOwed
<1>1. Activate(p)
  <2>1. ~CheckAccess(p)
    BY DEF CheckAccess, At
  <2>2. ~AllowFromCopy(p)
    BY OwnFinish DEF AllowFromCopy
  <2> QED BY <2>1, <2>2, Decided DEF At
<1>2. profile.started # None /\ ~Unexpired(profile, requests[p].now)
  BY <1>1, OwnFinish DEF Activate, Unexpired
<1>3. requests[p].now \in Nat /\ profile.started \in Nat /\ profile.ends \in Nat
  BY <1>2 DEF TypeOK, Request, Profile, Account
<1>4. DaysOwed \in Nat
  <2>1. RewardDays * Cardinality(Claimed) \in Nat
    <3> HIDE DEF Claimed
    <3> QED BY SetsFinite, MoreDays, TrialAssumption
  <2>2. granted \in Nat
    BY DEF TypeOK
  <2> HIDE DEF Claimed
  <2>3. DaysOwed = Duration + granted + RewardDays * Cardinality(Claimed)
    BY DEF DaysOwed, Claimed
  <2> QED BY <2>1, <2>2, <2>3, TrialAssumption
<1>5. profile.ends >= profile.started + DaysOwed
  BY <1>2 DEF Account, RewardsEarned
<1>6. requests[p].now > profile.ends
  BY <1>2, <1>3 DEF Unexpired
<1> QED
  BY <1>3, <1>4, <1>5, <1>6

(* A request allowed because of a copy is still within the trial.          *)
LEMMA Allowance ==
    ASSUME TypeOK, Account, CopiesHold, ~clobbered, Undecided, [Next]_vars,
           NEW p \in Requests,
           requests[p].stage = "timed", requests'[p].verdict = "allowed"
    PROVE  \/ requests[p].copy.subscribed \/ profile.subscribed
           \/ requests[p].kind = "check" /\ requests[p].copy.started = None
           \/ profile'.started # None /\ requests[p].now <= profile'.ends
<1>1. /\ requests[p].now \in Nat /\ profile \in Profile
      /\ requests[p].copy \in Profile /\ requests[p].stage # "idle"
  BY DEF TypeOK, Request
<1>2. CASE CheckAccess(p) \/ AllowFromCopy(p)
  <2>1. Unexpired(requests[p].copy, requests[p].now) /\ profile' = profile
    BY <1>2, OwnFinish DEF CheckAccess, AllowFromCopy
  <2>2. CASE requests[p].copy.started = None
    BY <1>2, <2>2 DEF CheckAccess, AllowFromCopy, At
  <2>3. CASE requests[p].copy.started # None /\ ~requests[p].copy.subscribed
    <3>1. requests[p].now <= requests[p].copy.ends
      BY <2>1, <2>3 DEF Unexpired
    <3>2. profile.started = requests[p].copy.started
          /\ profile.ends >= requests[p].copy.ends
          /\ requests[p].copy.ends # None
      BY <1>1, <2>3 DEF CopiesHold
    <3>3. profile.ends \in Nat /\ requests[p].copy.ends \in Nat
      BY <1>1, <2>3, <3>2 DEF Account, Profile
    <3> QED BY <1>1, <2>1, <2>3, <3>1, <3>2, <3>3
  <2> QED BY <2>2, <2>3
<1>3. CASE Activate(p) /\ (profile.subscribed \/ profile.started # None)
  BY <1>1, <1>3, OwnFinish DEF Activate, Unexpired
<1>4. CASE Activate(p) /\ ~(profile.subscribed \/ profile.started # None)
  <2> DEFINE n == Cardinality(InStatus("pending"))
  <2>1. n \in Nat /\ RewardDays * n \in Nat
    BY SetsFinite, MoreDays, TrialAssumption
  <2>2. profile'.started = requests[p].now
        /\ profile'.ends = requests[p].now + Duration + RewardDays * n
    BY <1>1, <1>4 DEF Activate, Profile
  <2> HIDE DEF n
  <2> QED BY <1>1, <2>1, <2>2, TrialAssumption
<1> QED
  BY <1>2, <1>3, <1>4, Decided

-----------------------------------------------------------------------------
(* The days added.                                                         *)

LEMMA InitPast == Init => Past
  BY DEF Init, Past, Finished

LEMMA PastStep ==
    ASSUME TypeOK, Past, [Next]_vars
    PROVE  Past'
<1> SUFFICES ASSUME NEW p \in Requests PROVE requests'[p].now <= clock'
  BY DEF Past
<1>1. /\ clock \in Nat /\ clock' \in Nat /\ clock' >= clock
      /\ requests[p] \in Request /\ requests[p].now \in Nat
      /\ requests[p].now <= clock
  <2>1. clock' = clock \/ clock' = clock + 1
    BY DEF Next, RequestStep, Load, ReadClock, CheckAccess, AllowFromCopy, Activate,
           ClaimReward, ExtendTrial, GiveUp, OpenSettings, SaveSettings, ChangeState,
           Tick, vars
  <2> QED BY <2>1 DEF TypeOK, Request, Past
<1>2. CASE requests'[p] = requests[p]
  BY <1>1, <1>2
<1>3. CASE RequestStep(p)
  <2>1. ASSUME NEW v, Finish(p, v) PROVE requests'[p].now = 0
    BY <2>1 DEF Finish, Finished, TypeOK
  <2>2. CASE \E kind \in Kinds : Load(p, kind)
    BY <1>1, <2>2 DEF Load, TypeOK
  <2>3. CASE ReadClock(p)
    BY <1>1, <2>3 DEF ReadClock, TypeOK, Request
  <2> QED
    BY <1>1, <1>3, <2>1, <2>2, <2>3
    DEF RequestStep, CheckAccess, AllowFromCopy, Activate, ClaimReward,
        ExtendTrial, GiveUp
<1>4. CASE \E q \in Requests : q # p /\ RequestStep(q)
  BY <1>2, <1>4, OthersKept
<1>5. CASE \A q \in Requests : ~RequestStep(q)
  BY <1>2, <1>5, NoOneElse
<1> QED
  BY <1>3, <1>4, <1>5

NewlyClaimed == InStatus("unclaimed") \ InStatus("unclaimed")'

(* No step moves the end date by more than it paid for.                    *)
LEMMA AddedOnce ==
    ASSUME TypeOK, TypeOK', Account, Past, [Next]_vars, ~clobbered',
           profile.started # None
    PROVE  profile'.ends <= Later(profile.ends, clock) + (granted' - granted)
                            + RewardDays * Cardinality(NewlyClaimed)
<1>1. /\ profile.ends \in Nat /\ clock \in Nat /\ granted \in Nat /\ granted' \in Nat
      /\ RewardDays \in Nat
  BY TrialAssumption DEF TypeOK, Profile, Account
<1>2. Cardinality(NewlyClaimed) \in Nat
  <2>1. NewlyClaimed \subseteq Rewards /\ IsFiniteSet(Rewards)
    BY TrialAssumption DEF NewlyClaimed, InStatus
  <2> QED BY <2>1, FS_Subset, FS_CardinalityType
<1>3. RewardDays * Cardinality(NewlyClaimed) \in Nat
  BY <1>1, <1>2, MoreDays
<1>4. CASE profile'.ends = profile.ends /\ granted' = granted
  BY <1>1, <1>3, <1>4 DEF Later
<1>5. ASSUME NEW p \in Requests, ClaimReward(p)
      PROVE  profile'.ends <= Later(profile.ends, clock) + (granted' - granted)
                              + RewardDays * Cardinality(NewlyClaimed)
  <2>1. requests[p].now \in Nat /\ requests[p].now <= clock
    BY DEF Past, TypeOK, Request
  <2>2. profile.ends # None
    BY <1>1, TrialAssumption
  <2>3. PICK c \in InStatus("unclaimed") :
          /\ claims' = [claims EXCEPT ![c] = "applied"]
          /\ profile' = [profile EXCEPT
                !.ends = Extended(@, requests[p].now, RewardDays)]
    BY <1>5, <2>2 DEF ClaimReward
  <2>4. NewlyClaimed = {c}
    BY <2>3 DEF NewlyClaimed, InStatus, TypeOK
  <2>5. RewardDays * Cardinality(NewlyClaimed) = RewardDays
    <3>1. Cardinality({c}) = 1
      BY FS_Singleton
    <3>2. Cardinality(NewlyClaimed) = 1
      BY <2>4, <3>1
    <3> QED BY <1>1, <3>2
  <2>6. profile'.ends = Extended(profile.ends, requests[p].now, RewardDays)
    BY <2>3 DEF TypeOK, Profile
  <2>7. granted' = granted
    BY <1>5 DEF ClaimReward
  <2> QED BY <1>1, <2>1, <2>5, <2>6, <2>7 DEF Extended, Later
<1>6. ASSUME NEW p \in Requests, ExtendTrial(p)
      PROVE  profile'.ends <= Later(profile.ends, clock) + (granted' - granted)
                              + RewardDays * Cardinality(NewlyClaimed)
  <2>1. requests[p].now \in Nat /\ requests[p].now <= clock
    BY DEF Past, TypeOK, Request
  <2>2. PICK days \in 1..(MaxGranted - granted) :
          /\ profile' = [profile EXCEPT !.ends = Extended(@, requests[p].now, days)]
          /\ granted' = granted + days
    BY <1>6 DEF ExtendTrial
  <2>3. profile'.ends = Extended(profile.ends, requests[p].now, days)
    BY <2>2 DEF TypeOK, Profile
  <2> QED BY <1>1, <1>3, <2>1, <2>2, <2>3 DEF Extended, Later
<1>7. ASSUME NEW p \in Requests, RequestStep(p), ~ClaimReward(p), ~ExtendTrial(p)
      PROVE  profile'.ends = profile.ends /\ granted' = granted
  BY <1>7 DEF RequestStep, Load, ReadClock, CheckAccess, AllowFromCopy, Activate, GiveUp
<1>8. ASSUME NEW e \in Editors, OpenSettings(e) \/ SaveSettings(e)
      PROVE  profile'.ends = profile.ends /\ granted' = granted
  BY <1>8, HarmlessSave DEF OpenSettings
<1>9. CASE ChangeState \/ Tick \/ UNCHANGED vars
  BY <1>4, <1>9 DEF ChangeState, Tick, vars, TypeOK, Profile
<1>10. CASE \E p \in Requests : RequestStep(p)
  BY <1>4, <1>5, <1>6, <1>7, <1>10
<1>11. CASE \E e \in Editors : OpenSettings(e) \/ SaveSettings(e)
  BY <1>4, <1>8, <1>11
<1> QED
  BY <1>9, <1>10, <1>11 DEF Next

-----------------------------------------------------------------------------
(* The theorems.                                                           *)

LEMMA InitInv == Init => IInv
  BY InitType, InitAccount, InitUndecided, InitPast, AccountMeans DEF IInv

LEMMA StepInv == IInv /\ [Next]_vars => IInv'
<1> SUFFICES ASSUME IInv, [Next]_vars PROVE IInv'
  OBVIOUS
<1>1. TypeOK' /\ Undecided' /\ Past'
  BY TypeStep, UndecidedStep, PastStep DEF IInv
<1>2. CASE clobbered'
  BY <1>1, <1>2 DEF IInv, EveryRewardCounted, CopiesHold
<1>3. CASE ~clobbered'
  <2>1. ~clobbered /\ Account
    BY <1>3, ClobberedStays, AccountMeans DEF IInv
  <2>2. Account' /\ CopiesHold'
    BY <1>3, <2>1, AccountStep, CopiesStep DEF IInv
  <2> QED BY <1>1, <2>2, AccountMeans DEF IInv, EveryRewardCounted, Account
<1> QED
  BY <1>2, <1>3

LEMMA Invariance == Spec => []IInv
  BY InitInv, StepInv, PTL DEF Spec

(* core/trials.py: every reward and every granted day is in the end date,  *)
(* unless a stale settings form was saved.                                 *)
THEOREM RewardsCounted == Spec => []EveryRewardCounted
<1>1. IInv => EveryRewardCounted
  BY DEF IInv
<1> QED BY <1>1, Invariance, PTL

(* A trial starts once, and its end date never comes nearer.               *)
THEOREM NeverShrinks == Spec => TrialNeverShrinks
<1>1. IInv /\ [Next]_vars =>
        [~clobbered' /\ profile.started # None =>
            /\ profile'.started = profile.started
            /\ profile'.ends >= profile.ends]_vars
  BY Grows, ClobberedStays, AccountMeans DEF IInv
<1> QED BY <1>1, Invariance, PTL DEF Spec, TrialNeverShrinks

(* Each claimed reward and each granted day moves the end date once.       *)
THEOREM AddsDaysOnce == Spec => DaysAddedOnce
<1>1. IInv /\ [Next]_vars =>
        [~clobbered' /\ profile.started # None =>
            profile'.ends <= Later(profile.ends, clock) + (granted' - granted)
              + RewardDays * Cardinality(InStatus("unclaimed") \ InStatus("unclaimed")')]_vars
  BY AddedOnce, TypeStep, ClobberedStays, AccountMeans DEF IInv, NewlyClaimed
<1> QED BY <1>1, Invariance, PTL DEF Spec, DaysAddedOnce

(* activate_or_require_trial_access refuses only after the whole trial.    *)
THEOREM RefusedAfterTrial == Spec => RefusedOnlyAfterTrial
<1>1. IInv /\ [Next]_vars =>
        [\A p \in Requests :
           /\ At(p, "timed", "api") /\ requests'[p].verdict = "refused"
           /\ ~clobbered
           => requests[p].now > profile.started + DaysOwed]_vars
  BY Refusal, AccountMeans DEF IInv
<1> QED BY <1>1, Invariance, PTL DEF Spec, RefusedOnlyAfterTrial

(* No request is allowed by a copy of the profile that the profile no      *)
(* longer bears out.                                                       *)
THEOREM AllowedInTrial == Spec => AllowedWithinTrial
<1>1. IInv /\ [Next]_vars =>
        [\A p \in Requests :
           LET r == requests[p]
           IN  r.stage = "timed" /\ requests'[p].verdict = "allowed" /\ ~clobbered =>
                 \/ r.copy.subscribed \/ profile.subscribed
                 \/ r.kind = "check" /\ r.copy.started = None
                 \/ profile'.started # None /\ r.now <= profile'.ends]_vars
  BY Allowance, AccountMeans DEF IInv
<1> QED BY <1>1, Invariance, PTL DEF Spec, AllowedWithinTrial

-----------------------------------------------------------------------------
(* Who is let in (module Access): requests with an agent key, for which    *)
(* the trial above is where the clock is in its dates, and the visitors of *)
(* a public preview, for any number of keys, clients, passwords and        *)
(* changes of password.                                                    *)
(*                                                                         *)
(* Every endpoint, tool and page asks for what its service needs.  So a    *)
(* client's turn either asks something it may ask, or is judged by what    *)
(* holds now or held when it was read; and what then held was counted      *)
(* then.  TrialDue says it of the key and the profile: past its key a      *)
(* client is among the keyed, its copy of the profile puts it among the    *)
(* entitled or, once it has run out, among the others, and a request that  *)
(* waits for the lock is late only while the trial stays ended.            *)
(* LookedDue says of the session that whatever it remembers by the time a  *)
(* page is judged, the client was counted among the entitled if it is what *)
(* the page asks for, and among the others if it is not.                   *)

(* What an endpoint, a tool or a page asks of its client is what its       *)
(* service needs, and a public page only reads.                            *)
Honest(e) ==
    /\ e.surface \in {"rest", "mcp", "page", "unlocking_page", "public_api", "session"}
    /\ e.surface \in {"rest", "mcp"} =>
         e.level = Need(Does(e.service)) /\ e.listed = Need(Does(e.service))
    /\ e.surface \in {"page", "unlocking_page", "public_api"} => Does(e.service) = "read"

HonestTable(table) == \A e \in DOMAIN table : Honest(table[e])

LEMMA RestHonest == \A e \in Rest : Honest(e)
<1> USE DEF HonestTable, Honest, Entry, ReadKey, WriteKey, AdminKey,
          Signed, Public, Does, Need, ReadingServices
<1>1. HonestTable(RestAccount) BY DEF RestAccount
<1>2. HonestTable(RestKeys) BY DEF RestKeys
<1>3. HonestTable(RestProjects) BY DEF RestProjects
<1>4. HonestTable(RestSections) BY DEF RestSections
<1>5. HonestTable(RestDatasets) BY DEF RestDatasets
<1>6. HonestTable(RestPublic) BY DEF RestPublic
<1>7. HonestTable(RestDataset) BY DEF RestDataset
<1>8. HonestTable(RestColumns) BY DEF RestColumns
<1>9. HonestTable(RestRelationships) BY DEF RestRelationships
<1>10. HonestTable(RestRowLists) BY DEF RestRowLists
<1>11. HonestTable(RestAssets) BY DEF RestAssets
<1>12. HonestTable(RestRow) BY DEF RestRow
<1>13. HonestTable(RestExports) BY DEF RestExports
<1> HIDE DEF Honest, Entry, ReadKey, WriteKey, AdminKey,
           Signed, Public, Does, Need, ReadingServices
<1> QED
  BY <1>1, <1>2, <1>3, <1>4, <1>5, <1>6, <1>7, <1>8, <1>9, <1>10, <1>11,
     <1>12, <1>13 DEF Rest, Entries

LEMMA McpHonest == \A e \in Mcp : Honest(e)
<1> USE DEF HonestTable, Honest, Entry, ReadTool, WriteTool, AdminTool,
          Does, Need, ReadingServices
<1>1. HonestTable(McpAccount) BY DEF McpAccount
<1>2. HonestTable(McpHelp) BY DEF McpHelp
<1>3. HonestTable(McpDatasets) BY DEF McpDatasets
<1>4. HonestTable(McpProjects) BY DEF McpProjects
<1>5. HonestTable(McpProject) BY DEF McpProject
<1>6. HonestTable(McpSections) BY DEF McpSections
<1>7. HonestTable(McpCreateDataset) BY DEF McpCreateDataset
<1>8. HonestTable(McpSettings) BY DEF McpSettings
<1>9. HonestTable(McpColumns) BY DEF McpColumns
<1>10. HonestTable(McpRelationships) BY DEF McpRelationships
<1>11. HonestTable(McpDataset) BY DEF McpDataset
<1>12. HonestTable(McpRowLists) BY DEF McpRowLists
<1>13. HonestTable(McpRows) BY DEF McpRows
<1>14. HonestTable(McpAssets) BY DEF McpAssets
<1>15. HonestTable(McpRow) BY DEF McpRow
<1> HIDE DEF Honest, Entry, ReadTool, WriteTool, AdminTool,
          Does, Need, ReadingServices
<1> QED
  BY <1>1, <1>2, <1>3, <1>4, <1>5, <1>6, <1>7, <1>8, <1>9, <1>10, <1>11,
     <1>12, <1>13, <1>14, <1>15 DEF Mcp, Entries

LEMMA PagesHonest == \A e \in Pages : Honest(e)
<1> USE DEF HonestTable, Honest, Entry, Signed, Unlocked, Unlocking,
          Does, Need, ReadingServices
<1>1. HonestTable(RowViews) BY DEF RowViews
<1>2. HonestTable(ProjectViews) BY DEF ProjectViews
<1>3. HonestTable(DatasetViews) BY DEF DatasetViews
<1>4. HonestTable(ColumnViews) BY DEF ColumnViews
<1>5. HonestTable(ArchiveViews) BY DEF ArchiveViews
<1>6. HonestTable(KeyViews) BY DEF KeyViews
<1>7. HonestTable(PreviewPage) BY DEF PreviewPage
<1>8. HonestTable(PreviewPages) BY DEF PreviewPages
<1> HIDE DEF Honest, Entry, Signed, Unlocked, Unlocking,
          Does, Need, ReadingServices
<1> QED
  BY <1>1, <1>2, <1>3, <1>4, <1>5, <1>6, <1>7, <1>8 DEF Pages,
     Entries

LEMMA OfferedHonest == \A e \in Offered : Honest(e)
  BY RestHonest, McpHonest, PagesHonest DEF Offered
-----------------------------------------------------------------------------
(* What a request holds, and what a client that waits asked for.           *)
PageSurfaces == {"page", "unlocking_page"}

IsAsk(r) ==
    /\ r = [surface |-> r.surface, listed |-> r.listed, level |-> r.level, starts |-> r.starts,
            does |-> r.does, key |-> r.key, shown |-> r.shown, seen |-> r.seen, stage |-> r.stage]
    /\ r.key \in Keys \cup {Nothing} /\ r.shown \in Passwords \cup {Nothing}
    /\ r.seen \in Hashes \cup {Nothing} /\ r.stage \in Stages

Asked ==
    /\ request = [c \in Clients |-> request[c]]
    /\ \A c \in Clients : IsAsk(request[c])

OfKey(r) ==
    /\ r.surface \in {"rest", "mcp"} /\ r.key \in Keys
    /\ r.level = Need(r.does) /\ r.listed = Need(r.does)

OfVisitor(r) == r.surface \in {"public_api"} \cup PageSurfaces /\ r.does = "read"

AsOffered ==
    \A c \in Clients : Waiting(c) =>
        /\ OfKey(request[c]) \/ OfVisitor(request[c])
        /\ request[c].stage = "looked" => request[c].surface \in PageSurfaces
        /\ request[c].seen # Nothing => request[c].seen.salt <= salts

SameAsk(r, s) ==
    /\ r.surface = s.surface /\ r.listed = s.listed /\ r.level = s.level
    /\ r.does = s.does /\ r.key = s.key /\ r.shown = s.shown

Untouched(c) == \A d \in Clients : d # c => request'[d] = request[d]

LEMMA DoesType ==
    ASSUME NEW s
    PROVE  Does(s) \in {"make_key", "share", "archive", "restore", "delete", "read", "change"}
  BY DEF Does

LEMMA NoneIsNothing ==
    /\ Nothing \notin Keys /\ Nothing \notin Names /\ Nothing \notin Passwords
    /\ Nothing \notin Hashes
  BY AccessAssumption DEF Hashes

LEMMA OfferedToClients ==
    /\ \A e \in WithKey : Honest(e) /\ e.surface \in {"rest", "mcp"}
    /\ \A e \in WithoutKey :
         Honest(e) /\ e.surface \in {"page", "unlocking_page", "public_api"}
  BY OfferedHonest DEF WithKey, WithoutKey, ForOwner, Honest

LEMMA IdleAsks ==
    ASSUME NEW stage \in Stages
    PROVE  IsAsk(Idle) /\ IsAsk([Idle EXCEPT !.stage = stage])
<1>1. PICK f : f = FALSE OBVIOUS
<1>2. Idle = [surface |-> "none", listed |-> "none", level |-> "none", starts |-> f,
                  does |-> "none", key |-> Nothing, shown |-> Nothing, seen |-> Nothing, stage |-> "idle"]
  BY <1>1, Zenon DEF Idle
<1>3. "idle" \in Stages BY DEF Stages
<1> QED BY <1>2, <1>3 DEF IsAsk

LEMMA Advanced ==
    ASSUME Asked, NEW c \in Clients, NEW stage \in Stages, Advance(c, stage)
    PROVE  /\ Asked' /\ Untouched(c)
           /\ request'[c].stage = stage /\ SameAsk(request'[c], request[c])
           /\ request'[c].seen = request[c].seen
<1>1. IsAsk(request[c]) BY DEF Asked
<1>2. request' = [request EXCEPT ![c] = [request[c] EXCEPT !.stage = stage]]
  BY DEF Advance
<1>3. IsAsk([request[c] EXCEPT !.stage = stage]) BY <1>1 DEF IsAsk
<1>4. Asked' /\ Untouched(c) BY <1>2, <1>3 DEF Asked, Untouched
<1>5. request'[c] = [request[c] EXCEPT !.stage = stage] BY <1>2 DEF Asked
<1> QED BY <1>1, <1>4, <1>5 DEF IsAsk, SameAsk

LEMMA Ended ==
    ASSUME Asked, NEW c \in Clients, NEW stage \in Stages, Close(c, stage)
    PROVE  Asked' /\ Untouched(c) /\ request'[c].stage = stage
<1>1. request' = [request EXCEPT ![c] = [Idle EXCEPT !.stage = stage]]
  BY DEF Close
<1>2. Asked' /\ Untouched(c) /\ request'[c] = [Idle EXCEPT !.stage = stage]
  BY <1>1, IdleAsks DEF Asked, Untouched
<1> QED BY <1>2 DEF Idle

-----------------------------------------------------------------------------
(* What a step can mean to the client that takes it.                       *)
Sends(c) ==
    /\ ~Waiting(c) /\ request'[c].stage = "sent" /\ request'[c].seen = Nothing
    /\ OfKey(request'[c]) \/ OfVisitor(request'[c])

Proceeds(c) ==
    /\ OnKey(request[c])
    /\ request[c].stage \in {"sent", "verified", "loaded", "resolved"}
    /\ request'[c].stage \in {"verified", "loaded", "resolved", "locking"}
    /\ SameAsk(request'[c], request[c]) /\ request'[c].seen = request[c].seen

Welcome(r) ==
    \/ Entitled(r, {proved})
    \/ r.stage = "looked" /\ r.seen = Nothing
    \/ r.stage = "looked" /\ r.shown = Nothing /\ r.seen # Nothing /\ r.seen = session

Unwelcome(r) ==
    \/ ~Entitled(r, {proved})
    \/ r.stage = "looked" /\ r.shown # Nothing /\ r.seen # Nothing /\ r.shown # r.seen.password
    \/ r.stage = "looked" /\ r.shown = Nothing /\ r.seen # Nothing /\ r.seen # session

Enters(c) ==
    /\ Waiting(c) /\ request'[c].stage = "let_in"
    /\ Welcome(request[c]) \/ c \in entitled
    /\ SameAsk(request'[c], request[c]) /\ request'[c].seen = request[c].seen

Looks(c) ==
    /\ request[c].stage = "sent" /\ request[c].surface \in PageSurfaces
    /\ preview.state = "active" /\ preview.public
    /\ request'[c].stage = "looked" /\ request'[c].seen = preview.hash
    /\ SameAsk(request'[c], request[c])

Ends(c) ==
    /\ Waiting(c) /\ request'[c].stage \in {"idle", "answered", "refused"}
    /\ request'[c].stage = "answered" => request[c].stage = "let_in"
    /\ request'[c].stage = "refused" => Unwelcome(request[c]) \/ c \in unentitled

Recalls(c) ==
    /\ Unlocks(request[c]) /\ request[c].surface = "unlocking_page"
    /\ session' = request[c].seen /\ proved' = request[c].seen
    /\ preview' = preview

Recollection == session' = session /\ proved' = proved

Turn(c) ==
    /\ Asked' /\ Untouched(c)
    /\ \/ /\ Sends(c) \/ Proceeds(c) \/ Enters(c) \/ Looks(c)
          /\ preview' = preview /\ salts' = salts /\ Recollection
       \/ /\ Ends(c)
          /\ Recollection \/ Recalls(c)

Counted ==
    \A c \in Clients : Waiting(c) =>
        /\ Entitled(request[c], Shown) => c \in entitled
        /\ ~Entitled(request[c], {proved}) => c \in unentitled
        /\ OnKey(request[c]) /\ KeyRight(request[c]) => c \in keyed
        /\ c \in keyed /\ TrialStatus # "expired" => c \in entitled

(* What a request has read of its key and its profile.                     *)
ReadDue(c) ==
    LET r == request[c]
    IN  /\ r.stage \in {"verified", "loaded", "resolved", "locking"} => OfKey(r) /\ c \in keyed
        /\ r.stage \in {"loaded", "resolved"} =>
             IF copy[c] = "expired" THEN c \in unentitled ELSE c \in entitled
        /\ r.stage = "locking" =>
             IF c \in late THEN trial.dates = "expired" ELSE c \in entitled

TrialDue == \A c \in Clients : ReadDue(c)

LEMMA SendTurn ==
    ASSUME AccessAssumption, Asked, NEW c \in Clients, Send(c)
    PROVE  Turn(c)
<1>1. PICK e \in Offered, k \in Keys \cup {Nothing}, p \in Passwords \cup {Nothing} :
         /\ request' = [request EXCEPT ![c] = Sent(e, k, p)]
         /\ \/ Honest(e) /\ e.surface \in {"rest", "mcp"} /\ k \in Keys
            \/ Honest(e) /\ e.surface \in {"page", "unlocking_page", "public_api"}
  BY OfferedToClients DEF Send, WithKey, WithoutKey
<1>2. DEFINE sent == Sent(e, k, p)
<1>3. IsAsk(sent) /\ sent.stage = "sent" /\ sent.seen = Nothing
  BY DEF IsAsk, Sent, Stages
<1>4. OfKey(sent) \/ OfVisitor(sent)
  BY <1>1 DEF OfKey, OfVisitor, Sent, Honest, PageSurfaces
<1>5. ~Waiting(c) /\ preview' = preview /\ salts' = salts /\ Recollection
  BY DEF Send, Recollection
<1> HIDE DEF sent
<1>6. request' = [request EXCEPT ![c] = sent] BY <1>1 DEF sent
<1>7. Asked' /\ Untouched(c) /\ request'[c] = sent
  BY <1>3, <1>6 DEF Asked, Untouched
<1> QED BY <1>3, <1>4, <1>5, <1>7 DEF Turn, Sends

LEMMA KeyAccepted ==
    ASSUME AccessAssumption, NEW r, OfKey(r), NEW level, level = Need(r.does)
    PROVE  OnKey(r) /\ (Accepts(r, level) <=> KeyRight(r))
  BY NoneIsNothing DEF Accepts, KeyRight, Resolves, OfKey, OnKey

LEMMA Proceeding ==
    ASSUME Asked, NEW c \in Clients, NEW stage \in {"verified", "loaded", "resolved", "locking"},
           request[c].stage \in {"sent", "verified", "loaded", "resolved"},
           OnKey(request[c]), Advance(c, stage),
           preview' = preview, salts' = salts, Recollection
    PROVE  Turn(c)
<1>1. stage \in Stages BY DEF Stages
<1>2. /\ Asked' /\ Untouched(c)
      /\ request'[c].stage = stage /\ SameAsk(request'[c], request[c])
      /\ request'[c].seen = request[c].seen
  BY <1>1, Advanced
<1> QED BY <1>2 DEF Turn, Proceeds

LEMMA Entering ==
    ASSUME Asked, NEW c \in Clients, Waiting(c), Advance(c, "let_in"),
           Welcome(request[c]) \/ c \in entitled,
           preview' = preview, salts' = salts, Recollection
    PROVE  Turn(c)
<1>1. "let_in" \in Stages BY DEF Stages
<1>2. /\ Asked' /\ Untouched(c)
      /\ request'[c].stage = "let_in" /\ SameAsk(request'[c], request[c])
      /\ request'[c].seen = request[c].seen
  BY <1>1, Advanced
<1> QED BY <1>2 DEF Turn, Enters

LEMMA Refusing ==
    ASSUME Asked, NEW c \in Clients, Waiting(c), Refuse(c),
           Unwelcome(request[c]) \/ c \in unentitled, Recollection
    PROVE  Turn(c)
<1>1. "refused" \in Stages /\ Close(c, "refused") BY DEF Stages, Refuse
<1>2. Asked' /\ Untouched(c) /\ request'[c].stage = "refused" BY <1>1, Ended
<1> QED BY <1>2 DEF Turn, Ends

LEMMA RestTurn ==
    ASSUME AccessAssumption, Asked, AsOffered, NEW c \in Clients, RestAuthenticate(c)
    PROVE  Turn(c)
<1>1. /\ request[c].surface = "rest" /\ request[c].stage = "sent" /\ Waiting(c)
      /\ preview' = preview /\ salts' = salts /\ Recollection
  BY DEF RestAuthenticate, Waiting, Recollection
<1>2. OfKey(request[c]) BY <1>1 DEF AsOffered, OfVisitor, PageSurfaces
<1>3. OnKey(request[c]) /\ (Accepts(request[c], request[c].level) <=> KeyRight(request[c]))
  BY <1>2, KeyAccepted DEF OfKey
<1>4. CASE Accepts(request[c], request[c].level)
  <2>1. Advance(c, "resolved") BY <1>4 DEF RestAuthenticate
  <2> QED BY <1>1, <1>3, <2>1, Proceeding
<1>5. CASE ~Accepts(request[c], request[c].level)
  <2>1. Refuse(c) BY <1>5 DEF RestAuthenticate
  <2>2. Unwelcome(request[c]) BY <1>3, <1>5 DEF Unwelcome, Entitled, KeyEntitled
  <2> QED BY <1>1, <2>1, <2>2, Refusing
<1> QED BY <1>4, <1>5

LEMMA VerifyTurn ==
    ASSUME AccessAssumption, Asked, AsOffered, NEW c \in Clients, McpVerifyToken(c)
    PROVE  Turn(c)
<1>1. /\ request[c].surface = "mcp" /\ request[c].stage = "sent" /\ Waiting(c)
      /\ preview' = preview /\ salts' = salts /\ Recollection
  BY DEF McpVerifyToken, Waiting, Recollection
<1>2. OfKey(request[c]) BY <1>1 DEF AsOffered, OfVisitor, PageSurfaces
<1>3. OnKey(request[c]) /\ (Accepts(request[c], request[c].listed) <=> KeyRight(request[c]))
  BY <1>2, KeyAccepted DEF OfKey
<1>4. CASE Accepts(request[c], request[c].listed)
  <2>1. Advance(c, "verified") BY <1>4 DEF McpVerifyToken
  <2> QED BY <1>1, <1>3, <2>1, Proceeding
<1>5. CASE ~Accepts(request[c], request[c].listed)
  <2>1. Refuse(c) BY <1>5 DEF McpVerifyToken
  <2>2. Unwelcome(request[c]) BY <1>3, <1>5 DEF Unwelcome, Entitled, KeyEntitled
  <2> QED BY <1>1, <2>1, <2>2, Refusing
<1> QED BY <1>4, <1>5

LEMMA LoadTurn ==
    ASSUME Asked, TrialDue, NEW c \in Clients, McpLoadProfile(c)
    PROVE  Turn(c)
<1>1. /\ request[c].stage = "verified" /\ Advance(c, "loaded")
      /\ preview' = preview /\ salts' = salts /\ Recollection
  BY DEF McpLoadProfile, Recollection
<1>2. OnKey(request[c]) BY <1>1 DEF TrialDue, ReadDue, OfKey, OnKey
<1> QED BY <1>1, <1>2, Proceeding

LEMMA McpTurn ==
    ASSUME AccessAssumption, Asked, TrialDue, NEW c \in Clients, McpAuthenticate(c)
    PROVE  Turn(c)
<1>1. /\ request[c].stage = "loaded" /\ Waiting(c)
      /\ preview' = preview /\ salts' = salts /\ Recollection
  BY DEF McpAuthenticate, Waiting, Recollection
<1>2. OfKey(request[c]) BY <1>1 DEF TrialDue, ReadDue
<1>3. OnKey(request[c]) /\ (Accepts(request[c], request[c].level) <=> KeyRight(request[c]))
  BY <1>2, KeyAccepted DEF OfKey
<1>4. CASE Accepts(request[c], request[c].level)
  <2>1. Advance(c, "resolved") BY <1>4 DEF McpAuthenticate
  <2> QED BY <1>1, <1>3, <2>1, Proceeding
<1>5. CASE ~Accepts(request[c], request[c].level)
  <2>1. Refuse(c) BY <1>5 DEF McpAuthenticate
  <2>2. Unwelcome(request[c]) BY <1>3, <1>5 DEF Unwelcome, Entitled, KeyEntitled
  <2> QED BY <1>1, <2>1, <2>2, Refusing
<1> QED BY <1>4, <1>5

LEMMA JudgeTurn ==
    ASSUME Asked, TrialDue, NEW c \in Clients, JudgeTrial(c)
    PROVE  Turn(c)
<1>1. /\ request[c].stage = "resolved" /\ Waiting(c)
      /\ preview' = preview /\ salts' = salts /\ Recollection
  BY DEF JudgeTrial, Waiting, Recollection
<1>2. /\ OnKey(request[c])
      /\ IF copy[c] = "expired" THEN c \in unentitled ELSE c \in entitled
  BY <1>1 DEF TrialDue, ReadDue, OfKey, OnKey
<1>3. \/ copy[c] # "expired" /\ Advance(c, "let_in")
      \/ Advance(c, "locking")
      \/ copy[c] = "expired" /\ Refuse(c)
  BY DEF JudgeTrial
<1> QED BY <1>1, <1>2, <1>3, Entering, Proceeding, Refusing

LEMMA LockTurn ==
    ASSUME Asked, TrialDue, Counted, NEW c \in Clients, LockTrial(c)
    PROVE  Turn(c)
<1>1. /\ request[c].stage = "locking" /\ Waiting(c)
      /\ preview' = preview /\ salts' = salts /\ Recollection
  BY DEF LockTrial, Waiting, Recollection
<1>2. /\ OnKey(request[c]) /\ c \in keyed
      /\ IF c \in late THEN trial.dates = "expired" ELSE c \in entitled
  BY <1>1 DEF TrialDue, ReadDue, OfKey, OnKey
<1>3. CASE ~trial.subscribed /\ c \in late
  <2>1. Refuse(c) BY <1>3 DEF LockTrial
  <2>2. Unwelcome(request[c])
    BY <1>2, <1>3 DEF Unwelcome, Entitled, KeyEntitled, TrialStatus
  <2> QED BY <1>1, <2>1, <2>2, Refusing
<1>4. CASE ~(~trial.subscribed /\ c \in late)
  <2>1. Advance(c, "let_in") BY <1>4 DEF LockTrial
  <2>2. c \in entitled
    <3>1. CASE c \notin late BY <1>2, <3>1
    <3>2. CASE c \in late
      <4>1. TrialStatus = "subscribed" BY <1>4, <3>2 DEF TrialStatus
      <4> QED BY <1>1, <1>2, <4>1 DEF Counted
    <3> QED BY <3>1, <3>2
  <2> QED BY <1>1, <2>1, <2>2, Entering
<1> QED BY <1>3, <1>4

LEMMA KeyTurn ==
    ASSUME AccessAssumption, Asked, AsOffered, TrialDue, Counted,
           NEW c \in Clients, TurnOnKey(c)
    PROVE  Turn(c)
  BY RestTurn, VerifyTurn, LoadTurn, McpTurn, JudgeTurn, LockTurn DEF TurnOnKey

LEMMA ServeTurn ==
    ASSUME AccessAssumption, Asked, NEW c \in Clients, Serve(c)
    PROVE  Turn(c)
<1>1. PICK outcome \in {"answered", "idle"} : Close(c, outcome)
  BY DEF Serve
<1>2. outcome \in Stages BY DEF Stages
<1>3. Asked' /\ Untouched(c) /\ request'[c].stage = outcome BY <1>1, <1>2, Ended
<1>4. request[c].stage = "let_in" /\ Waiting(c) /\ Recollection
  BY DEF Serve, Waiting, Recollection
<1> QED BY <1>3, <1>4 DEF Turn, Ends

LEMMA PublicTurn ==
    ASSUME AccessAssumption, AccessTypeOK, Asked, AsOffered, NEW c \in Clients,
           PublicApi(c)
    PROVE  Turn(c)
<1> DEFINE open == /\ preview.state = "active" /\ preview.public
                   /\ preview.hash # Nothing => request[c].shown = preview.hash.password
<1>1. /\ request[c].surface = "public_api" /\ request[c].stage = "sent" /\ Waiting(c)
      /\ preview' = preview /\ salts' = salts /\ Recollection
  BY DEF PublicApi, Waiting, Recollection
<1>2. OfVisitor(request[c]) BY <1>1 DEF AsOffered, OfKey
<1>3. Entitled(request[c], {proved}) <=> open
  <2>1. preview.hash # Nothing => preview.hash \in Hashes BY DEF AccessTypeOK
  <2>2. preview.hash # Nothing => preview.hash.password # Nothing
    BY <2>1, NoneIsNothing DEF Hashes
  <2> QED
    BY <1>1, <1>2, <2>2 DEF Entitled, OnKey, VisitorEntitled, OfVisitor
<1>4. CASE open
  <2>1. Advance(c, "let_in") BY <1>4 DEF PublicApi
  <2>2. "let_in" \in Stages BY DEF Stages
  <2>3. /\ Asked' /\ Untouched(c)
        /\ request'[c].stage = "let_in" /\ SameAsk(request'[c], request[c])
        /\ request'[c].seen = request[c].seen
    BY <2>1, <2>2, Advanced
  <2>4. Welcome(request[c]) BY <1>3, <1>4 DEF Welcome
  <2> QED BY <1>1, <2>3, <2>4 DEF Turn, Enters
<1>5. CASE ~open
  <2>1. Close(c, "refused") BY <1>5 DEF PublicApi, Refuse
  <2>2. "refused" \in Stages BY DEF Stages
  <2>3. Asked' /\ Untouched(c) /\ request'[c].stage = "refused"
    BY <2>1, <2>2, Ended
  <2>4. Unwelcome(request[c]) BY <1>3, <1>5 DEF Unwelcome
  <2> QED BY <1>1, <2>3, <2>4 DEF Turn, Ends
<1> QED BY <1>4, <1>5

LEMMA LookTurn ==
    ASSUME AccessAssumption, AccessTypeOK, Asked, AsOffered, NEW c \in Clients,
           LookPage(c)
    PROVE  Turn(c)
<1>1. /\ request[c].surface \in PageSurfaces /\ request[c].stage = "sent" /\ Waiting(c)
      /\ preview' = preview /\ salts' = salts /\ Recollection
  BY DEF LookPage, Waiting, Recollection, PageSurfaces
<1>2. CASE preview.state = "active" /\ preview.public
  <2>1. IsAsk(request[c]) BY DEF Asked
  <2> DEFINE looked == [request[c] EXCEPT !.stage = "looked", !.seen = preview.hash]
  <2>2. request' = [request EXCEPT ![c] = looked]
    BY <1>2 DEF LookPage, Asked
  <2>3. preview.hash \in Hashes \cup {Nothing} BY DEF AccessTypeOK
  <2>4. /\ IsAsk(looked) /\ looked.stage = "looked" /\ looked.seen = preview.hash
        /\ SameAsk(looked, request[c])
    <3>1. looked = [surface |-> request[c].surface, listed |-> request[c].listed,
                    level |-> request[c].level, starts |-> request[c].starts,
                    does |-> request[c].does, key |-> request[c].key,
                    shown |-> request[c].shown, seen |-> preview.hash, stage |-> "looked"]
      <4>1. PICK s1, s2, s3, s4, s5, s6, s7, s8, s9 : request[c] =
              [surface |-> s1, listed |-> s2, level |-> s3, starts |-> s4, does |-> s5,
               key |-> s6, shown |-> s7, seen |-> s8, stage |-> s9]
        BY <2>1 DEF IsAsk
      <4>2. [request[c] EXCEPT !.stage = "looked"] =
              [surface |-> s1, listed |-> s2, level |-> s3, starts |-> s4, does |-> s5,
               key |-> s6, shown |-> s7, seen |-> s8, stage |-> "looked"]
        BY <4>1
      <4>3. looked = [[request[c] EXCEPT !.stage = "looked"] EXCEPT !.seen = preview.hash]
        BY Zenon
      <4> HIDE DEF looked
      <4>4. looked =
              [surface |-> s1, listed |-> s2, level |-> s3, starts |-> s4, does |-> s5,
               key |-> s6, shown |-> s7, seen |-> preview.hash, stage |-> "looked"]
        BY <4>2, <4>3
      <4> QED BY <4>1, <4>4
    <3> QED BY <2>1, <2>3, <3>1 DEF IsAsk, SameAsk, Stages
  <2> HIDE DEF looked
  <2>5. Asked' /\ Untouched(c) /\ request'[c] = looked
    BY <2>2, <2>4 DEF Asked, Untouched
  <2> QED BY <1>1, <1>2, <2>4, <2>5 DEF Turn, Looks
<1>3. CASE ~(preview.state = "active" /\ preview.public)
  <2>1. Close(c, "refused") BY <1>3 DEF LookPage, Refuse
  <2>2. "refused" \in Stages BY DEF Stages
  <2>3. Asked' /\ Untouched(c) /\ request'[c].stage = "refused"
    BY <2>1, <2>2, Ended
  <2>4. Unwelcome(request[c])
    BY <1>1, <1>3 DEF Unwelcome, Entitled, OnKey, VisitorEntitled, PageSurfaces
  <2> QED BY <1>1, <2>3, <2>4 DEF Turn, Ends
<1> QED BY <1>2, <1>3

LEMMA UnlockTurn ==
    ASSUME Asked, NEW c \in Clients, UnlockPage(c)
    PROVE  Turn(c)
<1>1. /\ request[c].surface = "unlocking_page" /\ request[c].stage = "looked" /\ Waiting(c)
      /\ request[c].shown # Nothing /\ request[c].seen # Nothing
      /\ preview' = preview /\ salts' = salts
  BY DEF UnlockPage, Waiting
<1>2. CASE request[c].shown = request[c].seen.password
  <2>1. Close(c, "idle") BY <1>2 DEF UnlockPage
  <2>2. "idle" \in Stages BY DEF Stages
  <2>3. Asked' /\ Untouched(c) /\ request'[c].stage = "idle" BY <2>1, <2>2, Ended
  <2>4. Recalls(c)
    BY <1>1, <1>2 DEF Recalls, UnlockPage, AccessValue, Unlocks
  <2> QED BY <1>1, <2>3, <2>4 DEF Turn, Ends
<1>3. CASE request[c].shown # request[c].seen.password
  <2>1. Close(c, "refused") /\ Recollection
    BY <1>3 DEF UnlockPage, Recollection
  <2>2. "refused" \in Stages BY DEF Stages
  <2>3. Asked' /\ Untouched(c) /\ request'[c].stage = "refused" BY <2>1, <2>2, Ended
  <2>4. Unwelcome(request[c]) BY <1>1, <1>3 DEF Unwelcome
  <2> QED BY <1>1, <2>1, <2>3, <2>4 DEF Turn, Ends
<1> QED BY <1>2, <1>3

LEMMA EnterTurn ==
    ASSUME Asked, NEW c \in Clients, EnterPage(c)
    PROVE  Turn(c)
<1>1. /\ request[c].stage = "looked" /\ Waiting(c)
      /\ request[c].shown = Nothing \/ request[c].seen = Nothing
      /\ preview' = preview /\ salts' = salts /\ Recollection
  BY DEF EnterPage, Waiting, Recollection
<1>2. CASE request[c].seen = Nothing \/ session = request[c].seen
  <2>1. Advance(c, "let_in") BY <1>2 DEF EnterPage, AccessValue
  <2>2. "let_in" \in Stages BY DEF Stages
  <2>3. /\ Asked' /\ Untouched(c)
        /\ request'[c].stage = "let_in" /\ SameAsk(request'[c], request[c])
        /\ request'[c].seen = request[c].seen
    BY <2>1, <2>2, Advanced
  <2>4. Welcome(request[c]) BY <1>1, <1>2 DEF Welcome
  <2> QED BY <1>1, <2>3, <2>4 DEF Turn, Enters
<1>3. CASE ~(request[c].seen = Nothing \/ session = request[c].seen)
  <2>1. Close(c, "refused") BY <1>3 DEF EnterPage, AccessValue, Refuse
  <2>2. "refused" \in Stages BY DEF Stages
  <2>3. Asked' /\ Untouched(c) /\ request'[c].stage = "refused" BY <2>1, <2>2, Ended
  <2>4. Unwelcome(request[c]) BY <1>1, <1>3 DEF Unwelcome
  <2> QED BY <1>1, <2>3, <2>4 DEF Turn, Ends
<1> QED BY <1>2, <1>3

(* Every step is a client's turn or leaves requests and the session alone. *)
LEMMA Turns ==
    ASSUME AccessAssumption, AccessTypeOK, Asked, AsOffered, TrialDue, Counted, Step
    PROVE  \/ request' = request /\ Recollection
           \/ \E c \in Clients : Turn(c)
<1>1. ASSUME NEW c \in Clients, Send(c) \/ TurnOnKey(c) \/ Visit(c) \/ Serve(c)
      PROVE  Turn(c)
  BY <1>1, SendTurn, KeyTurn, ServeTurn, PublicTurn, LookTurn, UnlockTurn, EnterTurn
     DEF Visit
<1>2. ASSUME NEW k \in Keys, RevokeKey(k) PROVE request' = request /\ Recollection
  BY <1>2 DEF RevokeKey, Recollection
<1>3. OwnerActs \/ TrialRunsOut \/ TrialExtended \/ SubscriptionChanges =>
        request' = request /\ Recollection
  BY DEF OwnerActs, TrialRunsOut, TrialExtended, SubscriptionChanges, Recollection
<1> QED BY <1>1, <1>2, <1>3 DEF Step

-----------------------------------------------------------------------------
(* Who was entitled is remembered while a client waits, and with its       *)
(* answer.                                                                 *)
LEMMA CarriedOn ==
    ASSUME Watch, NEW c \in Clients, request'[c].stage # "idle",
           Waiting(c) \/ request'[c] = request[c]
    PROVE  /\ c \in entitled => c \in entitled'
           /\ c \in unentitled => c \in unentitled'
           /\ c \in keyed => c \in keyed'
  BY DEF Watch, Same

LEMMA CountedNow ==
    ASSUME Watch, NEW c \in Clients, Waiting(c)'
    PROVE  /\ Entitled(request[c], Shown)' => c \in entitled'
           /\ ~Entitled(request[c], {proved})' => c \in unentitled'
           /\ Forgets /\ OnSession(request[c])' => c \in unentitled'
           /\ RanOut(c) => c \in unentitled'
           /\ OnKey(request[c])' /\ KeyRight(request[c])' => c \in keyed'
           /\ c \in keyed' /\ TrialStatus' # "expired" => c \in entitled'
  BY DEF Watch

Remembered == session = proved

LetInDue ==
    \A c \in Clients : request[c].stage \in {"let_in", "answered"} => c \in entitled

(* A page that was looked up with its password shown.                      *)
LookedDue ==
    \A c \in Clients : request[c].stage = "looked" =>
        /\ request[c].seen = Nothing => c \in entitled
        /\ request[c].shown # Nothing /\ request[c].seen # Nothing
             /\ request[c].shown # request[c].seen.password => c \in unentitled
        /\ request[c].shown = Nothing /\ request[c].seen # Nothing =>
             /\ request[c].seen \in Shown => c \in entitled
             /\ request[c].seen # proved => c \in unentitled

AccessInv ==
    /\ AccessTypeOK /\ Asked /\ AsOffered /\ Remembered /\ Counted
    /\ LetInDue /\ RefusalsWereDue /\ LookedDue /\ TrialDue

LEMMA ShownBroadly ==
    ASSUME NEW r, Entitled(r, {proved})
    PROVE  Entitled(r, Shown)
  BY DEF Entitled, OnKey, VisitorEntitled, Shown

(* What a client that is let in or refused was before.                     *)
LEMMA WelcomeDue ==
    ASSUME AccessInv, NEW c \in Clients, Waiting(c), Welcome(request[c])
    PROVE  c \in entitled
<1>1. CASE Entitled(request[c], {proved})
  BY <1>1, ShownBroadly DEF AccessInv, Counted
<1>2. CASE ~Entitled(request[c], {proved})
  <2>1. proved \in Shown BY DEF Shown
  <2> QED BY <1>2, <2>1 DEF AccessInv, LookedDue, Remembered, Welcome
<1> QED BY <1>1, <1>2

LEMMA UnwelcomeDue ==
    ASSUME AccessInv, NEW c \in Clients, Waiting(c), Unwelcome(request[c])
    PROVE  c \in unentitled
  BY DEF AccessInv, Counted, LookedDue, Remembered, Unwelcome

LEMMA LetInStep ==
    ASSUME AccessAssumption, AccessInv, AccessNext
    PROVE  LetInDue' /\ RefusalsWereDue'
<1>1. Step /\ Watch BY DEF AccessNext
<1>2. Clients' = Clients BY DEF Clients
<1>3. ASSUME NEW d \in Clients, request'[d] = request[d]
      PROVE  /\ request'[d].stage \in {"let_in", "answered"} => d \in entitled'
             /\ request'[d].stage = "refused" => d \in unentitled'
  BY <1>1, <1>3, CarriedOn DEF AccessInv, LetInDue, RefusalsWereDue
<1>4. ASSUME NEW d \in Clients, Turn(d)
      PROVE  /\ request'[d].stage \in {"let_in", "answered"} => d \in entitled'
             /\ request'[d].stage = "refused" => d \in unentitled'
  <2>1. CASE Sends(d) \/ Proceeds(d) \/ Looks(d)
    BY <2>1 DEF Sends, Proceeds, Looks
  <2>2. CASE Enters(d)
    <3>1. Waiting(d) /\ d \in entitled BY <2>2, WelcomeDue DEF Enters
    <3>2. request'[d].stage = "let_in" BY <2>2 DEF Enters
    <3> QED BY <1>1, <3>1, <3>2, CarriedOn
  <2>3. CASE Ends(d)
    <3>1. Waiting(d) BY <2>3 DEF Ends
    <3>2. request'[d].stage = "answered" => d \in entitled
      BY <2>3 DEF Ends, AccessInv, LetInDue
    <3>3. request'[d].stage = "refused" => d \in unentitled
      BY <2>3, <3>1, UnwelcomeDue DEF Ends
    <3>4. request'[d].stage # "let_in" BY <2>3 DEF Ends
    <3> QED BY <1>1, <3>1, <3>2, <3>3, <3>4, CarriedOn
  <2> QED BY <1>4, <2>1, <2>2, <2>3 DEF Turn
<1>5. \A d \in Clients : request'[d] = request[d] \/ Turn(d)
  BY <1>1, Turns DEF AccessInv, Turn, Untouched
<1> QED BY <1>2, <1>3, <1>4, <1>5 DEF LetInDue, RefusalsWereDue

LEMMA SaltsGrow ==
    ASSUME AccessAssumption, AccessTypeOK, Step
    PROVE  salts \in Nat /\ salts' \in Nat /\ salts' >= salts
<1>1. salts \in Nat BY DEF AccessTypeOK, AccessAssumption
<1>2. ASSUME NEW does, NEW outcome, Perform(does, outcome)
      PROVE  salts' = salts \/ salts' = salts + 1
  BY <1>2 DEF Perform, MakeKey, Share, Keep
<1>3. ASSUME NEW c \in Clients, Send(c) \/ TurnOnKey(c) \/ Visit(c)
      PROVE  salts' = salts
  BY <1>3 DEF Send, TurnOnKey, RestAuthenticate, McpVerifyToken, McpLoadProfile,
              McpAuthenticate, JudgeTrial, LockTrial, Visit, PublicApi, LookPage, UnlockPage,
              EnterPage
<1>4. ASSUME \/ \E k \in Keys : RevokeKey(k)
             \/ TrialRunsOut \/ TrialExtended \/ SubscriptionChanges
      PROVE  salts' = salts
  BY <1>4 DEF RevokeKey, TrialRunsOut, TrialExtended, SubscriptionChanges
<1>5. ASSUME (\E c \in Clients : Serve(c)) \/ OwnerActs
      PROVE  salts' = salts \/ salts' = salts + 1
  BY <1>2, <1>5 DEF Serve, OwnerActs
<1> QED BY <1>1, <1>3, <1>4, <1>5 DEF Step

LEMMA AsOfferedStep ==
    ASSUME AccessAssumption, AccessInv, AccessNext
    PROVE  Asked' /\ AsOffered'
<1>1. Step BY DEF AccessNext
<1>2. Clients' = Clients BY DEF Clients
<1>3. salts' \in Nat /\ salts \in Nat /\ salts' >= salts BY <1>1, SaltsGrow DEF AccessInv
<1>4. ASSUME NEW c \in Clients PROVE request[c].seen # Nothing => request[c].seen.salt \in Nat
  BY DEF AccessInv, Asked, IsAsk, Hashes
<1>5. ASSUME NEW d \in Clients, request'[d] = request[d], Waiting(d)'
      PROVE  /\ OfKey(request'[d]) \/ OfVisitor(request'[d])
             /\ request'[d].stage = "looked" => request'[d].surface \in PageSurfaces
             /\ request'[d].seen # Nothing => request'[d].seen.salt <= salts'
  <2>1. Waiting(d) BY <1>5 DEF Waiting
  <2> QED BY <1>3, <1>4, <1>5, <2>1 DEF AccessInv, AsOffered
<1>6. ASSUME NEW d \in Clients, Turn(d), Waiting(d)'
      PROVE  /\ OfKey(request'[d]) \/ OfVisitor(request'[d])
             /\ request'[d].stage = "looked" => request'[d].surface \in PageSurfaces
             /\ request'[d].seen # Nothing => request'[d].seen.salt <= salts'
  <2>1. CASE Sends(d) BY <2>1 DEF Sends
  <2>2. CASE Proceeds(d) \/ Enters(d)
    <3>1. Waiting(d) BY <2>2 DEF Proceeds, Enters, Waiting
    <3>2. /\ SameAsk(request'[d], request[d]) /\ request'[d].seen = request[d].seen
          /\ request'[d].stage # "looked"
      BY <2>2 DEF Proceeds, Enters
    <3> QED BY <1>3, <1>4, <3>1, <3>2 DEF AccessInv, AsOffered, SameAsk, OfKey, OfVisitor
  <2>3. CASE Looks(d)
    <3>1. Waiting(d) BY <2>3 DEF Looks, Waiting
    <3>2. preview.hash # Nothing => preview.hash.salt <= salts /\ preview.hash.salt \in Nat
      BY DEF AccessInv, AccessTypeOK, Hashes
    <3> QED
      BY <1>3, <2>3, <3>1, <3>2
         DEF Looks, AccessInv, AsOffered, SameAsk, OfKey, OfVisitor, PageSurfaces
  <2>4. CASE Ends(d) BY <1>6, <2>4 DEF Ends, Waiting
  <2> QED BY <1>6, <2>1, <2>2, <2>3, <2>4 DEF Turn
<1>7. Asked' /\ \A d \in Clients : request'[d] = request[d] \/ Turn(d)
  <2>1. CASE request' = request BY <2>1, <1>2 DEF AccessInv, Asked
  <2>2. CASE \E c \in Clients : Turn(c) BY <2>2 DEF Turn, Untouched
  <2> QED BY <1>1, <2>1, <2>2, Turns DEF AccessInv
<1> QED BY <1>2, <1>5, <1>6, <1>7 DEF AsOffered

LEMMA RememberedStep ==
    ASSUME AccessAssumption, AccessInv, AccessNext
    PROVE  Remembered' /\ Counted'
<1>1. Step /\ Watch BY DEF AccessNext
<1>2. Clients' = Clients BY DEF Clients
<1>3. Remembered'
  BY <1>1, Turns DEF AccessInv, Turn, Remembered, Recollection, Recalls
<1>4. Counted' BY <1>1, <1>2, CountedNow DEF Counted
<1> QED BY <1>3, <1>4

(* A hash comes to be shown only when its page is looked up in force.      *)
LEMMA ShownStep ==
    ASSUME Asked, NEW c \in Clients, Turn(c), NEW h \in Shown'
    PROVE  \/ h \in Shown
           \/ /\ h = preview.hash /\ preview.state = "active" /\ preview.public
              /\ preview' = preview
<1>1. CASE h = proved'
  BY <1>1 DEF Turn, Recollection, Recalls, Shown
<1>2. ASSUME NEW d \in Clients, Unlocks(request[d])', h = request'[d].seen
      PROVE  \/ h \in Shown
             \/ /\ h = preview.hash /\ preview.state = "active" /\ preview.public
                /\ preview' = preview
  <2>1. CASE d # c
    <3>1. request'[d] = request[d] BY <2>1 DEF Turn, Untouched
    <3> QED BY <1>2, <3>1 DEF Shown, Unlocks
  <2>2. CASE d = c
    <3>1. request'[c].stage = "looked" BY <1>2, <2>2 DEF Unlocks
    <3>2. Looks(c) /\ preview' = preview
      BY <3>1 DEF Turn, Sends, Proceeds, Enters, Ends
    <3> QED BY <1>2, <2>2, <3>2 DEF Looks
  <2> QED BY <2>1, <2>2
<1>3. Clients' = Clients BY DEF Clients
<1> QED BY <1>1, <1>2, <1>3 DEF Shown

LEMMA LookedStep ==
    ASSUME AccessAssumption, AccessInv, AccessNext
    PROVE  LookedDue'
<1> DEFINE due(d) ==
      /\ request[d].seen = Nothing => d \in entitled
      /\ request[d].shown # Nothing /\ request[d].seen # Nothing
           /\ request[d].shown # request[d].seen.password => d \in unentitled
      /\ request[d].shown = Nothing /\ request[d].seen # Nothing =>
           /\ request[d].seen \in Shown => d \in entitled
           /\ request[d].seen # proved => d \in unentitled
<1>1. Step /\ Watch BY DEF AccessNext
<1>2. Clients' = Clients BY DEF Clients
<1>3. AsOffered' BY AsOfferedStep
<1>4. preview.hash # Nothing => preview.hash \in Hashes BY DEF AccessInv, AccessTypeOK
<1>5. ASSUME NEW d \in Clients, request[d].stage = "looked", request'[d] = request[d],
             Recollection \/ Recalls(d) \/ \E c \in Clients : Turn(c),
             ASSUME NEW h \in Shown'
             PROVE  \/ h \in Shown
                    \/ /\ h = preview.hash /\ preview.state = "active" /\ preview.public
                       /\ preview' = preview
      PROVE  due(d)'
  <2>1. due(d) BY <1>5 DEF AccessInv, LookedDue
  <2>2. Waiting(d) /\ Waiting(d)' BY <1>5 DEF Waiting
  <2>3. (d \in entitled => d \in entitled') /\ (d \in unentitled => d \in unentitled')
    BY <1>1, <1>5, <2>2, CarriedOn
  <2>4. request[d].surface \in PageSurfaces /\ request[d].does = "read"
    BY <1>5, <2>2 DEF AccessInv, AsOffered, OfKey, OfVisitor, PageSurfaces
  <2>5. ASSUME request[d].shown = Nothing, request[d].seen # Nothing, request[d].seen \in Shown'
        PROVE  d \in entitled'
    <3>1. CASE request[d].seen \in Shown BY <2>1, <2>3, <2>5, <3>1
    <3>2. CASE request[d].seen \notin Shown
      <4>1. /\ request[d].seen = preview.hash /\ preview.state = "active" /\ preview.public
            /\ preview' = preview
        BY <1>5, <2>5, <3>2
      <4>2. Entitled(request[d], Shown)'
        BY <1>5, <2>4, <2>5, <4>1 DEF Entitled, OnKey, VisitorEntitled, PageSurfaces
      <4> QED BY <1>1, <2>2, <4>2, CountedNow
    <3> QED BY <3>1, <3>2
  <2>6. ASSUME request[d].shown = Nothing, request[d].seen # Nothing, request[d].seen # proved'
        PROVE  d \in unentitled'
    <3>1. CASE request[d].seen # proved BY <2>1, <2>3, <2>6, <3>1
    <3>2. CASE request[d].seen = proved /\ proved' = preview.hash
      <4>1. preview.hash # Nothing /\ preview.hash # proved
        BY <1>5, <2>6, <3>2 DEF Turn, Recollection, Recalls, Unlocks
      <4>2. ~Entitled(request[d], {proved})
        BY <2>4, <2>6, <4>1 DEF Entitled, OnKey, VisitorEntitled, PageSurfaces
      <4> QED BY <2>2, <2>3, <4>2 DEF AccessInv, Counted
    <3>3. CASE request[d].seen = proved /\ proved' # preview.hash
      <4>1. Forgets BY <2>6, <3>3 DEF Forgets
      <4>2. OnSession(request[d])'
        BY <1>5, <2>4, <2>6 DEF OnSession, PageSurfaces
      <4> QED BY <1>1, <2>2, <4>1, <4>2, CountedNow
    <3> QED BY <3>1, <3>2, <3>3
  <2> QED BY <1>5, <2>1, <2>3, <2>5, <2>6
<1>6. ASSUME NEW c \in Clients, Turn(c), request'[c].stage = "looked"
      PROVE  due(c)'
  <2>1. Looks(c) /\ preview' = preview /\ Recollection
    BY <1>6 DEF Turn, Sends, Proceeds, Enters, Ends
  <2>2. Waiting(c)' BY <1>6 DEF Waiting
  <2>3. request'[c].surface \in PageSurfaces /\ request'[c].does = "read"
    BY <1>2, <1>3, <1>6, <2>2 DEF AsOffered, OfKey, OfVisitor, PageSurfaces
  <2>4. request'[c].seen = preview'.hash /\ preview'.state = "active" /\ preview'.public
    BY <2>1 DEF Looks
  <2>5. /\ request'[c].seen = Nothing => Entitled(request[c], Shown)'
        /\ request'[c].shown # Nothing /\ request'[c].seen # Nothing
             /\ request'[c].shown # request'[c].seen.password
             => ~Entitled(request[c], {proved})'
        /\ request'[c].shown = Nothing /\ request'[c].seen # Nothing =>
             /\ request'[c].seen \in Shown' => Entitled(request[c], Shown)'
             /\ request'[c].seen # proved' => ~Entitled(request[c], {proved})'
    BY <2>3, <2>4 DEF Entitled, OnKey, VisitorEntitled, PageSurfaces
  <2> QED BY <1>1, <2>2, <2>5, CountedNow
<1>7. CASE request' = request /\ Recollection
  <2>1. Shown' = Shown BY <1>2, <1>7 DEF Shown, Recollection, Unlocks
  <2> QED BY <1>2, <1>5, <1>7, <2>1 DEF LookedDue
<1>8. CASE \E c \in Clients : Turn(c)
  <2>1. PICK c \in Clients : Turn(c) BY <1>8
  <2>2. ASSUME NEW d \in Clients, request'[d].stage = "looked" PROVE due(d)'
    <3>1. CASE d = c BY <1>6, <2>1, <2>2, <3>1
    <3>2. CASE d # c
      <4>1. request'[d] = request[d] BY <2>1, <3>2 DEF Turn, Untouched
      <4> QED BY <1>5, <1>8, <2>1, <2>2, <4>1, ShownStep DEF AccessInv
    <3> QED BY <3>1, <3>2
  <2> QED BY <1>2, <2>2 DEF LookedDue
<1> QED BY <1>1, <1>7, <1>8, Turns DEF AccessInv

-----------------------------------------------------------------------------
(* What a request has read stays counted: of a client that does not move,  *)
(* the copy may run out or the trial be extended.                          *)
Kept(d) ==
    /\ \/ copy'[d] = copy[d]
       \/ RanOut(d)
       \/ copy[d] # "expired" /\ copy'[d] = "extended"
    /\ \/ d \in late /\ d \in late' /\ (trial.dates = "expired" => trial'.dates = "expired")
       \/ d \notin late /\ d \notin late'
       \/ d \notin late' /\ trial'.dates = "active"

LEMMA KeptByOthers ==
    ASSUME AccessTypeOK, TrialDue, Step, NEW d \in Clients
    PROVE  Kept(d) \/ TurnOnKey(d)
<1>1. copy \in [Clients -> Copies] BY DEF AccessTypeOK
<1>2. trial \in [dates : Dates, subscribed : BOOLEAN] BY DEF AccessTypeOK
<1>3. CASE UNCHANGED trialVars BY <1>3 DEF trialVars, Kept
<1>4. ASSUME NEW c \in Clients, c # d, TurnOnKey(c) PROVE Kept(d)
  <2>1. copy'[d] = copy[d] /\ (d \in late' <=> d \in late)
    BY <1>1, <1>4 DEF TurnOnKey, RestAuthenticate, McpVerifyToken, McpLoadProfile,
                      McpAuthenticate, JudgeTrial, LockTrial, trialVars
  <2>2. trial' = trial \/ TrialStatus = "not_started"
    BY <1>4 DEF TurnOnKey, RestAuthenticate, McpVerifyToken, McpLoadProfile,
                McpAuthenticate, JudgeTrial, LockTrial, trialVars
  <2>3. TrialStatus = "not_started" => trial.dates # "expired" BY DEF TrialStatus
  <2> QED BY <2>1, <2>2, <2>3 DEF Kept
<1>5. TrialRunsOut => Kept(d)
  <2>1. TrialRunsOut => late' = late /\ (trial'.dates = "expired" \/ trial' = trial)
    BY <1>2 DEF TrialRunsOut
  <2>2. TrialRunsOut => copy'[d] = copy[d] \/ RanOut(d)
    BY <1>1 DEF TrialRunsOut, RanOut
  <2> QED BY <2>1, <2>2 DEF Kept
<1>6. TrialExtended => Kept(d)
  BY <1>1, <1>2 DEF TrialExtended, Kept
<1>7. SubscriptionChanges => Kept(d)
  BY <1>2 DEF SubscriptionChanges, Kept
<1>8. ASSUME NEW c \in Clients, Send(c) \/ Visit(c) \/ Serve(c)
      PROVE  UNCHANGED trialVars
  BY <1>8 DEF Send, Visit, PublicApi, LookPage, UnlockPage, EnterPage, Serve
<1>9. OwnerActs \/ (\E k \in Keys : RevokeKey(k)) => UNCHANGED trialVars
  BY DEF OwnerActs, RevokeKey
<1> QED BY <1>3, <1>4, <1>5, <1>6, <1>7, <1>8, <1>9 DEF Step

(* The client reads what is counted, or judges what it has read.           *)
LEMMA ReadNow ==
    ASSUME AccessInv, Watch, NEW c \in Clients, Waiting(c), Waiting(c)', OnKey(request[c]),
           c \in keyed
    PROVE  /\ IF TrialStatus = "expired" THEN c \in unentitled' ELSE c \in entitled'
           /\ c \in keyed'
<1>1. request'[c].stage # "idle" BY DEF Waiting
<1>2. TrialStatus = "expired" => ~Entitled(request[c], {proved})
  BY DEF Entitled, KeyEntitled
<1>3. IF TrialStatus = "expired" THEN c \in unentitled ELSE c \in entitled
  BY <1>2 DEF AccessInv, Counted
<1> QED BY <1>1, <1>3, CarriedOn

LEMMA ReadDueStep ==
    ASSUME AccessAssumption, AccessInv, AccessNext, NEW c \in Clients, TurnOnKey(c)
    PROVE  ReadDue(c)'
<1>1. Step /\ Watch /\ Turn(c)
  BY KeyTurn DEF AccessNext, AccessInv
<1>2. copy \in [Clients -> Copies] BY DEF AccessInv, AccessTypeOK
<1>3. CASE request'[c].stage \notin {"verified", "loaded", "resolved", "locking"}
  BY <1>3 DEF ReadDue
<1>4. CASE request'[c].stage \in {"verified", "loaded", "resolved", "locking"}
  <2>1. Proceeds(c) BY <1>1, <1>4 DEF Turn, Sends, Enters, Looks, Ends
  <2>2. Waiting(c) /\ Waiting(c)' BY <1>4, <2>1 DEF Proceeds, Waiting
  <2>3. OfKey(request[c]) /\ OnKey(request[c])
    BY <2>1, <2>2 DEF Proceeds, TurnOnKey, RestAuthenticate, McpVerifyToken, McpLoadProfile,
         McpAuthenticate, JudgeTrial, LockTrial, AccessInv, TrialDue, ReadDue, AsOffered,
         OfVisitor, PageSurfaces, OfKey, OnKey
  <2>4. OfKey(request'[c]) BY <2>1, <2>3 DEF Proceeds, SameAsk, OfKey
  <2>5. ~Refuse(c)
    <3>1. "refused" \in Stages BY DEF Stages
    <3> QED BY <1>4, <3>1, Ended DEF Refuse, AccessInv
  <2>6. c \in keyed
    <3>1. CASE RestAuthenticate(c) \/ McpVerifyToken(c)
      <4>1. KeyRight(request[c])
        BY <2>3, <2>5, <3>1, KeyAccepted DEF RestAuthenticate, McpVerifyToken, OfKey
      <4> QED BY <2>2, <2>3, <4>1 DEF AccessInv, Counted
    <3>2. CASE ~(RestAuthenticate(c) \/ McpVerifyToken(c))
      BY <3>2 DEF TurnOnKey, McpLoadProfile, McpAuthenticate, JudgeTrial, LockTrial,
                  AccessInv, TrialDue, ReadDue
    <3> QED BY <3>1, <3>2
  <2>7. /\ IF TrialStatus = "expired" THEN c \in unentitled' ELSE c \in entitled'
        /\ c \in keyed'
    BY <1>1, <2>2, <2>3, <2>6, ReadNow
  <2>8. ASSUME NEW stage \in {"verified", "loaded", "resolved", "locking", "let_in"},
               Advance(c, stage)
        PROVE  request'[c].stage = stage
    <3>1. stage \in Stages BY DEF Stages
    <3> QED BY <2>8, <3>1, Advanced DEF AccessInv
  <2>9. ASSUME copy' = [copy EXCEPT ![c] = TrialStatus], request'[c].stage # "locking"
        PROVE  ReadDue(c)'
    <3>1. copy'[c] = TrialStatus BY <1>2, <2>9
    <3> QED BY <2>4, <2>7, <2>9, <3>1 DEF ReadDue
  <2>10. CASE RestAuthenticate(c)
    <3>1. Advance(c, "resolved") /\ copy' = [copy EXCEPT ![c] = TrialStatus]
      BY <2>5, <2>10 DEF RestAuthenticate
    <3>2. request'[c].stage = "resolved" BY <2>8, <3>1
    <3> QED BY <2>9, <3>1, <3>2
  <2>11. CASE McpVerifyToken(c)
    <3>1. Advance(c, "verified") BY <2>5, <2>11 DEF McpVerifyToken
    <3>2. request'[c].stage = "verified" BY <2>8, <3>1
    <3> QED BY <2>4, <2>7, <3>2 DEF ReadDue
  <2>12. CASE McpLoadProfile(c)
    <3>1. Advance(c, "loaded") /\ copy' = [copy EXCEPT ![c] = TrialStatus]
      BY <2>12 DEF McpLoadProfile
    <3>2. request'[c].stage = "loaded" BY <2>8, <3>1
    <3> QED BY <2>9, <3>1, <3>2
  <2>13. CASE McpAuthenticate(c)
    <3>1. request[c].stage = "loaded" /\ Advance(c, "resolved") /\ copy' = copy
      BY <2>5, <2>13 DEF McpAuthenticate
    <3>2. request'[c].stage = "resolved" BY <2>8, <3>1
    <3>3. IF copy[c] = "expired" THEN c \in unentitled ELSE c \in entitled
      BY <3>1 DEF AccessInv, TrialDue, ReadDue
    <3>4. IF copy[c] = "expired" THEN c \in unentitled' ELSE c \in entitled'
      BY <1>1, <2>2, <3>2, <3>3, CarriedOn
    <3> QED BY <2>4, <2>7, <3>1, <3>2, <3>4 DEF ReadDue
  <2>14. CASE JudgeTrial(c)
    <3>1. \/ Advance(c, "let_in")
          \/ /\ Advance(c, "locking")
             /\ late' = IF trial.dates = "expired" THEN late \cup {c} ELSE late \ {c}
      BY <2>5, <2>14 DEF JudgeTrial
    <3>2. /\ request'[c].stage = "locking"
          /\ late' = IF trial.dates = "expired" THEN late \cup {c} ELSE late \ {c}
      BY <1>4, <2>8, <3>1
    <3>3. trial' = trial BY <2>14 DEF JudgeTrial
    <3>4. IF c \in late' THEN trial'.dates = "expired" ELSE c \in entitled'
      <4>1. CASE trial.dates = "expired" BY <3>2, <3>3, <4>1
      <4>2. CASE trial.dates # "expired"
        BY <2>7, <3>2, <4>2 DEF TrialStatus
      <4> QED BY <4>1, <4>2
    <3> QED BY <2>4, <2>7, <3>2, <3>4 DEF ReadDue
  <2>15. ~LockTrial(c) BY <1>4, <2>5, <2>8 DEF LockTrial
  <2> QED BY <2>10, <2>11, <2>12, <2>13, <2>14, <2>15 DEF TurnOnKey
<1> QED BY <1>3, <1>4

(* A step that is not about a key leaves no request past its key.          *)
LEMMA OtherTurn ==
    ASSUME AccessAssumption, AccessInv, NEW c \in Clients, Send(c) \/ Visit(c) \/ Serve(c)
    PROVE  request'[c].stage \notin {"verified", "loaded", "resolved", "locking"}
<1>1. Turn(c)
  BY SendTurn, ServeTurn, PublicTurn, LookTurn, UnlockTurn, EnterTurn DEF Visit, AccessInv
<1>2. \/ ~Waiting(c)
      \/ request[c].stage \in {"looked", "let_in"}
      \/ ~OnKey(request[c])
  BY DEF Send, Visit, PublicApi, LookPage, UnlockPage, EnterPage, Serve, OnKey
<1>3. ~Proceeds(c) BY <1>2 DEF Proceeds, Waiting
<1> QED BY <1>1, <1>3 DEF Turn, Sends, Enters, Looks, Ends

LEMMA TrialDueStep ==
    ASSUME AccessAssumption, AccessInv, AccessNext
    PROVE  TrialDue'
<1>1. Step /\ Watch BY DEF AccessNext
<1>2. Clients' = Clients BY DEF Clients
<1>3. ASSUME NEW d \in Clients, request'[d] = request[d], Kept(d)
      PROVE  ReadDue(d)'
  <2>1. ReadDue(d) BY DEF AccessInv, TrialDue
  <2>2. CASE request[d].stage \notin {"verified", "loaded", "resolved", "locking"}
    BY <1>3, <2>2 DEF ReadDue
  <2>3. CASE request[d].stage \in {"verified", "loaded", "resolved", "locking"}
    <3>1. Waiting(d) /\ Waiting(d)' BY <1>3, <2>3 DEF Waiting
    <3>2. /\ OfKey(request'[d]) /\ d \in keyed' /\ (d \in entitled => d \in entitled')
          /\ d \in unentitled => d \in unentitled'
      BY <1>1, <1>3, <2>1, <2>3, <3>1, CarriedOn DEF ReadDue, Waiting
    <3>3. RanOut(d) => d \in unentitled'
      BY <1>1, <3>1, CountedNow
    <3>4. trial'.dates = "active" => d \in entitled'
      <4>1. trial'.dates = "active" => TrialStatus' # "expired" BY DEF TrialStatus
      <4> QED BY <1>1, <3>1, <3>2, <4>1, CountedNow
    <3>5. request[d].stage \in {"loaded", "resolved"} =>
            IF copy'[d] = "expired" THEN d \in unentitled' ELSE d \in entitled'
      BY <1>3, <2>1, <3>2, <3>3 DEF ReadDue, Kept, RanOut
    <3>6. request[d].stage = "locking" =>
            IF d \in late' THEN trial'.dates = "expired" ELSE d \in entitled'
      BY <1>3, <2>1, <3>2, <3>4 DEF ReadDue, Kept
    <3> QED BY <1>3, <3>2, <3>5, <3>6 DEF ReadDue
  <2> QED BY <2>2, <2>3
<1>4. ASSUME NEW c \in Clients, Send(c) \/ Visit(c) \/ Serve(c) PROVE ReadDue(c)'
  BY <1>4, OtherTurn DEF ReadDue
<1>5. ASSUME NEW d \in Clients PROVE ReadDue(d)'
  <2>1. CASE TurnOnKey(d) BY <2>1, ReadDueStep
  <2>2. CASE ~TurnOnKey(d)
    <3>1. Kept(d) BY <1>1, <2>2, KeptByOthers DEF AccessInv
    <3>2. \/ request'[d] = request[d]
          \/ Send(d) \/ Visit(d) \/ Serve(d)
      <4>1. ASSUME NEW c \in Clients, c # d, Send(c) \/ TurnOnKey(c) \/ Visit(c) \/ Serve(c)
            PROVE  request'[d] = request[d]
        <5>1. Turn(c)
          BY <4>1, SendTurn, KeyTurn, ServeTurn, PublicTurn, LookTurn, UnlockTurn, EnterTurn
             DEF Visit, AccessInv
        <5> QED BY <4>1, <5>1 DEF Turn, Untouched
      <4>2. ASSUME \/ \E k \in Keys : RevokeKey(k)
                   \/ OwnerActs \/ TrialRunsOut \/ TrialExtended \/ SubscriptionChanges
            PROVE  request' = request
        BY <4>2 DEF RevokeKey, OwnerActs, TrialRunsOut, TrialExtended, SubscriptionChanges
      <4> QED BY <1>1, <2>2, <4>1, <4>2 DEF Step
    <3> QED BY <1>3, <1>4, <3>1, <3>2
  <2> QED BY <2>1, <2>2
<1> QED BY <1>2, <1>5 DEF TrialDue

-----------------------------------------------------------------------------
(* The types, and the names of the keys in use.                            *)
KeyTyped ==
    /\ key \in [Keys -> [state : {"none", "active", "revoked"},
                         level : Levels \cup {"none"}, name : Names \cup {Nothing}]]
    /\ \A k, l \in Keys : k # l /\ key[k].state = "active" /\ key[l].state = "active"
                            => key[k].name # key[l].name

PreviewTyped ==
    /\ preview \in [state : {"active", "archived", "deleted"}, public : BOOLEAN,
                     hash : Hashes \cup {Nothing}]
    /\ salts \in 0..MaxSalts
    /\ preview.hash # Nothing => preview.hash.salt <= salts

ProvedTyped == proved \in Hashes \cup {Nothing} /\ (proved # Nothing => proved.salt <= salts)

TrialTyped ==
    /\ trial \in [dates : Dates, subscribed : BOOLEAN]
    /\ copy \in [Clients -> Copies]
    /\ late \subseteq Clients

LEMMA TypeParts ==
    AccessTypeOK <=>
      /\ KeyTyped /\ PreviewTyped /\ ProvedTyped
      /\ TrialTyped
      /\ \A c \in Clients : request[c].stage \in Stages
      /\ keyed \subseteq Clients
      /\ entitled \subseteq Clients /\ unentitled \subseteq Clients
  BY DEF AccessTypeOK, KeyTyped, PreviewTyped, ProvedTyped, TrialTyped

LEMMA MakeKeyTyped ==
    ASSUME KeyTyped, NEW outcome, MakeKey(outcome)
    PROVE  KeyTyped'
<1>1. CASE key' = key BY <1>1 DEF KeyTyped
<1>2. ASSUME NEW k \in Keys, NEW n \in Names, NEW level \in Levels, ~NameTaken(n),
             key' = [key EXCEPT ![k] = [state |-> "active", level |-> level, name |-> n]]
      PROVE  KeyTyped'
  <2> DEFINE made == [state |-> "active", level |-> level, name |-> n]
  <2>1. /\ made \in [state : {"none", "active", "revoked"},
                     level : Levels \cup {"none"}, name : Names \cup {Nothing}]
        /\ made.state = "active" /\ made.name = n
    OBVIOUS
  <2> HIDE DEF made
  <2>2. key' = [key EXCEPT ![k] = made] BY <1>2 DEF made
  <2>3. \A l \in Keys : key'[l] = IF l = k THEN made ELSE key[l] BY <2>2 DEF KeyTyped
  <2>4. \A l \in Keys : key[l].state = "active" => key[l].name # n BY <1>2 DEF NameTaken
  <2> QED BY <2>1, <2>2, <2>3, <2>4 DEF KeyTyped
<1> QED BY <1>1, <1>2 DEF MakeKey

LEMMA RevokeTyped ==
    ASSUME KeyTyped, NEW k \in Keys, RevokeKey(k)
    PROVE  KeyTyped'
<1> DEFINE revoked == [key[k] EXCEPT !.state = "revoked"]
<1>1. key' = [key EXCEPT ![k] = revoked] BY DEF RevokeKey
<1>2. key[k] \in [state : {"none", "active", "revoked"},
                  level : Levels \cup {"none"}, name : Names \cup {Nothing}]
  BY DEF KeyTyped
<1>3. /\ revoked \in [state : {"none", "active", "revoked"},
                      level : Levels \cup {"none"}, name : Names \cup {Nothing}]
      /\ revoked.state = "revoked"
  BY <1>2
<1> HIDE DEF revoked
<1>4. \A l \in Keys : key'[l] = IF l = k THEN revoked ELSE key[l] BY <1>1 DEF KeyTyped
<1> QED BY <1>1, <1>3, <1>4 DEF KeyTyped

LEMMA ShareTyped ==
    ASSUME AccessAssumption, PreviewTyped, NEW outcome, Share(outcome)
    PROVE  PreviewTyped'
<1>1. salts \in Nat /\ salts \in 0..MaxSalts /\ MaxSalts \in Nat
  BY DEF PreviewTyped, AccessAssumption
<1>2. CASE UNCHANGED <<preview, salts>> BY <1>2 DEF PreviewTyped
<1>3. ASSUME NEW public \in BOOLEAN, NEW hash \in Hashes \cup {Nothing},
             preview' = [preview EXCEPT !.public = public, !.hash = hash],
             salts' \in 0..MaxSalts, hash # Nothing => hash.salt <= salts'
      PROVE  PreviewTyped'
  <2>1. preview' \in [state : {"active", "archived", "deleted"}, public : BOOLEAN,
                      hash : Hashes \cup {Nothing}]
    BY <1>3 DEF PreviewTyped
  <2>2. preview'.hash = hash BY <1>3 DEF PreviewTyped
  <2> QED BY <1>3, <2>1, <2>2 DEF PreviewTyped
<1>4. ASSUME NEW public \in BOOLEAN, NEW hash \in {preview.hash, Nothing},
             preview' = [preview EXCEPT !.public = public, !.hash = hash], salts' = salts
      PROVE  PreviewTyped'
  <2>1. hash \in Hashes \cup {Nothing} /\ (hash # Nothing => hash.salt <= salts)
    BY DEF PreviewTyped
  <2> QED BY <1>1, <1>3, <1>4, <2>1
<1>5. ASSUME NEW public \in BOOLEAN, NEW p \in Passwords, salts < MaxSalts, salts' = salts + 1,
             preview' = [preview EXCEPT !.public = public,
                                        !.hash = [password |-> p, salt |-> salts']]
      PROVE  PreviewTyped'
  <2> DEFINE hash == [password |-> p, salt |-> salts']
  <2>1. salts' \in 1..MaxSalts /\ salts' \in 0..MaxSalts BY <1>1, <1>5
  <2>2. hash \in Hashes /\ hash.salt <= salts' BY <2>1 DEF Hashes
  <2> HIDE DEF hash
  <2>3. preview' = [preview EXCEPT !.public = public, !.hash = hash] BY <1>5 DEF hash
  <2> QED BY <1>3, <2>1, <2>2, <2>3
<1> QED BY <1>2, <1>4, <1>5 DEF Share

LEMMA KeepTyped ==
    ASSUME PreviewTyped, NEW does, NEW outcome, Keep(does, outcome)
    PROVE  PreviewTyped'
<1>1. \/ preview' = preview
      \/ preview' = [preview EXCEPT !.state = "archived", !.public = FALSE]
      \/ preview' = [preview EXCEPT !.state = "active"]
      \/ preview' = [preview EXCEPT !.state = "deleted"]
  BY DEF Keep
<1>2. salts' = salts BY DEF Keep
<1>3. CASE preview' = [preview EXCEPT !.state = "archived", !.public = FALSE]
  BY <1>2, <1>3 DEF PreviewTyped
<1>4. CASE \/ preview' = [preview EXCEPT !.state = "active"]
           \/ preview' = [preview EXCEPT !.state = "deleted"]
  BY <1>2, <1>4 DEF PreviewTyped
<1> QED BY <1>1, <1>2, <1>3, <1>4 DEF PreviewTyped

LEMMA PerformTyped ==
    ASSUME AccessAssumption, KeyTyped, PreviewTyped, NEW does, NEW outcome,
           Perform(does, outcome)
    PROVE  KeyTyped' /\ PreviewTyped'
<1>1. CASE MakeKey(outcome)
  BY <1>1, MakeKeyTyped DEF MakeKey, PreviewTyped
<1>2. CASE Share(outcome) BY <1>2, ShareTyped DEF Share, KeyTyped
<1>3. CASE Keep(does, outcome) BY <1>3, KeepTyped DEF Keep, KeyTyped
<1>4. CASE UNCHANGED <<key, preview, salts>> BY <1>4 DEF KeyTyped, PreviewTyped
<1> QED BY <1>1, <1>2, <1>3, <1>4 DEF Perform

LEMMA StoreTyped ==
    ASSUME AccessAssumption, KeyTyped, PreviewTyped, Step
    PROVE  KeyTyped' /\ PreviewTyped'
<1>1. ASSUME NEW c \in Clients, Send(c) \/ TurnOnKey(c) \/ Visit(c)
      PROVE  UNCHANGED <<key, preview, salts>>
  BY <1>1 DEF Send, TurnOnKey, RestAuthenticate, McpVerifyToken, McpLoadProfile,
              McpAuthenticate, JudgeTrial, LockTrial, Visit, PublicApi, LookPage, UnlockPage,
              EnterPage
<1>2. TrialRunsOut \/ TrialExtended \/ SubscriptionChanges => UNCHANGED <<key, preview, salts>>
  BY DEF TrialRunsOut, TrialExtended, SubscriptionChanges
<1>3. CASE UNCHANGED <<key, preview, salts>> BY <1>3 DEF KeyTyped, PreviewTyped
<1>4. ASSUME NEW c \in Clients, Serve(c) PROVE KeyTyped' /\ PreviewTyped'
  BY <1>4, PerformTyped DEF Serve
<1>5. CASE OwnerActs BY <1>5, PerformTyped DEF OwnerActs
<1>6. ASSUME NEW k \in Keys, RevokeKey(k) PROVE KeyTyped' /\ PreviewTyped'
  BY <1>6, RevokeTyped DEF RevokeKey, PreviewTyped
<1> QED BY <1>1, <1>2, <1>3, <1>4, <1>5, <1>6 DEF Step

LEMMA TrialTypedStep ==
    ASSUME TrialTyped, Step
    PROVE  TrialTyped'
<1>1. TrialStatus \in Copies BY DEF TrialTyped, TrialStatus, Copies
<1>2. Clients' = Clients /\ Dates' = Dates /\ Copies' = Copies BY DEF Clients, Dates, Copies
<1>3. CASE UNCHANGED trialVars BY <1>2, <1>3 DEF TrialTyped, trialVars
<1>4. ASSUME NEW c \in Clients, RestAuthenticate(c) \/ McpLoadProfile(c)
      PROVE  TrialTyped'
  BY <1>1, <1>2, <1>4 DEF RestAuthenticate, McpLoadProfile, TrialTyped
<1>5. ASSUME NEW c \in Clients, McpAuthenticate(c) \/ JudgeTrial(c)
      PROVE  TrialTyped'
  <2>1. /\ trial' = trial
        /\ copy' = copy \/ copy' = [copy EXCEPT ![c] = "none"]
        /\ late' \subseteq late \cup {c}
    BY <1>5 DEF McpAuthenticate, JudgeTrial
  <2>2. "none" \in Copies BY DEF Copies
  <2> QED BY <1>2, <2>1, <2>2 DEF TrialTyped
<1>6. ASSUME NEW c \in Clients, LockTrial(c)
      PROVE  TrialTyped'
  <2>1. /\ trial' = trial \/ trial' = [trial EXCEPT !.dates = "active"]
        /\ copy' = copy /\ late' \subseteq late
    BY <1>6 DEF LockTrial
  <2>2. "active" \in Dates BY DEF Dates
  <2> QED BY <1>2, <2>1, <2>2 DEF TrialTyped
<1>7. CASE TrialRunsOut
  <2>1. trial' = trial \/ trial' = [trial EXCEPT !.dates = "expired"] BY <1>7 DEF TrialRunsOut
  <2>2. "expired" \in Dates /\ "expired" \in Copies BY DEF Dates, Copies
  <2>3. copy' \in [Clients -> Copies] BY <1>7, <2>2 DEF TrialRunsOut, TrialTyped
  <2>4. late' = late BY <1>7 DEF TrialRunsOut
  <2> QED BY <1>2, <2>1, <2>2, <2>3, <2>4 DEF TrialTyped
<1>8. CASE TrialExtended
  <2>1. "active" \in Dates /\ "extended" \in Copies BY DEF Dates, Copies
  <2>2. copy' \in [Clients -> Copies] BY <1>8, <2>1 DEF TrialExtended, TrialTyped
  <2> QED BY <1>2, <1>8, <2>1, <2>2 DEF TrialExtended, TrialTyped
<1>9. CASE SubscriptionChanges BY <1>2, <1>9 DEF SubscriptionChanges, TrialTyped
<1>10. ASSUME NEW c \in Clients, Send(c) \/ McpVerifyToken(c) \/ Visit(c) \/ Serve(c)
       PROVE  UNCHANGED trialVars
  BY <1>10 DEF Send, McpVerifyToken, Visit, PublicApi, LookPage, UnlockPage, EnterPage, Serve
<1>11. OwnerActs \/ (\E k \in Keys : RevokeKey(k)) => UNCHANGED trialVars
  BY DEF OwnerActs, RevokeKey
<1> QED
  BY <1>3, <1>4, <1>5, <1>6, <1>7, <1>8, <1>9, <1>10, <1>11 DEF Step, TurnOnKey

LEMMA AccessTypeStep ==
    ASSUME AccessAssumption, AccessInv, AccessNext
    PROVE  AccessTypeOK'
<1>1. Step /\ Watch BY DEF AccessNext
<1>2. KeyTyped /\ PreviewTyped /\ ProvedTyped /\ TrialTyped
  BY TypeParts DEF AccessInv
<1>3. KeyTyped' /\ PreviewTyped' BY <1>1, <1>2, StoreTyped
<1>4. TrialTyped' BY <1>1, <1>2, TrialTypedStep
<1>5. salts \in Nat /\ salts' \in Nat /\ salts' >= salts BY <1>1, SaltsGrow DEF AccessInv
<1>6. ProvedTyped'
  <2>1. CASE proved' = proved
    <3>1. proved # Nothing => proved.salt \in Nat /\ proved.salt <= salts
      BY <1>2 DEF ProvedTyped, Hashes
    <3>2. proved' # Nothing => proved'.salt <= salts'
      BY <1>5, <2>1, <3>1
    <3> QED BY <1>2, <2>1, <3>2 DEF ProvedTyped, Hashes
  <2>2. ASSUME NEW c \in Clients, Recalls(c) PROVE ProvedTyped'
    <3>1. proved' = request[c].seen /\ request[c].seen # Nothing /\ Waiting(c)
      BY <2>2 DEF Recalls, Unlocks, Waiting
    <3>2. request[c].seen \in Hashes /\ request[c].seen.salt <= salts
      BY <3>1 DEF AccessInv, Asked, IsAsk, AsOffered
    <3>3. request[c].seen.salt \in Nat BY <3>2 DEF Hashes
    <3>4. proved' # Nothing => proved'.salt <= salts'
      BY <1>5, <3>1, <3>2, <3>3
    <3> QED BY <3>1, <3>2, <3>4 DEF ProvedTyped, Hashes
  <2> QED BY <1>1, <2>1, <2>2, Turns DEF AccessInv, Turn, Recollection
<1>7. Clients' = Clients /\ Stages' = Stages BY DEF Clients, Stages
<1>8. \A c \in Clients : request'[c].stage \in Stages
  BY <1>7, AsOfferedStep DEF Asked, IsAsk
<1>9. keyed' \subseteq Clients /\ entitled' \subseteq Clients /\ unentitled' \subseteq Clients
  BY <1>1 DEF Watch
<1> QED
  BY <1>3, <1>4, <1>6, <1>7, <1>8, <1>9
     DEF AccessTypeOK, KeyTyped, PreviewTyped, ProvedTyped, TrialTyped

LEMMA InitAccessInv ==
    ASSUME AccessAssumption, AccessInit
    PROVE  AccessInv
<1>1. \A c \in Clients : request[c] = Idle BY DEF AccessInit
<1>2. Idle.stage = "idle" BY DEF Idle
<1>3. "idle" \in Stages BY DEF Stages
<1>4. Asked
  <2>1. request = [c \in Clients |-> request[c]] BY DEF AccessInit
  <2>2. IsAsk(Idle) BY <1>3, IdleAsks
  <2> QED BY <1>1, <2>1, <2>2 DEF Asked
<1>5. KeyTyped /\ PreviewTyped /\ ProvedTyped
  BY DEF AccessInit, KeyTyped, PreviewTyped, ProvedTyped, AccessAssumption
<1>6. AccessTypeOK
  <2>1. TrialTyped BY DEF AccessInit, TrialTyped, Dates, Copies
  <2> QED BY <1>1, <1>2, <1>3, <1>5, <2>1, TypeParts DEF AccessInit
<1>7. \A c \in Clients : ~Waiting(c) BY <1>1, <1>2 DEF Waiting
<1>8. AsOffered /\ Counted BY <1>7 DEF AsOffered, Counted
<1>9. LetInDue /\ RefusalsWereDue /\ LookedDue /\ TrialDue
  BY <1>1, <1>2 DEF LetInDue, RefusalsWereDue, LookedDue, TrialDue, ReadDue
<1>10. Remembered BY DEF AccessInit, Remembered
<1> QED BY <1>4, <1>6, <1>8, <1>9, <1>10 DEF AccessInv

LEMMA AccessStep ==
    ASSUME AccessAssumption, AccessInv, [AccessNext]_accessVars
    PROVE  AccessInv'
<1>1. CASE AccessNext
  BY <1>1, AccessTypeStep, AsOfferedStep, RememberedStep, LetInStep, LookedStep,
     TrialDueStep
     DEF AccessInv
<1>2. CASE UNCHANGED accessVars
  <2>1. Clients' = Clients /\ Shown' = Shown
    BY <1>2 DEF accessVars, Clients, Shown, Unlocks
  <2>2. AccessTypeOK' BY <1>2 DEF accessVars, trialVars, AccessInv, AccessTypeOK
  <2>3. Asked' /\ AsOffered' /\ Remembered'
    BY <1>2, <2>1 DEF accessVars, AccessInv, Asked, AsOffered, Waiting, Remembered
  <2>4. Counted'
    BY <1>2, <2>1 DEF accessVars, trialVars, AccessInv, Counted, Waiting, Entitled, KeyEntitled, KeyRight,
                      OnKey, VisitorEntitled, TrialStatus
  <2>5. LetInDue' /\ RefusalsWereDue' /\ LookedDue'
    BY <1>2, <2>1 DEF accessVars, AccessInv, LetInDue, RefusalsWereDue, LookedDue
  <2>6. TrialDue'
    BY <1>2, <2>1 DEF accessVars, trialVars, AccessInv, TrialDue, ReadDue
  <2> QED BY <2>2, <2>3, <2>4, <2>5, <2>6 DEF AccessInv
<1> QED BY <1>1, <1>2

LEMMA AccessInvariance ==
    AccessSpec => []AccessInv
<1>1. AccessInit => AccessInv
  BY InitAccessInv, AccessAssumption
<1>2. AccessInv /\ [AccessNext]_accessVars => AccessInv'
  BY AccessStep, AccessAssumption
<1> QED BY <1>1, <1>2, PTL DEF AccessSpec

(* Every variable keeps its type: keys in use have names of their own, and *)
(* a preview a password that was set (apps/core/models.py AgentApiKey).    *)
THEOREM AccessTypeCorrect ==
    AccessSpec => []AccessTypeOK
<1>1. AccessInv => AccessTypeOK BY DEF AccessInv
<1> QED BY <1>1, AccessInvariance, PTL

(* Over REST and MCP, on the public pages and the public API, a request is *)
(* let in and served only if, while it waited, its client showed the       *)
(* password in force, or had a key of the level and then or later a trial  *)
(* that has not ended (apps/api/auth.py, apps/mcp_server, core/trials.py,  *)
(* apps/datasets/views.py).                                                *)
THEOREM ServedOnlyEntitled ==
    AccessSpec => []AnswersWereEntitled
<1>1. AccessInv => AnswersWereEntitled
  BY DEF AccessInv, LetInDue, AnswersWereEntitled
<1> QED BY <1>1, AccessInvariance, PTL

(* And a request is refused only if its client was not entitled to it, its *)
(* copy of the profile ran out, or its session forgot a newer password,    *)
(* while it waited.                                                        *)
THEOREM RefusedOnlyUnentitled ==
    AccessSpec => []RefusalsWereDue
<1>1. AccessInv => RefusalsWereDue BY DEF AccessInv
<1> QED BY <1>1, AccessInvariance, PTL

=============================================================================
