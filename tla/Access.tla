------------------------------- MODULE Access -------------------------------
(***************************************************************************)
(* Who is let in: agent keys over REST and MCP, signed-in owners, and the  *)
(* visitors of a public preview (apps/api/auth.py, apps/mcp_server/auth.py *)
(* and server.py, apps/core/services.py, apps/datasets/public_previews.py).*)
(* Surfaces lists what each of them is offered.                            *)
(*                                                                         *)
(* A request reads the key and the profile, judges the trial by that copy  *)
(* of the profile or by another read under lock, and is served later; keys *)
(* are revoked, the trial ends or is extended, the owner subscribes, and   *)
(* the preview is switched off or given another password in between.  One  *)
(* profile with one dataset, whose visitors share one session.  What the   *)
(* owner does on the dashboard is one step: nothing is checked there that  *)
(* could change meanwhile.                                                 *)
(***************************************************************************)
EXTENDS Surfaces, Naturals, FiniteSets

CONSTANTS
    Keys, Names, Passwords, Nothing,
    Agents,       \* clients of REST and MCP
    Visitors,     \* clients of the public preview
    MaxSalts      \* bound: times a preview password is set

ASSUME AccessAssumption ==
    /\ MaxSalts \in Nat
    /\ Nothing \notin Keys \cup Names \cup Passwords
    /\ Nothing \notin [password : Passwords, salt : 1..MaxSalts]

Clients == Agents \cup Visitors

VARIABLES
    key,        \* AgentApiKey: state, access level and name
    trial,      \* of the profile: where the clock is in its dates, and its subscription
    preview,    \* of the dataset: state, public_enabled, public_password_hash
    salts,      \* password hashes made so far: each is salted anew
    session,    \* the hash whose digest the visitors' session holds
    proved,     \* ghost: the hash whose password was last shown in that session
    request,    \* what each client asked for, and how far it is
    copy,       \* of the profile, as each request read it: its trial status by the clock
    late,       \* requests that read a clock past the trial, before its profile under lock
    keyed,      \* ghost: clients whose key was right at some time since they sent
    entitled,   \* ghost: clients entitled to their request at some time since it was sent
    unentitled  \* ghost: clients not entitled to it at some time since then

trialVars == <<trial, copy, late>>
accessVars == <<key, preview, salts, session, proved, request, trialVars,
                keyed, entitled, unentitled>>

Levels == {"read", "read_write", "admin"}
Order == [none |-> 0, read |-> 1, read_write |-> 2, admin |-> 3]
Stages == {"idle", "sent", "verified", "loaded", "resolved", "locking", "looked",
           "let_in", "answered", "refused"}
Dates == {"not_started", "active", "expired"}
Copies == Dates \cup {"none", "subscribed", "extended"}
Hashes == [password : Passwords, salt : 1..MaxSalts]
Idle == [surface |-> "none", listed |-> "none", level |-> "none", starts |-> FALSE,
         does |-> "none", key |-> Nothing, shown |-> Nothing, seen |-> Nothing, stage |-> "idle"]

(* agent_api_key_access_level_allows                                       *)
Allows(actual, required) == Order[actual] >= Order[required]

AccessInit ==
    /\ key = [k \in Keys |-> [state |-> "none", level |-> "none", name |-> Nothing]]
    /\ trial = [dates |-> "not_started", subscribed |-> FALSE]
    /\ preview = [state |-> "active", public |-> FALSE, hash |-> Nothing]
    /\ salts = 0
    /\ session = Nothing
    /\ proved = Nothing
    /\ request = [c \in Clients |-> Idle]
    /\ copy = [c \in Clients |-> "none"]
    /\ late = {}
    /\ keyed = {}
    /\ entitled = {}
    /\ unentitled = {}

(* get_trial_status                                                        *)
TrialStatus == IF trial.subscribed THEN "subscribed" ELSE trial.dates

-----------------------------------------------------------------------------
(* What a request should need, whatever the surface declares; inSession    *)
(* are the hashes whose passwords count as shown in the visitors' session. *)
Need(does) ==
    CASE does = "make_key" -> "admin"
      [] does = "read" -> "read"
      [] OTHER -> "read_write"

KeyRight(r) ==
    /\ r.key # Nothing
    /\ key[r.key].state = "active" /\ Allows(key[r.key].level, Need(r.does))

KeyEntitled(r) == KeyRight(r) /\ TrialStatus # "expired"

VisitorEntitled(r, inSession) ==
    /\ r.does = "read"
    /\ preview.state = "active" /\ preview.public
    /\ preview.hash # Nothing =>
         IF r.shown # Nothing THEN r.shown = preview.hash.password
         ELSE r.surface # "public_api" /\ preview.hash \in inSession

OnKey(r) == r.surface \in {"rest", "mcp"}

Entitled(r, inSession) ==
    IF OnKey(r) THEN KeyEntitled(r) ELSE VisitorEntitled(r, inSession)

(* A POST whose password is right and about to be remembered: from here on *)
(* the password was shown, but no page need know it yet.                   *)
Unlocks(r) ==
    /\ r.stage = "looked" /\ r.shown # Nothing /\ r.seen # Nothing
    /\ r.shown = r.seen.password

Shown == {proved} \cup {request[c].seen : c \in {d \in Clients : Unlocks(request[d])}}

-----------------------------------------------------------------------------
Waiting(c) == request[c].stage \notin {"idle", "answered", "refused"}
Advance(c, stage) == request' = [request EXCEPT ![c].stage = stage]
Close(c, stage) == request' = [request EXCEPT ![c] = [Idle EXCEPT !.stage = stage]]
Refuse(c) == Close(c, "refused")

(* A client with a key, or a visitor, sends a request.                     *)
Sent(e, k, p) ==
    [surface |-> e.surface, listed |-> e.listed, level |-> e.level, starts |-> e.starts,
     does |-> Does(e.service), key |-> k, shown |-> p, seen |-> Nothing, stage |-> "sent"]

Send(c) ==
    /\ ~Waiting(c)
    /\ \/ \E e \in WithKey, k \in Keys : /\ c \in Agents /\ key[k].state # "none"
                                       /\ request' = [request EXCEPT ![c] = Sent(e, k, Nothing)]
       \/ \E e \in WithoutKey, p \in Passwords \cup {Nothing} :
             /\ c \in Visitors
             /\ p # Nothing => e.surface # "page"
             /\ request' = [request EXCEPT ![c] = Sent(e, Nothing, p)]
    /\ UNCHANGED <<key, trialVars, preview, salts, session, proved>>

(* resolve_api_key_profile, _get_access_token_profile                      *)
Resolves(k) == key[k].state = "active"

(* With require_agent_api_key_access: 401 or 403.                          *)
Accepts(r, level) == Resolves(r.key) /\ Allows(key[r.key].level, level)

(* APIKeyAuth.authenticate, to the trial: one SELECT for key and profile.  *)
RestAuthenticate(c) ==
    LET r == request[c]
    IN  /\ r.surface = "rest" /\ r.stage = "sent"
        /\ \/ /\ Accepts(r, r.level)
              /\ Advance(c, "resolved")
              /\ copy' = [copy EXCEPT ![c] = TrialStatus]
           \/ ~Accepts(r, r.level) /\ Refuse(c) /\ UNCHANGED copy
        /\ UNCHANGED <<key, trial, late, preview, salts, session, proved>>

(* RowsetApiKeyAuthProvider._verify_token_sync, and the access check by    *)
(* the claims of the token.                                                *)
McpVerifyToken(c) ==
    LET r == request[c]
    IN  /\ r.surface = "mcp" /\ r.stage = "sent"
        /\ IF Accepts(r, r.listed) THEN Advance(c, "verified") ELSE Refuse(c)
        /\ UNCHANGED <<key, trialVars, preview, salts, session, proved>>

(* _get_access_token_profile in the body of the tool: the profile, and the *)
(* key by a SELECT of its own.                                             *)
McpLoadProfile(c) ==
    /\ request[c].stage = "verified"
    /\ Advance(c, "loaded")
    /\ copy' = [copy EXCEPT ![c] = TrialStatus]
    /\ UNCHANGED <<key, trial, late, preview, salts, session, proved>>

McpAuthenticate(c) ==
    LET r == request[c]
    IN  /\ r.stage = "loaded"
        /\ \/ Accepts(r, r.level) /\ Advance(c, "resolved") /\ UNCHANGED copy
           \/ /\ ~Accepts(r, r.level)
              /\ Refuse(c)
              /\ copy' = [copy EXCEPT ![c] = "none"]
        /\ UNCHANGED <<key, trial, late, preview, salts, session, proved>>

(* require_unexpired_trial_access, or activate_or_require_trial_access up  *)
(* to its lock: the copy of the profile by the clock of now.               *)
JudgeTrial(c) ==
    /\ request[c].stage = "resolved"
    /\ copy' = [copy EXCEPT ![c] = "none"]
    /\ \/ /\ \/ copy[c] \in {"subscribed", "active", "extended"}
             \/ copy[c] = "not_started" /\ ~request[c].starts
          /\ Advance(c, "let_in")
          /\ UNCHANGED late
       \/ /\ copy[c] \in {"not_started", "expired"} /\ request[c].starts
          /\ Advance(c, "locking")
          /\ late' = IF trial.dates = "expired" THEN late \cup {c} ELSE late \ {c}
       \/ /\ copy[c] = "expired" /\ ~request[c].starts
          /\ Refuse(c)
          /\ UNCHANGED late
    /\ UNCHANGED <<key, trial, preview, salts, session, proved>>

(* And the rest of it: the profile as it is now, by the clock of then.     *)
LockTrial(c) ==
    /\ request[c].stage = "locking"
    /\ trial' = IF TrialStatus = "not_started" THEN [trial EXCEPT !.dates = "active"] ELSE trial
    /\ IF ~trial.subscribed /\ c \in late THEN Refuse(c) ELSE Advance(c, "let_in")
    /\ late' = late \ {c}
    /\ UNCHANGED <<key, copy, preview, salts, session, proved>>

-----------------------------------------------------------------------------
(* Serving a request that was let in.                                      *)

(* Fault: the form's look at the names is all there is.                    *)
NameTakenNever(n) == FALSE

(* unique_agent_api_key_name_per_profile                                   *)
NameTaken(n) == \E k \in Keys : key[k].state = "active" /\ key[k].name = n

(* create_agent_api_key: 409 when the constraint refuses.                  *)
MakeKey(outcome) ==
    /\ \E k \in Keys, n \in Names, level \in Levels :
         /\ key[k].state = "none"
         /\ IF NameTaken(n) THEN outcome = "idle" /\ UNCHANGED key
            ELSE /\ outcome = "answered"
                 /\ key' = [key EXCEPT ![k] = [state |-> "active", level |-> level, name |-> n]]
    /\ UNCHANGED <<preview, salts>>

(* update_public_preview_settings under the dataset's lock: the flag, and  *)
(* a new password, the same or none.  409 when archived.                   *)
Share(outcome) ==
    /\ IF preview.state # "active" THEN outcome = "idle" /\ UNCHANGED <<preview, salts>>
       ELSE /\ outcome = "answered"
            /\ \E public \in BOOLEAN :
                 \/ /\ \E hash \in {preview.hash, Nothing} :
                         preview' = [preview EXCEPT !.public = public, !.hash = hash]
                    /\ UNCHANGED salts
                 \/ /\ salts < MaxSalts
                    /\ salts' = salts + 1
                    /\ \E p \in Passwords : preview' = [preview EXCEPT !.public = public,
                         !.hash = [password |-> p, salt |-> salts']]
    /\ UNCHANGED key

(* archive_profile_dataset, restore_profile_dataset, _delete_dataset       *)
Keep(does, outcome) ==
    /\ IF preview.state = "deleted" THEN outcome = "idle" /\ UNCHANGED preview
       ELSE /\ outcome = "answered"
            /\ preview' = CASE does = "archive" ->
                                 [preview EXCEPT !.state = "archived", !.public = FALSE]
                            [] does = "restore" -> [preview EXCEPT !.state = "active"]
                            [] OTHER -> [preview EXCEPT !.state = "deleted"]
    /\ UNCHANGED <<key, salts>>

Perform(does, outcome) ==
    \/ does = "make_key" /\ MakeKey(outcome)
    \/ does = "share" /\ Share(outcome)
    \/ does \in {"archive", "restore", "delete"} /\ Keep(does, outcome)
    \/ does \in {"read", "change"} /\ outcome = "answered" /\ UNCHANGED <<key, preview, salts>>

Serve(c) ==
    /\ request[c].stage = "let_in"
    /\ \E outcome \in {"answered", "idle"} :
         Perform(request[c].does, outcome) /\ Close(c, outcome)
    /\ UNCHANGED <<trialVars, session, proved>>

(* The views of the dashboard.                                             *)
OwnersDo == {Does(e.service) : e \in ForOwner}

OwnerActs ==
    /\ \E does \in OwnersDo : Perform(does, "answered")
    /\ UNCHANGED <<trialVars, session, proved, request>>

-----------------------------------------------------------------------------
(* Visitors.                                                               *)

(* get_public_dataset, with the password of the request.                   *)
PublicApi(c) ==
    LET r == request[c]
    IN  /\ r.surface = "public_api" /\ r.stage = "sent"
        /\ IF /\ preview.state = "active" /\ preview.public
              /\ preview.hash # Nothing => r.shown = preview.hash.password
           THEN Advance(c, "let_in") ELSE Refuse(c)
        /\ UNCHANGED <<key, trialVars, preview, salts, session, proved>>

(* _public_dataset_or_404                                                  *)
LookPage(c) ==
    LET r == request[c]
    IN  /\ r.surface \in {"page", "unlocking_page"} /\ r.stage = "sent"
        /\ IF preview.state = "active" /\ preview.public
           THEN request' = [request EXCEPT ![c].stage = "looked", ![c].seen = preview.hash]
           ELSE Refuse(c)
        /\ UNCHANGED <<key, trialVars, preview, salts, session, proved>>

(* Fault: the session remembers that a password was given, not which.      *)
AccessValueOfAny(hash) == "granted"

(* public_preview_access_session_value                                     *)
AccessValue(hash) == hash

(* _handle_public_password_access: a POST with the right password is       *)
(* remembered and redirected, with a wrong one it is denied.               *)
UnlockPage(c) ==
    LET r == request[c]
    IN  /\ r.surface = "unlocking_page" /\ r.stage = "looked"
        /\ r.shown # Nothing /\ r.seen # Nothing
        /\ Close(c, IF r.shown = r.seen.password THEN "idle" ELSE "refused")
        /\ IF r.shown = r.seen.password
           THEN session' = AccessValue(r.seen) /\ proved' = r.seen
           ELSE UNCHANGED <<session, proved>>
        /\ UNCHANGED <<key, trialVars, preview, salts>>

(* has_public_preview_access                                               *)
EnterPage(c) ==
    LET r == request[c]
    IN  /\ r.stage = "looked" /\ (r.shown = Nothing \/ r.seen = Nothing)
        /\ IF r.seen = Nothing \/ session = AccessValue(r.seen)
           THEN Advance(c, "let_in") ELSE Refuse(c)
        /\ UNCHANGED <<key, trialVars, preview, salts, session, proved>>

-----------------------------------------------------------------------------
(* What happens meanwhile.                                                 *)

(* revoke_agent_api_key_view                                               *)
RevokeKey(k) ==
    /\ key[k].state = "active"
    /\ key' = [key EXCEPT ![k].state = "revoked"]
    /\ UNCHANGED <<trialVars, preview, salts, session, proved, request>>

(* The clock passes the end of the trial, or the one that a copy still     *)
(* shows: a trial extended since ends later.                               *)
TrialRunsOut ==
    /\ \/ /\ trial.dates = "active"
          /\ trial' = [trial EXCEPT !.dates = "expired"]
          /\ copy' = [c \in Clients |->
                        IF copy[c] \in {"active", "extended"} THEN "expired" ELSE copy[c]]
       \/ /\ \E c \in Clients : copy[c] = "extended" /\ copy' = [copy EXCEPT ![c] = "expired"]
          /\ UNCHANGED trial
    /\ UNCHANGED <<key, late, preview, salts, session, proved, request>>

(* _extend_locked_trial: past every clock that was read.                   *)
TrialExtended ==
    /\ trial.dates # "not_started"
    /\ trial' = [trial EXCEPT !.dates = "active"]
    /\ copy' = [c \in Clients |-> IF copy[c] = "active" THEN "extended" ELSE copy[c]]
    /\ late' = {}
    /\ UNCHANGED <<key, preview, salts, session, proved, request>>

(* has_active_subscription, as Billing changes it.                         *)
SubscriptionChanges ==
    /\ trial' = [trial EXCEPT !.subscribed = ~@]
    /\ UNCHANGED <<key, copy, late, preview, salts, session, proved, request>>

Visit(c) == PublicApi(c) \/ LookPage(c) \/ UnlockPage(c) \/ EnterPage(c)

TurnOnKey(c) ==
    \/ RestAuthenticate(c) \/ McpVerifyToken(c) \/ McpLoadProfile(c) \/ McpAuthenticate(c)
    \/ JudgeTrial(c) \/ LockTrial(c)

Step ==
    \/ \E c \in Clients : Send(c) \/ TurnOnKey(c) \/ Visit(c) \/ Serve(c)
    \/ \E k \in Keys : RevokeKey(k)
    \/ OwnerActs \/ TrialRunsOut \/ TrialExtended \/ SubscriptionChanges

(* Every moment counts at which a client waits for its answer, and for the *)
(* trial every one since its key was right.  A POST that comes late makes  *)
(* the session forget a newer password for an older one.                   *)
Same(c) == request'[c].stage # "idle" /\ (Waiting(c) \/ request'[c] = request[c])
Forgets == proved' # proved /\ proved' # preview.hash
OnSession(r) == r.surface \in {"page", "unlocking_page"} /\ r.shown = Nothing
RanOut(c) == copy[c] \in {"active", "extended"} /\ copy'[c] = "expired"
Watch ==
    /\ keyed' = {c \in Clients :
         \/ (Waiting(c) /\ OnKey(request[c]) /\ KeyRight(request[c]))'
         \/ c \in keyed /\ Same(c)}
    /\ entitled' = {c \in Clients :
         \/ (Waiting(c) /\ Entitled(request[c], Shown))'
         \/ (Waiting(c) /\ c \in keyed /\ TrialStatus # "expired")'
         \/ c \in entitled /\ Same(c)}
    /\ unentitled' = {c \in Clients :
         \/ Waiting(c)' /\ \/ ~Entitled(request[c], {proved})'
                           \/ Forgets /\ OnSession(request[c])'
                           \/ RanOut(c)
         \/ c \in unentitled /\ Same(c)}

AccessNext == Step /\ Watch

AccessSpec == AccessInit /\ [][AccessNext]_accessVars

-----------------------------------------------------------------------------
(* Keys in use have names of their own, whatever two requests for one name *)
(* saw before; a preview has a password that was set.                      *)
AccessTypeOK ==
    /\ key \in [Keys -> [state : {"none", "active", "revoked"}, level : Levels \cup {"none"},
                         name : Names \cup {Nothing}]]
    /\ \A k, l \in Keys : k # l /\ key[k].state = "active" /\ key[l].state = "active"
                            => key[k].name # key[l].name
    /\ trial \in [dates : Dates, subscribed : BOOLEAN]
    /\ copy \in [Clients -> Copies]
    /\ preview \in [state : {"active", "archived", "deleted"}, public : BOOLEAN,
                     hash : Hashes \cup {Nothing}]
    /\ salts \in 0..MaxSalts
    /\ proved \in Hashes \cup {Nothing}
    /\ \A h \in {preview.hash, proved} : h # Nothing => h.salt <= salts
    /\ \A c \in Clients : request[c].stage \in Stages
    /\ late \subseteq Clients /\ keyed \subseteq Clients
    /\ entitled \subseteq Clients /\ unentitled \subseteq Clients

(* Whatever is revoked, ended, archived, unshared or given another password *)
(* while a request is on its way, and whichever endpoint, tool or page it  *)
(* takes: it is let in only if its client was entitled to it since it was  *)
(* sent - by the password in force, which it shows itself or which another *)
(* request of the session has shown; or by a key, active at some time and  *)
(* of the level that what it does needs, and a trial that at that time or  *)
(* a later one has not ended.  They need not have been right at once: the  *)
(* key is not read again when the profile is.                              *)
AnswersWereEntitled ==
    \A c \in Clients : request[c].stage \in {"let_in", "answered"} => c \in entitled

(* And it is refused only if its client was not entitled to it at some     *)
(* time, the copy of the profile it goes by ran out, or its session forgot *)
(* a newer password for an older one: no surface asks for more than        *)
(* another, a trial extended or started in between counts where it is read *)
(* again, and a password given is remembered.                              *)
RefusalsWereDue ==
    \A c \in Clients : request[c].stage = "refused" => c \in unentitled
=============================================================================
