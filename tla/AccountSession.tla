---------------------------- MODULE AccountSession ----------------------------
(***************************************************************************)
(* The Inklura Manage session of the workspace (workspace/account.rs): the   *)
(* login, the account and the site selected under it, logins that finish in  *)
(* the background, the whoami request each login and each launch sends,      *)
(* logout and rejection.                                                    *)
(*                                                                         *)
(* The configuration is held three times: by the workspace (app_config), by  *)
(* the settings view, which saves its own copy whole (settings.rs), and in   *)
(* the file.  Every login yields a token of its own; a whoami carries the    *)
(* token it was sent with but its answer is applied to whatever session is   *)
(* current.                                                                 *)
(***************************************************************************)
EXTENDS Integers, FiniteSets

CONSTANTS
  Tokens,      \* the tokens logins may yield
  Accounts,
  Owner,       \* Owner[t]: the account token t was issued to
  Sites,       \* the sites the user may select
  MaxLaunches, \* bound: restarts of the program
  None

ASSUME AccountSessionAssumption ==
  /\ Owner \in [Tokens -> Accounts]
  /\ None \notin Tokens /\ None \notin Accounts /\ None \notin Sites
  /\ MaxLaunches \in Nat

VARIABLES
  cfg,       \* app_config: cloud_sync.token, account and active site
  copy,      \* the settings view's copy of it
  saved,     \* the configuration file
  failed,    \* history: some save did not reach the file
  login,     \* login[t]: the login that yields t
  whoami,    \* whoami[t]: the whoami request sent with t
  revoked,   \* tokens the server rejects
  ended,     \* history: tokens whose session was ended here
  launches   \* counter of the bound

files == <<cfg, copy, saved, failed>>
requests == <<login, whoami, revoked>>
vars == <<files, requests, ended, launches>>

SignedOut == [token |-> None, account |-> None, site |-> None]
SignedIn == cfg.token # None /\ cfg.account # None

\* Saving the configuration c may fail: that is logged and nothing else.
Write(c) == \/ saved' = c /\ UNCHANGED failed
            \/ UNCHANGED saved /\ failed' = TRUE

\* The workspace changes its configuration and saves it ...
SetConfig(c) == cfg' = c /\ Write(c)
\* ... and then refreshes the settings view's copy (sync_settings_config).
SetConfigAndCopy(c) == SetConfig(c) /\ copy' = c

Init ==
  /\ cfg = SignedOut /\ copy = SignedOut /\ saved = SignedOut /\ failed = FALSE
  /\ login = [t \in Tokens |-> "none"]
  /\ whoami = [t \in Tokens |-> "none"]
  /\ revoked = {} /\ ended = {}
  /\ launches = 0

-----------------------------------------------------------------------------
(* Logins.                                                                  *)

\* The login surfaces are shown while signed out.  Cancelling the form, or
\* starting another login, does not cancel one that is under way.
StartLogin(t) ==
  /\ ~SignedIn
  /\ login[t] = "none"
  /\ login' = [login EXCEPT ![t] = "asked"]
  /\ UNCHANGED <<files, whoami, revoked, ended, launches>>

\* The server issues the token, or the login fails or times out.
LoginAnswers(t) ==
  /\ login[t] = "asked"
  /\ \E answer \in {"granted", "done"} : login' = [login EXCEPT ![t] = answer]
  /\ UNCHANGED <<files, whoami, revoked, ended, launches>>

\* Faulty variants, used by no action, are named ...Fault...
\* Fault: the settings view keeps its copy, and the file waits for the next save.
ApplyLoginFaultUnsaved(t) ==
  /\ login[t] = "granted"
  /\ login' = [login EXCEPT ![t] = "done"]
  /\ cfg' = [cfg EXCEPT !.token = t, !.account = Owner[t]]
  /\ whoami' = [whoami EXCEPT ![t] = "asked"]
  /\ UNCHANGED <<copy, saved, failed, revoked, ended, launches>>

\* apply_login, whatever session is current; it also sends a whoami.
ApplyLogin(t) ==
  /\ login[t] = "granted"
  /\ login' = [login EXCEPT ![t] = "done"]
  /\ SetConfigAndCopy([cfg EXCEPT !.token = t, !.account = Owner[t]])
  /\ whoami' = [whoami EXCEPT ![t] = "asked"]
  /\ UNCHANGED <<revoked, ended, launches>>

-----------------------------------------------------------------------------
(* Ends of a session.                                                       *)

\* Fault: the settings view is not told.
InvalidateFaultStaleCopy ==
  /\ SetConfig(SignedOut)
  /\ ended' = ended \cup ({cfg.token} \ {None})
  /\ UNCHANGED copy

\* invalidate_cloud_session: the identity is cleared; PortForwards and
\* SshSessions say what becomes of the tunnels and terminals it stops.
Invalidate ==
  /\ SetConfigAndCopy(SignedOut)
  /\ ended' = ended \cup ({cfg.token} \ {None})

\* The token is revoked in the background, best effort: see Revoke.
Logout ==
  /\ SignedIn
  /\ Invalidate
  /\ UNCHANGED <<requests, launches>>

\* The revocation of a logout, or one made in the portal.
Revoke(t) ==
  /\ login[t] = "done" /\ t \notin revoked
  /\ revoked' = revoked \cup {t}
  /\ UNCHANGED <<files, login, whoami, ended, launches>>

-----------------------------------------------------------------------------
(* Whoami.                                                                  *)

WhoamiAnswers(t) ==
  /\ whoami[t] = "asked"
  /\ \E answer \in {IF t \in revoked THEN "rejected" ELSE "ok", "offline"} :
       whoami' = [whoami EXCEPT ![t] = answer]
  /\ UNCHANGED <<files, login, revoked, ended, launches>>

\* The account of the answer is adopted and saved, without refreshing the
\* settings view; an answer without a name, or none at all, changes only a dot.
ApplyWhoami(t) ==
  /\ whoami[t] \in {"ok", "offline"}
  /\ whoami' = [whoami EXCEPT ![t] = "none"]
  /\ IF whoami[t] = "ok"
     THEN SetConfig([cfg EXCEPT !.account = Owner[t]]) /\ UNCHANGED copy
     ELSE UNCHANGED files
  /\ UNCHANGED <<login, revoked, ended, launches>>

\* A rejection ends the current session.
ApplyRejection(t) ==
  /\ whoami[t] = "rejected"
  /\ whoami' = [whoami EXCEPT ![t] = "none"]
  /\ Invalidate
  /\ UNCHANGED <<login, revoked, launches>>

-----------------------------------------------------------------------------
(* Other saves of the configuration.                                        *)

\* select_site: saved, not copied.
SelectSite ==
  /\ SignedIn
  /\ \E s \in Sites \cup {None} : SetConfig([cfg EXCEPT !.site = s])
  /\ UNCHANGED <<copy, requests, ended, launches>>

\* Pinning a connection touches none of the three; it does refresh the copy.
PinConnection ==
  /\ SignedIn
  /\ SetConfigAndCopy(cfg)
  /\ UNCHANGED <<requests, ended, launches>>

\* A setting is changed, at any time (an autostart request may finish after a
\* logout): the settings view saves its whole copy; the workspace takes over
\* the slices that settings own and none of these.
SettingsSave ==
  /\ Write(copy)
  /\ UNCHANGED <<cfg, copy, requests, ended, launches>>

-----------------------------------------------------------------------------
\* The program ends at any moment and starts again from its configuration:
\* what was in flight is forgotten, and a whoami is sent with the saved token.
Relaunch ==
  /\ launches < MaxLaunches
  /\ launches' = launches + 1
  /\ cfg' = saved /\ copy' = saved
  /\ login' = [t \in Tokens |-> IF login[t] = "none" THEN "none" ELSE "done"]
  /\ whoami' = [t \in Tokens |-> IF t = saved.token THEN "asked" ELSE "none"]
  /\ UNCHANGED <<saved, failed, revoked, ended>>

TokenStep(t) == \/ StartLogin(t)
                \/ LoginAnswers(t)
                \/ ApplyLogin(t)
                \/ Revoke(t)
                \/ WhoamiAnswers(t)
                \/ ApplyWhoami(t)
                \/ ApplyRejection(t)

ConfigStep == SelectSite \/ PinConnection \/ SettingsSave

Next == (\E t \in Tokens : TokenStep(t)) \/ Logout \/ ConfigStep \/ Relaunch

Spec == Init /\ [][Next]_vars

-----------------------------------------------------------------------------
(* Properties                                                               *)

Configs == [token : Tokens \cup {None}, account : Accounts \cup {None},
            site : Sites \cup {None}]

\* Every variable has its type.
TypeOK ==
  /\ cfg \in Configs /\ copy \in Configs /\ saved \in Configs
  /\ failed \in BOOLEAN
  /\ login \in [Tokens -> {"none", "asked", "granted", "done"}]
  /\ whoami \in [Tokens -> {"none", "asked", "ok", "rejected", "offline"}]
  /\ revoked \subseteq Tokens /\ ended \subseteq Tokens
  /\ launches \in 0..MaxLaunches

\* As long as saves succeed, a session that was ended here never comes back:
\* neither a late answer, nor a second login, nor a setting saved from a copy,
\* nor a crash and a new launch makes its token current again.
EndedStaysEnded ==
  ~failed => cfg.token \notin ended /\ saved.token \notin ended

\* As long as saves succeed, the next launch after a crash has the token of the
\* session that was shown, whoever saved the file last.
CrashKeepsToken == ~failed => saved.token = cfg.token

-----------------------------------------------------------------------------
(* What the documents say and the code does not do.                         *)

\* "... so runtime authority cannot cross an account boundary": the roles that
\* gate the modes are those of the account whose token is used.
RolesFollowToken == SignedIn => cfg.account = Owner[cfg.token]

\* "warn once if the token was revoked remotely": a session that is not logged
\* out ends only when its own token is rejected.
OnlyItsRejectionEndsASession ==
  [][cfg.token # None /\ cfg'.token = None /\ ~Logout
       => cfg.token \in revoked \/ Relaunch]_vars

\* "Select the active site ...: persist it": the site shown is the one the next
\* launch finds.
SiteIsPersisted == ~failed => saved.site = cfg.site
=============================================================================
