------------------------------ MODULE ExtensionLink ------------------------------
(***************************************************************************)
(* How the extension gets and loses its access (extension/connection.js,   *)
(* background.js, frontend ConnectExtensionPage.tsx and services/auth.ts,  *)
(* backend auth/extension_router.py and extension_tokens.py).              *)
(*                                                                         *)
(* The extension begins a request and opens a tab of the platform; there   *)
(* the user, signed in, confirms; the backend issues a code for the login  *)
(* and the extension's challenge; the extension exchanges it for a grant.  *)
(* Signing out of the platform revokes what the login has granted.  The    *)
(* extension's messages wait for one lock; its calls, the platform's and   *)
(* the backend's transactions interleave, calls time out and are served    *)
(* late, and the worker that handles a message may be killed.  Times are   *)
(* choices: a code, a grant, a login or a request may expire at any step.  *)
(***************************************************************************)
EXTENDS Naturals, FiniteSets, Sequences, SequencesExt

CONSTANTS MaxLogins,   \* bounds: logins of the platform, authorisations the
          MaxGrants,   \* backend stores and connection requests of the extension
          MaxRequests,
          MaxEvents,   \* bound: what users, clocks and failures do
          GrantLimit   \* live grants of one login (20 in the code)

ASSUME LinkConstants == {MaxLogins, MaxGrants, MaxRequests, MaxEvents, GrantLimit} \subseteq Nat

Logins == 1..MaxLogins
Grants == 1..MaxGrants
LinkStates == 1..MaxRequests

VARIABLES
    login,    \* login in the platform's storage, 0 when signed out
    latest,   \* latest login there was
    revoked,  \* logins signed out at the backend
    lapsed,   \* logins whose token has expired
    grants,   \* the backend's grants
    known,    \* the platform remembers the extension
    connect,  \* tab of the platform for each request
    pending,  \* jobpilotPending, 0 when there is none
    begun,    \* requests so far
    linked,   \* jobpilotSession: grant of the extension, 0 when there is none
    handler,  \* message that holds the lock
    inbox,    \* messages that wait for it, first come first served
    calls,    \* calls under way at the backend
    events,   \* bound: events so far
    lost      \* ghost: grants whose exchange the extension has given up
linkVars == <<login, latest, revoked, lapsed, grants, known, connect, pending, begun,
              linked, handler, inbox, calls, events, lost>>
siteVars == <<login, latest, revoked, lapsed, known>>
extensionVars == <<pending, begun, linked, handler, inbox, lost>>

NoGrant == [login |-> 0, challenge |-> 0, code |-> "none", use |-> "none", revoked |-> FALSE]
NoTab == [stage |-> "none", login |-> 0, grant |-> 0]
Idle == [kind |-> "none", grant |-> 0, answer |-> "none"]
Call(kind, l, g, s) == [kind |-> kind, login |-> l, grant |-> g, state |-> s, checked |-> FALSE]
Message(kind, s, g) == [kind |-> kind, state |-> s, grant |-> g]

LinkInit ==
    /\ login = 0 /\ latest = 0 /\ revoked = {} /\ lapsed = {}
    /\ grants = [g \in Grants |-> NoGrant]
    /\ known \in BOOLEAN
    /\ connect = [s \in LinkStates |-> NoTab]
    /\ pending = 0 /\ begun = 0 /\ linked = 0
    /\ handler = Idle /\ inbox = <<>> /\ calls = {} /\ events = 0 /\ lost = {}

\* extension_grant: a consumed, unexpired, unrevoked grant of an unrevoked login.
Usable(g) ==
    /\ grants[g].use = "live" /\ ~grants[g].revoked
    /\ grants[g].login \notin revoked \union lapsed

\* notifyExtensionSignedOut
Notified == IF known THEN Append(inbox, Message("signed-out", 0, 0)) ELSE inbox

\* Bound: so many events of users, clocks and failures.
Counted == events < MaxEvents /\ events' = events + 1
-------------------------------------------------------------------------------
(* The platform *)

\* A login: other tabs of the platform take the changed token for a sign-out.
SignIn ==
    /\ login = 0 /\ latest + 1 \in Logins
    /\ login' = latest + 1 /\ latest' = latest + 1
    /\ inbox' \in {inbox, Notified}
    /\ UNCHANGED <<events, revoked, lapsed, grants, known, connect, pending, begun, linked, handler,
                   calls, lost>>

\* logoutPlatform: the backend is asked first.
SignOut ==
    /\ Counted
    /\ login # 0 /\ Call("logout", login, 0, 0) \notin calls
    /\ calls' = calls \union {Call("logout", login, 0, 0)}
    /\ UNCHANGED <<siteVars, grants, connect, extensionVars>>

\* removeToken, after the revocation or a 401 to this login.
RemoveToken ==
    /\ login \in revoked \union lapsed
    /\ login' = 0 /\ inbox' = Notified
    /\ UNCHANGED <<events, latest, revoked, lapsed, grants, known, connect, pending, begun, linked,
                   handler, calls, lost>>

\* connection-details: the tab learns the challenge of its request.
InspectRequest(s) ==
    /\ handler = Idle /\ pending = s /\ login # 0
    /\ connect[s].stage \in {"none", "ready"} /\ connect[s].login # login
    /\ connect' = [connect EXCEPT ![s] = [NoTab EXCEPT !.stage = "ready", !.login = login]]
    /\ UNCHANGED <<events, siteVars, grants, extensionVars, calls>>

\* The user confirms, under the login the tab has shown.
Confirm(s) ==
    /\ connect[s].stage = "ready" /\ login = connect[s].login
    /\ connect' = [connect EXCEPT ![s].stage = "authorizing"]
    /\ calls' = calls \union {Call("authorize", login, 0, s)}
    /\ UNCHANGED <<events, siteVars, grants, extensionVars>>

\* The code goes to the extension unless the login has changed meanwhile.
Deliver(s) ==
    /\ connect[s].stage = "deliver"
    /\ IF login = connect[s].login
       THEN /\ inbox' = Append(inbox, Message("complete", s, connect[s].grant))
            /\ connect' = [connect EXCEPT ![s].stage = "sent"]
       ELSE /\ connect' = [connect EXCEPT ![s].stage = "ready"]
            /\ UNCHANGED inbox
    /\ UNCHANGED <<events, siteVars, grants, pending, begun, linked, handler, calls, lost>>

\* The call failed or timed out: the user may confirm again.
TabGivesUp(s) ==
    /\ Counted
    /\ connect[s].stage \in {"authorizing", "deliver", "sent"}
    /\ connect' = [connect EXCEPT ![s].stage = "ready"]
    /\ UNCHANGED <<siteVars, grants, extensionVars, calls>>
-------------------------------------------------------------------------------
(* The backend *)

\* logout, once: the login is revoked with its grants.
HandleLogout(c) ==
    /\ c \in calls /\ c.kind = "logout"
    /\ revoked' = revoked \union {c.login}
    /\ grants' = [g \in Grants |-> [grants[g] EXCEPT !.revoked = @ \/ grants[g].login = c.login]]
    /\ calls' = calls \ {c}
    /\ UNCHANGED <<events, login, latest, lapsed, known, connect, extensionVars>>

\* authorize: the login is checked and its live grants are counted ...
CheckLogin(c) ==
    /\ c \in calls /\ c.kind = "authorize" /\ ~c.checked
    /\ calls' = (calls \ {c}) \union
                IF c.login \notin revoked \union lapsed
                   /\ Cardinality({g \in Grants : grants[g].login = c.login}) < GrantLimit
                THEN {[c EXCEPT !.checked = TRUE]} ELSE {}
    /\ UNCHANGED <<events, siteVars, grants, connect, extensionVars>>

\* ... and the grant is stored, whatever became of the login meanwhile.
StoreGrant(c) ==
    LET g == Cardinality({h \in Grants : grants[h] # NoGrant}) + 1
    IN  /\ c \in calls /\ c.kind = "authorize" /\ c.checked /\ g \in Grants
        /\ grants' = [grants EXCEPT ![g] =
               [NoGrant EXCEPT !.login = c.login, !.challenge = c.state, !.code = "fresh"]]
        /\ connect' = IF connect[c.state].stage = "authorizing" /\ connect[c.state].login = c.login
                      THEN [connect EXCEPT ![c.state].stage = "deliver", ![c.state].grant = g]
                      ELSE connect
        /\ calls' = calls \ {c}
        /\ UNCHANGED <<events, siteVars, extensionVars>>

\* The extension that waits for a call hears its answer.
Answered(c, answer) ==
    handler' = IF handler.grant = c.grant /\ handler.kind # "none"
               THEN [handler EXCEPT !.answer = answer] ELSE handler

\* exchange: the code, its challenge and its login are checked ...
CheckCode(c) ==
    /\ c \in calls /\ c.kind = "exchange" /\ ~c.checked
    /\ IF /\ grants[c.grant].code = "fresh" /\ grants[c.grant].challenge = c.state
          /\ ~grants[c.grant].revoked /\ grants[c.grant].login \notin revoked \union lapsed
       THEN calls' = (calls \ {c}) \union {[c EXCEPT !.checked = TRUE]} /\ UNCHANGED handler
       ELSE calls' = calls \ {c} /\ Answered(c, "refused")
    /\ UNCHANGED <<events, siteVars, grants, connect, pending, begun, linked, inbox, lost>>

\* What the UPDATE asks for, at the time it runs.
Consumable(g) == grants[g].code = "fresh" /\ ~grants[g].revoked

\* ... and a conditional UPDATE consumes it.
ConsumeCode(c) ==
    /\ c \in calls /\ c.kind = "exchange" /\ c.checked
    /\ IF Consumable(c.grant)
       THEN /\ grants' = [grants EXCEPT ![c.grant].code = "used", ![c.grant].use = "live"]
            /\ Answered(c, "done")
       ELSE UNCHANGED grants /\ Answered(c, "refused")
    /\ calls' = calls \ {c}
    /\ UNCHANGED <<events, siteVars, connect, pending, begun, linked, inbox, lost>>

\* disconnect: 204, or 401 when the grant was not usable any more; both are fine.
HandleDisconnect(c) ==
    /\ c \in calls /\ c.kind = "disconnect"
    /\ grants' = IF Usable(c.grant) THEN [grants EXCEPT ![c.grant].revoked = TRUE] ELSE grants
    /\ Answered(c, "done")
    /\ calls' = calls \ {c}
    /\ UNCHANGED <<events, siteVars, connect, pending, begun, linked, inbox, lost>>

\* The clock: a code after 90 seconds, a grant after 8 hours, a login's token.
Expire ==
    /\ Counted
    /\ \/ \E g \in Grants : /\ grants[g].code = "fresh"
                            /\ grants' = [grants EXCEPT ![g].code = "stale"]
                            /\ UNCHANGED <<lapsed, pending>>
       \/ \E g \in Grants : /\ grants[g].use = "live"
                            /\ grants' = [grants EXCEPT ![g].use = "over"]
                            /\ UNCHANGED <<lapsed, pending>>
       \/ /\ latest # 0 /\ lapsed' = lapsed \union {latest}
          /\ UNCHANGED <<grants, pending>>
       \/ pending # 0 /\ pending' = 0 /\ UNCHANGED <<grants, lapsed>>
    /\ UNCHANGED <<login, latest, revoked, known, connect, begun, linked, handler, inbox,
                   calls, lost>>
-------------------------------------------------------------------------------
(* The extension *)

\* The popup asks to connect, or to disconnect.
Ask(kind) ==
    /\ Message(kind, 0, 0) \notin ToSet(inbox)
    /\ inbox' = Append(inbox, Message(kind, 0, 0))
    /\ UNCHANGED <<siteVars, grants, connect, pending, begun, linked, handler, calls, lost>>
AskToDisconnect == Counted /\ Ask("disconnect")
AskToConnect ==
    /\ begun < MaxRequests /\ handler.kind # "begin" \* bound: as many requests as there may be
    /\ Ask("begin")
    /\ UNCHANGED events

\* navigator.locks: the message that has waited longest gets the lock.
Served(m) == handler = Idle /\ m = Head(inbox)

\* Mutant: a new request leaves the old grant alone.
ForgetOld == FALSE

\* The grant the extension holds must be disconnected first.
HoldsGrant == linked # 0

NewRequest == begun + 1 \in LinkStates /\ begun' = begun + 1 /\ pending' = begun + 1

\* handle begin, disconnect: the old grant is disconnected, and awaited.
TakeEnding(m) ==
    /\ Served(m) /\ m.kind \in {"begin", "disconnect"}
    /\ inbox' = Tail(inbox)
    /\ IF HoldsGrant
       THEN /\ handler' = [Idle EXCEPT !.kind = m.kind, !.grant = linked]
            /\ calls' = calls \union {Call("disconnect", 0, linked, 0)}
            /\ UNCHANGED <<pending, begun, linked>>
       ELSE /\ linked' = 0
            /\ IF m.kind = "begin" THEN NewRequest ELSE pending' = 0 /\ UNCHANGED begun
            /\ UNCHANGED <<handler, calls>>
    /\ UNCHANGED <<events, siteVars, grants, connect, lost>>

\* platform-signed-out
TakeSignedOut(m) ==
    /\ Served(m) /\ m.kind = "signed-out"
    /\ inbox' = Tail(inbox) /\ linked' = 0 /\ pending' = 0
    /\ UNCHANGED <<events, siteVars, grants, connect, begun, handler, calls, lost>>

\* complete: the pending request must be this one, and is spent before the exchange.
TakeComplete(m) ==
    /\ Served(m) /\ m.kind = "complete"
    /\ inbox' = Tail(inbox)
    /\ IF pending = m.state
       THEN /\ pending' = 0
            /\ handler' = [Idle EXCEPT !.kind = "complete", !.grant = m.grant]
            /\ calls' = calls \union {Call("exchange", 0, m.grant, m.state)}
       ELSE UNCHANGED <<pending, handler, calls>>
    /\ UNCHANGED <<events, siteVars, grants, connect, begun, linked, lost>>

\* The awaited answer.  The tab remembers the extension if it still listens.
FinishMessage ==
    /\ handler.answer # "none"
    /\ handler' = Idle
    /\ \/ /\ handler.answer = "refused"
          /\ UNCHANGED <<pending, begun, linked, known>>
       \/ /\ handler.answer = "done" /\ handler.kind = "complete"
          /\ linked' = handler.grant /\ known' \in {known, TRUE} /\ UNCHANGED <<pending, begun>>
       \/ /\ handler.answer = "done" /\ handler.kind = "begin"
          /\ linked' = 0 /\ NewRequest /\ UNCHANGED known
       \/ /\ handler.answer = "done" /\ handler.kind = "disconnect"
          /\ linked' = 0 /\ pending' = 0 /\ UNCHANGED <<begun, known>>
    /\ UNCHANGED <<events, login, latest, revoked, lapsed, grants, connect, inbox, calls, lost>>

\* The call times out after 15 seconds, or the worker is killed: the lock is free
\* and the call may still be served.
Abandon ==
    /\ Counted
    /\ handler # Idle
    /\ handler' = Idle
    /\ lost' = IF handler.kind = "complete" THEN lost \union {handler.grant} ELSE lost
    /\ UNCHANGED <<siteVars, grants, connect, pending, begun, linked, inbox, calls>>

\* signOut of the popup, when a call of it was answered with 401.
PopupSignsOut ==
    /\ handler = Idle /\ linked # 0 /\ ~Usable(linked)
    /\ linked' = 0
    /\ UNCHANGED <<events, siteVars, grants, connect, pending, begun, handler, inbox, calls, lost>>
-------------------------------------------------------------------------------
LinkNext ==
    \/ SignIn \/ SignOut \/ RemoveToken \/ Expire
    \/ \E s \in LinkStates : InspectRequest(s) \/ Confirm(s) \/ Deliver(s) \/ TabGivesUp(s)
    \/ \E c \in calls : HandleLogout(c) \/ CheckLogin(c) \/ StoreGrant(c)
                            \/ CheckCode(c) \/ ConsumeCode(c) \/ HandleDisconnect(c)
    \/ AskToConnect \/ AskToDisconnect
    \/ \E m \in ToSet(inbox) : TakeEnding(m) \/ TakeSignedOut(m) \/ TakeComplete(m)
    \/ FinishMessage \/ Abandon \/ PopupSignsOut

LinkSpec == LinkInit /\ [][LinkNext]_linkVars
-------------------------------------------------------------------------------
(* Properties *)

\* Every variable has its type.
LinkTypes ==
    /\ login \in Logins \union {0} /\ latest \in Logins \union {0} /\ login <= latest
    /\ revoked \union lapsed \subseteq Logins
    /\ \A g \in Grants : grants[g].login \in Logins \union {0}
                            /\ grants[g].challenge \in LinkStates \union {0}
    /\ pending \in LinkStates \union {0} /\ begun \in LinkStates \union {0} /\ pending <= begun
    /\ linked \in Grants \union {0} /\ lost \subseteq Grants

\* A login that has been signed out has no exchanged grant whose revocation is not
\* recorded on the grant itself, however its authorisations and exchanges raced the
\* sign-out (logout updates the grants it finds; extension_router.py:111).
LoggedOutIsCutOff ==
    \A g \in Grants :
        grants[g].login \in revoked /\ grants[g].use = "live" => grants[g].revoked

\* A grant that can be used is the one the extension holds, or about to be: a new
\* connection leaves none behind, unless its exchange was given up unanswered.
NoGrantLeftBehind ==
    \A g \in Grants : Usable(g) =>
        g = linked \/ g \in lost \/ (handler.kind = "complete" /\ handler.grant = g)

\* While a request is pending the extension holds no grant.
PendingMeansDisconnected == pending = 0 \/ linked = 0

\* The extension is given a grant only for a code that answers its own request, and
\* a code is never exchanged once its login has been signed out.
ExchangesAreTimely ==
    [][\A g \in Grants : (grants'[g].use = "live" /\ grants[g].use # "live") =>
           /\ grants[g].login \notin revoked
           /\ [Call("exchange", 0, g, grants[g].challenge) EXCEPT !.checked = TRUE] \in calls]_linkVars
===============================================================================
