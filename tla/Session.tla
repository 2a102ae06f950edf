-------------------------------- MODULE Session --------------------------------
(***************************************************************************)
(* The session of the browser client: lib/api.ts (tokens, refresh, retry), *)
(* lib/auth.tsx (AuthProvider), routes/guards.tsx and the pages that start *)
(* and end a session.  Several tabs of one browser share the refresh token *)
(* in localStorage; each keeps its own access token in memory.  The server *)
(* rotates refresh tokens: one that is used is blacklisted and replaced.   *)
(*                                                                         *)
(* A tab runs at most two calls of api() at a time: the query ['me'] and   *)
(* one on behalf of the user.  They share one refresh, whose promise and   *)
(* the calls awaiting it continue in one step (microtasks).  The answer of *)
(* a query dropped by queryClient.clear() is ignored; a query that waits   *)
(* for the connection to come back is under way.  One user account.        *)
(***************************************************************************)
EXTENDS Naturals

CONSTANTS Tab,      \* tabs of the browser
          Token,    \* refresh tokens, in the order they are issued
          NoToken,  \* nothing under "bbm.refresh"
          Does      \* what the user of each tab does: a set of Commands, "reload",
                    \* "reconnect" and "stay", to be there when the access token expires

ASSUME TokenAssumption == Token \subseteq Nat /\ NoToken \notin Token

VARIABLES
  stored,      \* localStorage["bbm.refresh"]
  fate,        \* what became of each refresh token on the server
  temporary,   \* the account is on a temporary password
  access,      \* each tab: accessToken
  hasSession,  \* each tab: AuthProvider's hasSession
  me,          \* each tab: what the query ['me'] holds
  page,        \* each tab: the route it is on
  refresh,     \* each tab: the shared promise `refreshing`
  call,        \* each tab: its calls of api()
  removed      \* each tab: undelivered storage events of the key's removal

server  == <<fate, temporary>>
vars    == <<stored, fate, temporary, access, hasSession, me, page, refresh, call, removed>>

Slot     == {"me", "user"}
Commands == {"login", "changePassword", "logout", "reset", "query"}
\* What changes something on the server.
Writing  == {"login", "changePassword", "logout", "reset", "resetLoggedIn"}
\* auth: false
Open     == {"login", "reset", "resetLoggedIn"}

NoRefresh == [state |-> "none", sent |-> NoToken, retried |-> FALSE, new |-> NoToken]
NoCall    == [kind |-> "none", pc |-> "idle", bearer |-> "none", body |-> NoToken,
              again |-> FALSE, answer |-> "none", token |-> NoToken]

Idle(t, s) == call[t][s].pc = "idle"

\* readRefresh() and tokenStore.clear(): other tabs get a storage event only
\* if there was something to remove.
Announced(t) ==
  [u \in Tab |-> IF u # t /\ stored # NoToken THEN removed[u] + 1 ELSE removed[u]]

-----------------------------------------------------------------------------
\* doRefresh(retried), up to its await
Ask(retried) == [state |-> "sent", sent |-> stored, retried |-> retried, new |-> NoToken]

\* refreshTokens(): concurrent callers share one request.
RefreshTokens(t) ==
  refresh' = IF refresh[t].state = "none" THEN [refresh EXCEPT ![t] = Ask(FALSE)] ELSE refresh

\* api() up to its first await: without an access token, refresh first.
RefreshFirst(t, kind) == kind \notin Open /\ access[t] = "none" /\ stored # NoToken
Entered(t, kind, body) ==
  [NoCall EXCEPT !.kind = kind, !.body = body, !.bearer = access[t],
                 !.pc = IF RefreshFirst(t, kind) THEN "waiting" ELSE "sent"]

Api(t, s, kind, body) ==
  /\ call' = [call EXCEPT ![t][s] = Entered(t, kind, body)]
  /\ IF RefreshFirst(t, kind) THEN RefreshTokens(t) ELSE UNCHANGED refresh

\* The calls awaiting a refresh go on when it resolves to ok, the access token
\* then being a: before the first send always, after a 401 only if it is TRUE.
Woken(calls, ok, a) ==
  [s \in Slot |->
     IF calls[s].pc # "waiting" THEN calls[s]
     ELSE IF calls[s].again /\ ~ok THEN [calls[s] EXCEPT !.pc = "answered", !.answer = "401"]
     ELSE [calls[s] EXCEPT !.pc = "sent", !.bearer = a]]

\* endSession(): what it leaves of a tab's calls.  queryClient.clear() rejects
\* the fetch of ['me'], and so a startSession() that awaits it.
Ended(calls) ==
  [s \in Slot |-> IF s = "me" \/ calls[s].pc = "starting" THEN NoCall ELSE calls[s]]
EndSession(t) ==
  /\ stored' = NoToken
  /\ access' = [access EXCEPT ![t] = "none"]
  /\ hasSession' = [hasSession EXCEPT ![t] = FALSE]
  /\ me' = [me EXCEPT ![t] = "absent"]

-----------------------------------------------------------------------------
\* The query ['me'] after a 401 and after any other error, without data and
\* beside the data of an earlier fetch.
Denied == {"denied", "barred"}
Failed == {"failed", "broken"}

\* A fetch of a query that has no data drops the error; one that has keeps it.
Fetching(held) == IF held \in {"denied", "failed"} THEN "absent" ELSE held

\* AuthProvider's status
Status(t) ==
  CASE ~hasSession[t] \/ me[t] \in Denied                -> "anonymous"
    [] hasSession[t] /\ me[t] \in {"loaded", "temporary"} -> "authenticated"
    [] hasSession[t] /\ me[t] \in Failed                 -> "error"
    [] OTHER                                             -> "loading"

\* What the guards show once they have redirected.  A visitor sent to /login
\* comes back to the page he asked for.
RequireAuth(t) ==
  CASE Status(t) \in {"loading", "error"}    -> Status(t)
    [] Status(t) = "anonymous"               -> "login"
    [] Status(t) = "authenticated" /\ me[t] = "temporary" -> "password"
    [] OTHER                                 -> page[t]
Screen(t) == IF page[t] = "reset" THEN "reset" ELSE RequireAuth(t)

-----------------------------------------------------------------------------
\* A tab that has just loaded: the session is in localStorage or there is none.
Loaded(t, token) ==
  [s \in Slot |-> IF s = "me" /\ token # NoToken
                  THEN [NoCall EXCEPT !.kind = "me", !.pc = "waiting"] ELSE NoCall]
LoadedRefresh(token) ==
  IF token = NoToken THEN NoRefresh ELSE [NoRefresh EXCEPT !.state = "sent", !.sent = token]

Init ==
  /\ \E token \in {NoToken} \cup {n \in Token : \A m \in Token : n <= m} :
       /\ stored = token
       /\ fate = [n \in Token |-> IF n = token THEN "alive" ELSE "unused"]
       /\ hasSession = [t \in Tab |-> token # NoToken]
       /\ call = [t \in Tab |-> Loaded(t, token)]
       /\ refresh = [t \in Tab |-> LoadedRefresh(token)]
  /\ temporary \in BOOLEAN
  /\ access = [t \in Tab |-> "none"]
  /\ me = [t \in Tab |-> "absent"]
  /\ page \in [Tab -> {"app", "reset"}]
  /\ \A t \in Tab : page[t] = "reset" => "reset" \in Does[t]
  /\ removed = [t \in Tab |-> 0]

\* Nobody will hear of the successor of a token whose answer is dropped.
Forsake(t) ==
  IF refresh[t].state = "answered" THEN [fate EXCEPT ![refresh[t].sent] = "forsaken"] ELSE fate

\* The page is reloaded, or closed and opened again, once it shows something.
\* A request under way is handled by now or never.
Reload(t) ==
  /\ "reload" \in Does[t] /\ Screen(t) # "loading"
  /\ fate' = Forsake(t)
  /\ access' = [access EXCEPT ![t] = "none"]
  /\ hasSession' = [hasSession EXCEPT ![t] = stored # NoToken]
  /\ me' = [me EXCEPT ![t] = "absent"]
  /\ call' = [call EXCEPT ![t] = Loaded(t, stored)]
  /\ refresh' = [refresh EXCEPT ![t] = LoadedRefresh(stored)]
  /\ removed' = [removed EXCEPT ![t] = 0]
  /\ UNCHANGED <<stored, temporary, page>>

\* The access token reaches the end of its 20 minutes.
Expire(t) ==
  /\ access[t] = "fresh" /\ "stay" \in Does[t]
  /\ access' = [access EXCEPT ![t] = "stale"]
  /\ UNCHANGED <<stored, server, hasSession, me, page, refresh, call, removed>>

\* The shell's link to /change-password and the link back.
Visit(t, p) ==
  /\ Screen(t) \in {"app", "password"} /\ page[t] # p /\ p \in {"app", "password"}
  /\ me[t] = "loaded" /\ Idle(t, "user")
  /\ page' = [page EXCEPT ![t] = p]
  /\ UNCHANGED <<stored, server, access, hasSession, me, refresh, call, removed>>

-----------------------------------------------------------------------------
\* The calls.  ['me'] is fetched on mount, on retry(), the button of the error
\* screen, and when the connection comes back a minute later.
FetchMe(t) ==
  /\ Idle(t, "me")
  /\ \/ Status(t) = "error"
     \/ hasSession[t] /\ me[t] # "absent" /\ "reconnect" \in Does[t]
  /\ Api(t, "me", "me", NoToken)
  /\ me' = [me EXCEPT ![t] = Fetching(@)]
  /\ UNCHANGED <<stored, server, access, hasSession, page, removed>>

\* LoginPage and RegisterPage submit; both post without a bearer token.
Login(t) ==
  /\ Screen(t) = "login" /\ Idle(t, "user") /\ "login" \in Does[t]
  /\ Api(t, "user", "login", NoToken)
  /\ UNCHANGED <<stored, server, access, hasSession, me, page, removed>>

\* ChangePasswordPage submits.
ChangePassword(t) ==
  /\ Screen(t) = "password" /\ Idle(t, "user") /\ "changePassword" \in Does[t]
  /\ Api(t, "user", "changePassword", NoToken)
  /\ UNCHANGED <<stored, server, access, hasSession, me, page, removed>>

\* logout(), from the shell or from the forced change of password: the token it
\* hands in is read now.
Logout(t) ==
  /\ Screen(t) = "app" \/ (Screen(t) = "password" /\ me[t] = "temporary")
  /\ Idle(t, "user") /\ "logout" \in Does[t]
  /\ IF stored # NoToken
     THEN /\ Api(t, "user", "logout", stored)
          /\ UNCHANGED <<stored, access, hasSession, me>>
     ELSE /\ EndSession(t)
          /\ call' = [call EXCEPT ![t] = Ended(call[t])]
          /\ UNCHANGED refresh
  /\ UNCHANGED <<server, page, removed>>

\* ResetPasswordPage submits the token of its link; whether it logs out
\* afterwards is the status it was rendered with.
ResetPassword(t) ==
  /\ Screen(t) = "reset" /\ Idle(t, "user") /\ "reset" \in Does[t]
  /\ Api(t, "user", IF Status(t) = "authenticated" THEN "resetLoggedIn" ELSE "reset", NoToken)
  /\ UNCHANGED <<stored, server, access, hasSession, me, page, removed>>

\* Any query or operation of a page of the shell.
Query(t) ==
  /\ Screen(t) = "app" /\ Idle(t, "user") /\ "query" \in Does[t]
  /\ Api(t, "user", "query", NoToken)
  /\ UNCHANGED <<stored, server, access, hasSession, me, page, removed>>

-----------------------------------------------------------------------------
\* The server.
NextToken(n) == fate[n] = "unused" /\ \A m \in Token : fate[m] = "unused" => n <= m
Revoked(tokens) == [n \in Token |-> IF n \in tokens /\ fate[n] = "alive" THEN "revoked" ELSE fate[n]]

\* RefreshView: whether the token is blacklisted.
CheckToken(t) ==
  /\ refresh[t].state = "sent"
  /\ refresh' = [refresh EXCEPT
       ![t].state = IF fate[refresh[t].sent] = "alive" THEN "checked" ELSE "refused"]
  /\ UNCHANGED <<stored, server, access, hasSession, me, page, call, removed>>

\* RefreshView: the rotation, by statements of its own.  Whatever has become of
\* the token since it was checked, it is blacklisted and another one issued, so
\* two refreshes with one token may both succeed.
RotateToken(t) ==
  /\ refresh[t].state = "checked"
  /\ \E n \in Token :
       /\ NextToken(n)
       /\ fate' = [fate EXCEPT ![refresh[t].sent] = "spent", ![n] = "alive"]
       /\ refresh' = [refresh EXCEPT ![t].state = "answered", ![t].new = n]
  /\ UNCHANGED <<stored, temporary, access, hasSession, me, page, call, removed>>

\* What needs a bearer token is not carried out without a valid one.
Reached(t, kinds) ==
  LET c == call[t]["user"] IN
    c.pc = "sent" /\ c.kind \in kinds /\ (c.kind \in Open \/ c.bearer = "fresh")

Reply(t, token) ==
  call' = [call EXCEPT ![t]["user"].pc = "answered", ![t]["user"].answer = "ok",
                       ![t]["user"].token = token]

\* LoginView and RegisterView: a pair of tokens.
ServeLogin(t) ==
  /\ Reached(t, {"login"})
  /\ \E n \in Token : /\ NextToken(n)
                      /\ fate' = [fate EXCEPT ![n] = "alive"]
                      /\ Reply(t, n)
  /\ UNCHANGED temporary

\* change_own_password() ends the sessions, then its view issues a new pair.
ServeChangePassword(t) ==
  /\ Reached(t, {"changePassword"})
  /\ \E n \in Token : /\ NextToken(n)
                      /\ fate' = [Revoked(Token) EXCEPT ![n] = "alive"]
                      /\ Reply(t, n)
  /\ temporary' = FALSE

\* LogoutView blacklists the token handed in.
ServeLogout(t) ==
  /\ Reached(t, {"logout"})
  /\ fate' = Revoked({call[t]["user"].body})
  /\ Reply(t, NoToken)
  /\ UNCHANGED temporary

\* confirm_password_reset() ends every session.
ServeReset(t) ==
  /\ Reached(t, {"reset", "resetLoggedIn"})
  /\ fate' = Revoked(Token) /\ temporary' = FALSE
  /\ Reply(t, NoToken)

Serve(t) ==
  /\ ServeLogin(t) \/ ServeChangePassword(t) \/ ServeLogout(t) \/ ServeReset(t)
  /\ UNCHANGED <<stored, access, hasSession, me, page, refresh, removed>>

-----------------------------------------------------------------------------
\* Mutant: only the access token is kept, in memory.
RefreshStoredInMemory(t) ==
  /\ refresh[t].state = "answered"
  /\ access' = [access EXCEPT ![t] = "fresh"]
  /\ refresh' = [refresh EXCEPT ![t] = NoRefresh]
  /\ call' = [call EXCEPT ![t] = Woken(call[t], TRUE, "fresh")]
  /\ UNCHANGED <<stored, server, hasSession, me, page, removed>>

\* doRefresh() after its await.  The new pair is stored whatever has happened
\* to the session since.
RefreshStored(t) ==
  /\ refresh[t].state = "answered"
  /\ stored' = refresh[t].new
  /\ access' = [access EXCEPT ![t] = "fresh"]
  /\ refresh' = [refresh EXCEPT ![t] = NoRefresh]
  /\ call' = [call EXCEPT ![t] = Woken(call[t], TRUE, "fresh")]
  /\ UNCHANGED <<server, hasSession, me, page, removed>>

\* Mutant: the shared promise is forgotten without being settled.
RefreshFailedUnsettled(t) ==
  /\ refresh[t].state \in {"sent", "checked", "answered"}
  /\ fate' = Forsake(t)
  /\ refresh' = [refresh EXCEPT ![t] = NoRefresh]
  /\ UNCHANGED <<stored, temporary, access, hasSession, me, page, call, removed>>

\* 429, 5xx or no connection: the token is kept for a later attempt.
RefreshFailed(t) ==
  /\ refresh[t].state \in {"sent", "checked", "answered"}
  /\ fate' = Forsake(t)
  /\ refresh' = [refresh EXCEPT ![t] = NoRefresh]
  /\ call' = [call EXCEPT ![t] = Woken(call[t], FALSE, access[t])]
  /\ UNCHANGED <<stored, temporary, access, hasSession, me, page, removed>>

\* 401, but another tab has stored another token meanwhile: once more, unless
\* it has removed it.
RefreshRetried(t) ==
  /\ refresh[t].state = "refused" /\ ~refresh[t].retried /\ stored # refresh[t].sent
  /\ IF stored = NoToken
     THEN /\ refresh' = [refresh EXCEPT ![t] = NoRefresh]
          /\ call' = [call EXCEPT ![t] = Woken(call[t], FALSE, access[t])]
     ELSE /\ refresh' = [refresh EXCEPT ![t] = Ask(TRUE)]
          /\ UNCHANGED call
  /\ UNCHANGED <<stored, server, access, hasSession, me, page, removed>>

\* Mutant: the storage is not read again, any 401 ends the session.
AuthLostAtOnce(t) ==
  /\ refresh[t].state = "refused"
  /\ EndSession(t)
  /\ refresh' = [refresh EXCEPT ![t] = NoRefresh]
  /\ call' = [call EXCEPT ![t] = Woken(Ended(call[t]), FALSE, "none")]
  /\ removed' = Announced(t)
  /\ UNCHANGED <<server, page>>

\* 401 for the token still stored, or a second time: authLostHandler.
AuthLost(t) ==
  /\ refresh[t].state = "refused"
  /\ refresh[t].retried \/ stored = refresh[t].sent
  /\ EndSession(t)
  /\ refresh' = [refresh EXCEPT ![t] = NoRefresh]
  /\ call' = [call EXCEPT ![t] = Woken(Ended(call[t]), FALSE, "none")]
  /\ removed' = Announced(t)
  /\ UNCHANGED <<server, page>>

\* Mutant: the listener acts on any change of the storage.
StorageEventOfAnyKey(t) ==
  /\ EndSession(t)
  /\ call' = [call EXCEPT ![t] = Ended(call[t])]
  /\ removed' = [Announced(t) EXCEPT ![t] = @ - 1]
  /\ UNCHANGED <<server, page, refresh>>

\* Mutant: the tab drops its tokens and keeps showing the session.
StorageEventTokensOnly(t) ==
  /\ removed[t] > 0
  /\ stored' = NoToken
  /\ access' = [access EXCEPT ![t] = "none"]
  /\ removed' = [Announced(t) EXCEPT ![t] = @ - 1]
  /\ UNCHANGED <<server, hasSession, me, page, refresh, call>>

\* AuthProvider's storage listener.
StorageEvent(t) ==
  /\ removed[t] > 0
  /\ EndSession(t)
  /\ call' = [call EXCEPT ![t] = Ended(call[t])]
  /\ removed' = [Announced(t) EXCEPT ![t] = @ - 1]
  /\ UNCHANGED <<server, page, refresh>>

-----------------------------------------------------------------------------
\* What a call may come back with now.  Any request may fail for the server's
\* own reasons, not get there, or lose its answer (a fetch that throws is an
\* ApiError with status 0).  A query changes nothing: it is served as it arrives.
Outcomes(t, s) ==
  LET c == call[t][s] IN
    CASE c.pc = "answered" -> {c.answer} \cup (IF c.answer = "ok" THEN {"failed"} ELSE {})
      [] c.pc = "sent"     -> {"failed"} \cup
           (IF c.kind \notin Open /\ c.bearer # "fresh" THEN {"401"}
            ELSE IF c.kind \in Writing THEN {} ELSE {"ok"})
      [] OTHER             -> {}

\* api() after its await: a 401 while a refresh token is stored is retried once.
Again(t, s, outcome) ==
  /\ outcome = "401" /\ stored # NoToken
  /\ call[t][s].kind \notin Open /\ ~call[t][s].again
Retry(t, s) ==
  /\ \E o \in Outcomes(t, s) : Again(t, s, o)
  /\ call' = [call EXCEPT ![t][s].pc = "waiting", ![t][s].again = TRUE, ![t][s].answer = "none"]
  /\ RefreshTokens(t)
  /\ UNCHANGED <<stored, server, access, hasSession, me, page, removed>>

Arrived(t, s, outcome) == outcome \in Outcomes(t, s) /\ ~Again(t, s, outcome)

\* The query ['me'] settles, and with it a startSession() that awaits it.
MeAnswered(t) ==
  LET user == call[t]["user"]
      starting == user.pc = "starting" IN
  \E o \in Outcomes(t, "me") :
    /\ Arrived(t, "me", o)
    /\ me' = [me EXCEPT ![t] = CASE o = "ok" /\ temporary -> "temporary"
                                [] o = "ok" /\ ~temporary -> "loaded"
                                [] o = "401" -> IF @ = "absent" THEN "denied" ELSE "barred"
                                [] OTHER     -> IF @ = "absent" THEN "failed" ELSE "broken"]
    /\ call' = [call EXCEPT ![t] = [s \in Slot |-> IF s = "me" \/ starting
                                                    THEN NoCall ELSE call[t][s]]]
    /\ hasSession' = [hasSession EXCEPT ![t] = @ \/ (starting /\ o = "ok")]
    /\ page' = IF starting /\ o = "ok" /\ user.kind = "changePassword"
               THEN [page EXCEPT ![t] = "app"] ELSE page
    /\ UNCHANGED <<stored, server, access, refresh, removed>>

\* startSession(): the tokens, then ['me'], sharing a fetch under way.
StartSession(t) ==
  /\ Arrived(t, "user", "ok") /\ call[t]["user"].kind \in {"login", "changePassword"}
  /\ stored' = call[t]["user"].token
  /\ access' = [access EXCEPT ![t] = "fresh"]
  /\ call' = [call EXCEPT
       ![t]["user"].pc = "starting",
       ![t]["me"] = IF Idle(t, "me")
                    THEN [NoCall EXCEPT !.kind = "me", !.pc = "sent", !.bearer = "fresh"] ELSE @]
  /\ me' = [me EXCEPT ![t] = IF Idle(t, "me") THEN Fetching(@) ELSE @]
  /\ UNCHANGED <<server, hasSession, page, refresh, removed>>

\* The session ends locally even if the server is unreachable.
LoggedOut(t) ==
  /\ \E o \in Outcomes(t, "user") : Arrived(t, "user", o)
  /\ call[t]["user"].kind = "logout"
  /\ EndSession(t)
  /\ call' = [call EXCEPT ![t] = [Ended(@) EXCEPT !["user"] = NoCall]]
  /\ page' = [page EXCEPT ![t] = "app"]
  /\ removed' = Announced(t)
  /\ UNCHANGED <<server, refresh>>

\* The reset ended every session on the server; a tab that was logged in logs
\* out, if there is still a token to log out with.
PasswordReset(t) ==
  /\ Arrived(t, "user", "ok") /\ call[t]["user"].kind \in {"reset", "resetLoggedIn"}
  /\ LET loggedIn == call[t]["user"].kind = "resetLoggedIn" IN
     \/ /\ loggedIn /\ stored # NoToken
        /\ Api(t, "user", "logout", stored)
        /\ UNCHANGED <<stored, access, hasSession, me, page>>
     \/ /\ loggedIn /\ stored = NoToken
        /\ EndSession(t)
        /\ call' = [call EXCEPT ![t] = [Ended(@) EXCEPT !["user"] = NoCall]]
        /\ page' = [page EXCEPT ![t] = "app"]
        /\ UNCHANGED refresh
     \/ /\ ~loggedIn
        /\ call' = [call EXCEPT ![t]["user"] = NoCall]
        /\ page' = [page EXCEPT ![t] = "app"]
        /\ UNCHANGED <<stored, access, hasSession, me, refresh>>
  /\ UNCHANGED <<server, removed>>

\* A page shows what it got, or the error.
Settled(t) ==
  /\ \E o \in Outcomes(t, "user") :
       Arrived(t, "user", o) /\ (call[t]["user"].kind = "query" \/ o # "ok")
  /\ call[t]["user"].kind # "logout"
  /\ call' = [call EXCEPT ![t]["user"] = NoCall]
  /\ UNCHANGED <<stored, server, access, hasSession, me, page, refresh, removed>>

-----------------------------------------------------------------------------
UserStep(t) ==
  \/ Login(t) \/ ChangePassword(t) \/ Logout(t) \/ ResetPassword(t) \/ Query(t)
  \/ \E p \in {"app", "password"} : "changePassword" \in Does[t] /\ Visit(t, p)
RefreshStep(t) ==
  \/ CheckToken(t) \/ RotateToken(t)
  \/ RefreshStored(t) \/ RefreshFailed(t) \/ RefreshRetried(t) \/ AuthLost(t)
MeStep(t)   == Retry(t, "me") \/ MeAnswered(t)
CallStep(t) ==
  \/ Serve(t) \/ Retry(t, "user")
  \/ StartSession(t) \/ LoggedOut(t) \/ PasswordReset(t) \/ Settled(t)

Next ==
  \E t \in Tab :
    \/ Reload(t) \/ Expire(t) \/ FetchMe(t) \/ UserStep(t)
    \/ RefreshStep(t) \/ MeStep(t) \/ CallStep(t) \/ StorageEvent(t)

\* Every request ends, by an answer or by an error, and what awaits it goes on;
\* nothing is assumed of the user, of expiry or of reloads.
Fairness ==
  \A t \in Tab :
    WF_vars(RefreshStep(t)) /\ WF_vars(MeStep(t)) /\ WF_vars(CallStep(t)) /\ WF_vars(StorageEvent(t))

Spec     == Init /\ [][Next]_vars
FairSpec == Spec /\ Fairness

-----------------------------------------------------------------------------
Call ==
  [kind : {"none", "me", "resetLoggedIn"} \cup Commands,
   pc : {"idle", "waiting", "sent", "answered", "starting"},
   bearer : {"none", "fresh", "stale"}, body : Token \cup {NoToken}, again : BOOLEAN,
   answer : {"none", "ok", "401"}, token : Token \cup {NoToken}]
Refresh ==
  [state : {"none", "sent", "checked", "answered", "refused"}, sent : Token \cup {NoToken},
   retried : BOOLEAN, new : Token \cup {NoToken}]

\* Every variable has its type.
TypeOK ==
  /\ stored \in Token \cup {NoToken}
  /\ fate \in [Token -> {"unused", "alive", "spent", "revoked", "forsaken"}]
  /\ temporary \in BOOLEAN
  /\ access \in [Tab -> {"none", "fresh", "stale"}]
  /\ hasSession \in [Tab -> BOOLEAN]
  /\ me \in [Tab -> {"absent", "loaded", "temporary"} \cup Denied \cup Failed]
  /\ page \in [Tab -> {"app", "password", "reset"}]
  /\ refresh \in [Tab -> Refresh]
  /\ call \in [Tab -> [Slot -> Call]]
  /\ removed \in [Tab -> Nat]

\* However the tabs' refreshes race and retry, localStorage holds a token that
\* has been used up only while the answer with its successor is on its way to
\* some tab, or was lost (doRefresh(), lib/api.ts).
StoredIsNotSpent ==
  stored # NoToken /\ fate[stored] = "spent" =>
    \E t \in Tab : refresh[t].state = "answered" /\ refresh[t].sent = stored

\* "Another tab may have rotated the token in the meantime; use the new one": a
\* token the server would still take is removed from localStorage only by a user
\* who logs out, by a tab that hears of an earlier removal, and by a refresh that
\* was refused twice, each time with a token used up meanwhile.
LiveTokenIsKept ==
  [][stored # NoToken /\ fate[stored] = "alive" /\ stored' = NoToken =>
       \E t \in Tab :
         LoggedOut(t) \/ StorageEvent(t) \/ (AuthLost(t) /\ refresh[t].retried)]_vars

\* A tab that still believes in a session whose token is gone, or is starting
\* one, has a storage event to come that ends it (the listener of auth.tsx).
TabsHearOfTheEnd ==
  \A t \in Tab :
    stored = NoToken /\ (hasSession[t] \/ call[t]["user"].pc = "starting") => removed[t] > 0

\* Every call of api() a user waits for ends, and no tab stays on the loading
\* screen of the guards: no refresh, retry or shared promise is awaited for ever.
Waiting(t) == ~Idle(t, "user") \/ Screen(t) = "loading"
NobodyIsLeftWaiting == \A t \in Tab : Waiting(t) ~> ~Waiting(t)

\* "Best effort: the session ends locally even if the server is unreachable":
\* once the stored token is gone, only a new login brings one back.
LogoutIsFinal ==
  [][stored = NoToken /\ stored' # NoToken => \E t \in Tab : StartSession(t)]_vars
================================================================================
