----------------------------- MODULE SessionProofs -----------------------------
(***************************************************************************)
(* Proofs about module Session, for any number of tabs and tokens: types,  *)
(* StoredIsNotSpent, TabsHearOfTheEnd and LiveTokenIsKept.  They rest on   *)
(* one fact about tokens: an answer that brings a new one is the only      *)
(* thing that knows it, so nobody can have used it up before it is stored. *)
(***************************************************************************)
EXTENDS Session, TLAPS

\* What may bring a token to a tab: the answer to its refresh, and that to a
\* login or a change of password.
Carrier == {"refresh", "call"}
Carries(t, k) ==
  IF k = "refresh" THEN refresh[t].state = "answered"
  ELSE /\ call[t]["user"].pc = "answered" /\ call[t]["user"].answer = "ok"
       /\ call[t]["user"].kind \in {"login", "changePassword"}
Carried(t, k) == IF k = "refresh" THEN refresh[t].new ELSE call[t]["user"].token

\* A token on its way is good or revoked, neither stored nor sent by anyone.
Unknown(n) ==
  /\ n \in Token /\ fate[n] \in {"alive", "revoked"} /\ n # stored
  /\ \A u \in Tab : refresh[u].state # "none" => refresh[u].sent # n
CarriedIsUnknown == \A t \in Tab, k \in Carrier : Carries(t, k) => Unknown(Carried(t, k))

\* It is on its way once.
CarriedOnce ==
  \A t, u \in Tab, k, l \in Carrier :
    Carries(t, k) /\ Carries(u, l) /\ Carried(t, k) = Carried(u, l) => t = u /\ k = l

\* What is stored or sent has been issued.
KnownIsIssued ==
  /\ stored # NoToken => fate[stored] # "unused"
  /\ \A t \in Tab : refresh[t].state # "none" =>
       refresh[t].sent \in Token /\ fate[refresh[t].sent] # "unused"

\* The inductive invariant.
IInv ==
  /\ TypeOK
  /\ CarriedIsUnknown
  /\ CarriedOnce
  /\ KnownIsIssued
  /\ StoredIsNotSpent
  /\ TabsHearOfTheEnd

\* A step after which no more is on its way than before, nothing new is stored
\* or sent, and no token comes to life.
Quiet ==
  /\ \A t \in Tab, k \in Carrier :
       Carries(t, k)' => Carries(t, k) /\ Carried(t, k)' = Carried(t, k)
  /\ stored' \in {stored, NoToken}
  /\ \A t \in Tab : refresh'[t].state # "none" =>
       \/ refresh[t].state # "none" /\ refresh'[t].sent = refresh[t].sent
       \/ stored # NoToken /\ refresh'[t].sent = stored
  /\ \A n \in Token :
       \/ fate'[n] = fate[n]
       \/ fate[n] = "alive" /\ fate'[n] = "revoked"
       \/ fate'[n] = "forsaken" /\ \E t \in Tab : refresh[t].state # "none" /\ refresh[t].sent = n
  /\ \A t \in Tab : refresh[t].state = "answered" =>
       refresh'[t] = refresh[t] \/ fate'[refresh[t].sent] = "forsaken"

\* A step after which no tab believes in a session that did not before.
Starting(t) == call[t]["user"].pc = "starting"
Calm ==
  /\ stored' = stored /\ removed' = removed
  /\ \A t \in Tab : hasSession'[t] \/ Starting(t)' => hasSession[t] \/ Starting(t)

Tokens == CarriedIsUnknown /\ CarriedOnce /\ KnownIsIssued /\ StoredIsNotSpent

\* A quiet step keeps what is known of tokens.
LEMMA QuietStep ==
  ASSUME IInv, TypeOK', Quiet
  PROVE  Tokens'
  <1> USE DEF IInv
  <1>1. CarriedIsUnknown'
    <2> SUFFICES ASSUME NEW t \in Tab, NEW k \in Carrier, Carries(t, k)'
                 PROVE  Unknown(Carried(t, k))'
      BY DEF CarriedIsUnknown
    <2>1. PICK n \in Token : n = Carried(t, k) /\ Unknown(n) /\ n = Carried(t, k)'
      BY DEF Quiet, CarriedIsUnknown, Unknown
    <2>2. fate'[n] \in {"alive", "revoked"}
      BY <2>1 DEF Quiet, Unknown
    <2>3. n # stored'
      BY <2>1, TokenAssumption DEF Quiet, Unknown
    <2>4. ASSUME NEW u \in Tab, refresh'[u].state # "none"
          PROVE  refresh'[u].sent # n
      BY <2>1, <2>4 DEF Quiet, Unknown
    <2> QED
      BY <2>1, <2>2, <2>3, <2>4 DEF Unknown
  <1>2. CarriedOnce'
    BY DEF CarriedOnce, Quiet
  <1>3. KnownIsIssued'
    <2>1. \A n \in Token : fate[n] # "unused" => fate'[n] # "unused"
      BY DEF Quiet
    <2>2. stored' # NoToken => stored' = stored /\ stored \in Token
      BY DEF Quiet, TypeOK
    <2>3. ASSUME NEW t \in Tab, refresh'[t].state # "none"
          PROVE  refresh'[t].sent \in Token /\ fate'[refresh'[t].sent] # "unused"
      <3>1. CASE refresh[t].state # "none" /\ refresh'[t].sent = refresh[t].sent
        BY <2>1, <3>1 DEF KnownIsIssued
      <3>2. CASE stored # NoToken /\ refresh'[t].sent = stored
        BY <2>1, <3>2 DEF KnownIsIssued, TypeOK
      <3> QED
        BY <2>3, <3>1, <3>2 DEF Quiet
    <2> QED
      BY <2>1, <2>2, <2>3 DEF KnownIsIssued
  <1>4. StoredIsNotSpent'
    <2> SUFFICES ASSUME stored' # NoToken, fate'[stored'] = "spent"
                 PROVE  \E t \in Tab : refresh'[t].state = "answered" /\ refresh'[t].sent = stored'
      BY DEF StoredIsNotSpent
    <2>1. stored' = stored /\ stored \in Token /\ fate[stored] = "spent"
      BY DEF Quiet, TypeOK
    <2>2. PICK t \in Tab : refresh[t].state = "answered" /\ refresh[t].sent = stored
      BY <2>1 DEF StoredIsNotSpent
    <2>3. refresh'[t] = refresh[t]
      BY <2>1, <2>2 DEF Quiet
    <2> QED
      BY <2>1, <2>2, <2>3
  <1> QED
    BY <1>1, <1>2, <1>3, <1>4 DEF Tokens

\* A calm step keeps what tabs are to hear.
LEMMA CalmStep ==
  ASSUME IInv, TypeOK', Calm
  PROVE  TabsHearOfTheEnd'
  BY DEF IInv, TabsHearOfTheEnd, Calm, Starting

(***************************************************************************)
(* Types of what the actions are built from.                               *)
(***************************************************************************)
LEMMA AskType ==
  ASSUME TypeOK, NEW b \in BOOLEAN
  PROVE  Ask(b) \in Refresh /\ NoRefresh \in Refresh
  BY DEF Ask, NoRefresh, Refresh, TypeOK

LEMMA CallTypes ==
  ASSUME TypeOK, NEW t \in Tab
  PROVE  /\ call[t] \in [Slot -> Call] /\ refresh[t] \in Refresh
         /\ NoCall \in Call /\ NoCall.pc = "idle" /\ "me" \in Slot /\ "user" \in Slot
  BY DEF TypeOK, NoCall, Call, Slot

Kind == {"none", "me", "resetLoggedIn"} \cup Commands

LEMMA EnteredType ==
  ASSUME TypeOK, NEW t \in Tab, NEW kind \in Kind, NEW body \in Token \cup {NoToken}
  PROVE  /\ Entered(t, kind, body) \in Call
         /\ Entered(t, kind, body).pc \in {"waiting", "sent"}
  <1>1. access[t] \in {"none", "fresh", "stale"}
    BY DEF TypeOK
  <1> QED
    BY <1>1 DEF Entered, NoCall, Call, Kind

\* api() up to its await
LEMMA ApiStep ==
  ASSUME TypeOK, NEW t \in Tab, NEW s \in Slot, NEW kind \in Kind,
         NEW body \in Token \cup {NoToken}, Api(t, s, kind, body)
  PROVE  /\ call' \in [Tab -> [Slot -> Call]]
         /\ refresh' \in [Tab -> Refresh]
         /\ call'[t][s].pc \in {"waiting", "sent"}
         /\ \A u \in Tab, z \in Slot : (u # t \/ z # s) => call'[u][z] = call[u][z]
         /\ \A u \in Tab :
              \/ refresh'[u] = refresh[u]
              \/ refresh[u].state = "none" /\ stored # NoToken /\ refresh'[u] = Ask(FALSE)
  <1> DEFINE e == Entered(t, kind, body)
  <1>1. e \in Call /\ e.pc \in {"waiting", "sent"}
    BY EnteredType
  <1>2. call' = [call EXCEPT ![t][s] = e] /\ call \in [Tab -> [Slot -> Call]]
    BY DEF Api, TypeOK
  <1>3. refresh \in [Tab -> Refresh] /\ Ask(FALSE) \in Refresh
    BY AskType DEF TypeOK
  <1> HIDE DEF e
  <1>4. /\ call' \in [Tab -> [Slot -> Call]]
        /\ call'[t][s].pc \in {"waiting", "sent"}
        /\ \A u \in Tab, z \in Slot : (u # t \/ z # s) => call'[u][z] = call[u][z]
    BY <1>1, <1>2
  <1>5. /\ refresh' \in [Tab -> Refresh]
        /\ \A u \in Tab :
             \/ refresh'[u] = refresh[u]
             \/ refresh[u].state = "none" /\ stored # NoToken /\ refresh'[u] = Ask(FALSE)
    <2>1. CASE RefreshFirst(t, kind)
      BY <1>3, <2>1 DEF Api, RefreshTokens, RefreshFirst
    <2>2. CASE ~RefreshFirst(t, kind)
      BY <1>3, <2>2 DEF Api
    <2> QED
      BY <2>1, <2>2
  <1> QED
    BY <1>4, <1>5

\* The calls after a refresh
LEMMA WokenStep ==
  ASSUME NEW calls \in [Slot -> Call], NEW ok \in BOOLEAN, NEW a \in {"none", "fresh", "stale"}
  PROVE  /\ Woken(calls, ok, a) \in [Slot -> Call]
         /\ \A s \in Slot :
              \/ Woken(calls, ok, a)[s] = calls[s]
              \/ /\ Woken(calls, ok, a)[s].pc = "sent"
              \/ /\ Woken(calls, ok, a)[s].pc = "answered" /\ Woken(calls, ok, a)[s].answer = "401"
  <1> SUFFICES ASSUME NEW s \in Slot
               PROVE  /\ Woken(calls, ok, a)[s] \in Call
                      /\ \/ Woken(calls, ok, a)[s] = calls[s]
                         \/ Woken(calls, ok, a)[s].pc = "sent"
                         \/ /\ Woken(calls, ok, a)[s].pc = "answered"
                            /\ Woken(calls, ok, a)[s].answer = "401"
    BY DEF Woken
  <1>1. calls[s] \in Call
    OBVIOUS
  <1> DEFINE c == calls[s]
  <1>2. /\ [c EXCEPT !.pc = "answered", !.answer = "401"] \in Call
        /\ [c EXCEPT !.pc = "answered", !.answer = "401"].pc = "answered"
        /\ [c EXCEPT !.pc = "answered", !.answer = "401"].answer = "401"
        /\ [c EXCEPT !.pc = "sent", !.bearer = a] \in Call
        /\ [c EXCEPT !.pc = "sent", !.bearer = a].pc = "sent"
    BY <1>1 DEF Call
  <1> QED
    BY <1>1, <1>2 DEF Woken

\* The calls after endSession()
LEMMA EndedStep ==
  ASSUME NEW calls \in [Slot -> Call], NoCall \in Call
  PROVE  /\ Ended(calls) \in [Slot -> Call]
         /\ Ended(calls)["user"].pc # "starting"
         /\ Ended(calls)["user"] = calls["user"] \/ Ended(calls)["user"] = NoCall
  BY DEF Ended, Slot, NoCall

LEMMA AnnouncedStep ==
  ASSUME TypeOK, NEW t \in Tab
  PROVE  /\ Announced(t) \in [Tab -> Nat]
         /\ Announced(t)[t] = removed[t]
         /\ \A u \in Tab : u # t /\ stored # NoToken => Announced(t)[u] > 0
         /\ \A u \in Tab : stored = NoToken => Announced(t)[u] = removed[u]
  BY DEF Announced, TypeOK

LEMMA EndSessionStep ==
  ASSUME TypeOK, NEW t \in Tab, EndSession(t)
  PROVE  /\ stored' = NoToken
         /\ access' \in [Tab -> {"none", "fresh", "stale"}]
         /\ hasSession' \in [Tab -> BOOLEAN]
         /\ me' \in [Tab -> {"absent", "loaded", "temporary"} \cup Denied \cup Failed]
         /\ hasSession'[t] = FALSE
         /\ \A u \in Tab : u # t => hasSession'[u] = hasSession[u]
  BY DEF EndSession, TypeOK

\* A tab that ends its session for all tells the others.
LEMMA TellingOthers ==
  ASSUME IInv, NEW t \in Tab, EndSession(t), ~Starting(t)',
         \A u \in Tab : u # t => (Starting(u)' => Starting(u)) /\ removed'[u] = Announced(t)[u]
  PROVE  TabsHearOfTheEnd'
  <1>1. TypeOK
    BY DEF IInv
  <1>2. hasSession'[t] = FALSE /\ \A u \in Tab : u # t => hasSession'[u] = hasSession[u]
    BY <1>1, EndSessionStep
  <1>3. ASSUME NEW u \in Tab, u # t, hasSession'[u] \/ Starting(u)'
        PROVE  removed'[u] > 0
    <2>1. CASE stored # NoToken
      BY <1>1, <1>3, <2>1, AnnouncedStep
    <2>2. CASE stored = NoToken
      BY <1>1, <1>2, <1>3, <2>2, AnnouncedStep DEF IInv, TabsHearOfTheEnd, Starting
    <2> QED
      BY <2>1, <2>2
  <1> QED
    BY <1>2, <1>3 DEF TabsHearOfTheEnd, Starting

\* A request that sets out, whatever there was in its place.
LEMMA ApiQuiet ==
  ASSUME TypeOK, NEW t \in Tab, NEW s \in Slot, NEW kind \in Kind,
         NEW body \in Token \cup {NoToken}, Api(t, s, kind, body), UNCHANGED <<stored, fate>>
  PROVE  /\ Quiet
         /\ \A u \in Tab : Starting(u)' => Starting(u)
  <1>1. /\ call'[t][s].pc \in {"waiting", "sent"}
        /\ \A u \in Tab, z \in Slot : (u # t \/ z # s) => call'[u][z] = call[u][z]
        /\ \A u \in Tab :
             \/ refresh'[u] = refresh[u]
             \/ refresh[u].state = "none" /\ stored # NoToken /\ refresh'[u] = Ask(FALSE)
    BY ApiStep
  <1>2. \A u \in Tab : call'[u]["user"] = call[u]["user"] \/ call'[u]["user"].pc \in {"waiting", "sent"}
    BY <1>1 DEF Slot
  <1>3. Ask(FALSE).state = "sent" /\ Ask(FALSE).sent = stored
    BY DEF Ask
  <1>4. \A u \in Tab, k \in Carrier : Carries(u, k)' => Carries(u, k) /\ Carried(u, k)' = Carried(u, k)
    BY <1>1, <1>2, <1>3 DEF Carries, Carried, Carrier
  <1>5. Quiet
    BY <1>1, <1>3, <1>4 DEF Quiet
  <1> QED
    BY <1>2, <1>5 DEF Starting

-----------------------------------------------------------------------------
LEMMA InitIInv == Init => IInv
  <1> SUFFICES ASSUME Init PROVE IInv
    OBVIOUS
  <1>1. PICK token \in {NoToken} \cup Token :
          /\ stored = token
          /\ fate = [n \in Token |-> IF n = token THEN "alive" ELSE "unused"]
          /\ hasSession = [t \in Tab |-> token # NoToken]
          /\ call = [t \in Tab |-> Loaded(t, token)]
          /\ refresh = [t \in Tab |-> LoadedRefresh(token)]
    BY DEF Init
  <1>2. /\ \A t \in Tab : Loaded(t, token) \in [Slot -> Call]
        /\ \A t \in Tab : Loaded(t, token)["user"].pc = "idle"
    BY DEF Loaded, NoCall, Call, Slot
  <1>3. /\ LoadedRefresh(token) \in Refresh
        /\ LoadedRefresh(token).state \in {"none", "sent"}
        /\ LoadedRefresh(token).state # "none" => token # NoToken /\ LoadedRefresh(token).sent = token
    BY DEF LoadedRefresh, NoRefresh, Refresh
  <1>4. TypeOK
    <2>1. call \in [Tab -> [Slot -> Call]] /\ refresh \in [Tab -> Refresh]
      BY <1>1, <1>2, <1>3
    <2> QED
      BY <1>1, <2>1 DEF Init, TypeOK
  <1>5. \A t \in Tab : call[t]["user"].pc = "idle" /\ refresh[t] = LoadedRefresh(token)
    BY <1>1, <1>2
  <1>6. CarriedIsUnknown /\ CarriedOnce
    BY <1>3, <1>5 DEF CarriedIsUnknown, CarriedOnce, Carries
  <1>7. KnownIsIssued /\ StoredIsNotSpent
    BY <1>1, <1>3, <1>5 DEF KnownIsIssued, StoredIsNotSpent
  <1>8. TabsHearOfTheEnd
    BY <1>1, <1>5 DEF TabsHearOfTheEnd
  <1> QED
    BY <1>4, <1>6, <1>7, <1>8 DEF IInv

(***************************************************************************)
(* The tab and its user.                                                   *)
(***************************************************************************)
LEMMA ReloadIInv ==
  ASSUME IInv, NEW t \in Tab, Reload(t)
  PROVE  IInv'
  <1> DEFINE load == Loaded(t, stored)  ref == LoadedRefresh(stored)
  <1>1. TypeOK /\ stored \in Token \cup {NoToken}
    BY DEF IInv, TypeOK
  <1>2. load \in [Slot -> Call] /\ load["user"].pc = "idle"
    BY <1>1 DEF Loaded, NoCall, Call, Slot
  <1>3. /\ ref \in Refresh /\ ref.state \in {"none", "sent"}
        /\ ref.state # "none" => stored # NoToken /\ ref.sent = stored
    BY <1>1 DEF LoadedRefresh, NoRefresh, Refresh
  <1>4. /\ call' = [call EXCEPT ![t] = load] /\ refresh' = [refresh EXCEPT ![t] = ref]
        /\ fate' = Forsake(t) /\ stored' = stored
        /\ hasSession' = [hasSession EXCEPT ![t] = stored # NoToken]
        /\ removed' = [removed EXCEPT ![t] = 0]
        /\ access' = [access EXCEPT ![t] = "none"] /\ me' = [me EXCEPT ![t] = "absent"]
        /\ temporary' = temporary /\ page' = page
    BY DEF Reload
  <1> HIDE DEF load, ref
  <1>5. /\ Forsake(t) \in [Token -> {"unused", "alive", "spent", "revoked", "forsaken"}]
        /\ \A n \in Token : \/ Forsake(t)[n] = fate[n]
                            \/ Forsake(t)[n] = "forsaken" /\ refresh[t].state # "none" /\ refresh[t].sent = n
        /\ refresh[t].state = "answered" => Forsake(t)[refresh[t].sent] = "forsaken"
    BY DEF Forsake, IInv, KnownIsIssued, TypeOK
  <1>6. TypeOK'
    BY <1>1, <1>2, <1>3, <1>4, <1>5 DEF TypeOK
  <1>7. /\ call'[t]["user"].pc = "idle" /\ refresh'[t] = ref
        /\ \A u \in Tab : u # t => call'[u] = call[u] /\ refresh'[u] = refresh[u]
    BY <1>1, <1>2, <1>4 DEF TypeOK
  <1>8. \A u \in Tab, k \in Carrier : Carries(u, k)' => Carries(u, k) /\ Carried(u, k)' = Carried(u, k)
    BY <1>3, <1>7 DEF Carries, Carried, Carrier
  <1>9. Quiet
    BY <1>3, <1>4, <1>5, <1>7, <1>8 DEF Quiet
  <1>10. TabsHearOfTheEnd'
    BY <1>1, <1>4, <1>7 DEF TabsHearOfTheEnd, IInv, TypeOK
  <1> QED
    BY <1>6, <1>9, <1>10, QuietStep DEF IInv, Tokens

\* What touches neither tokens nor calls: Expire, Visit, and stuttering.
LEMMA AsideIInv ==
  ASSUME IInv, TypeOK', UNCHANGED <<stored, fate, hasSession, refresh, call, removed>>
  PROVE  IInv'
  <1>1. Quiet /\ Calm
    BY DEF Quiet, Calm, Carries, Carried, Starting
  <1> QED
    BY <1>1, QuietStep, CalmStep DEF IInv, Tokens

LEMMA ExpireIInv ==
  ASSUME IInv, NEW t \in Tab, Expire(t)
  PROVE  IInv'
  <1>1. TypeOK'
    BY DEF IInv, TypeOK, Expire, server
  <1> QED
    BY <1>1, AsideIInv DEF Expire, server

LEMMA VisitIInv ==
  ASSUME IInv, NEW t \in Tab, NEW p \in {"app", "password"}, Visit(t, p)
  PROVE  IInv'
  <1>1. TypeOK'
    BY DEF IInv, TypeOK, Visit, server
  <1> QED
    BY <1>1, AsideIInv DEF Visit, server

\* A request that sets out and nothing else.
LEMMA RequestIInv ==
  ASSUME IInv, NEW t \in Tab, NEW s \in Slot, NEW kind \in Kind,
         NEW body \in Token \cup {NoToken}, Api(t, s, kind, body),
         me' \in [Tab -> {"absent", "loaded", "temporary"} \cup Denied \cup Failed],
         UNCHANGED <<stored, fate, temporary, access, hasSession, page, removed>>
  PROVE  IInv'
  <1>1. TypeOK
    BY DEF IInv
  <1>2. TypeOK'
    BY <1>1, ApiStep DEF TypeOK
  <1>3. Quiet /\ Calm
    BY <1>1, ApiQuiet DEF Calm
  <1> QED
    BY <1>2, <1>3, QuietStep, CalmStep DEF IInv, Tokens

LEMMA FetchMeIInv ==
  ASSUME IInv, NEW t \in Tab, FetchMe(t)
  PROVE  IInv'
  <1>1. me' \in [Tab -> {"absent", "loaded", "temporary"} \cup Denied \cup Failed]
    BY DEF IInv, TypeOK, FetchMe, Fetching
  <1> QED
    BY <1>1, RequestIInv DEF FetchMe, Slot, Kind, server

\* The pages' requests.
LEMMA PageIInv ==
  ASSUME IInv, NEW t \in Tab,
         Login(t) \/ ChangePassword(t) \/ ResetPassword(t) \/ Query(t)
  PROVE  IInv'
  <1>1. PICK kind \in Kind : /\ Api(t, "user", kind, NoToken)
                             /\ UNCHANGED <<stored, server, access, hasSession, me, page, removed>>
    BY DEF Login, ChangePassword, ResetPassword, Query, Kind, Commands
  <1>2. me' \in [Tab -> {"absent", "loaded", "temporary"} \cup Denied \cup Failed]
    BY <1>1 DEF IInv, TypeOK
  <1> QED
    BY <1>1, <1>2, RequestIInv DEF Slot, server

-----------------------------------------------------------------------------
(***************************************************************************)
(* Steps that only drop or wake calls and refreshes.                       *)
(***************************************************************************)
Dropped(u) ==
  \/ call'[u]["user"] = call[u]["user"]
  \/ call'[u]["user"].pc \in {"idle", "waiting", "sent"}
  \/ call'[u]["user"].pc = "answered" /\ call'[u]["user"].answer = "401"

LEMMA DropQuiet ==
  ASSUME stored' \in {stored, NoToken}, fate' = fate,
         \A u \in Tab : Dropped(u),
         \A u \in Tab : \/ refresh'[u] = refresh[u]
                        \/ refresh[u].state # "answered" /\ refresh'[u].state = "none"
                        \/ /\ refresh[u].state # "answered" /\ refresh'[u].state = "sent"
                           /\ stored # NoToken /\ refresh'[u].sent = stored
  PROVE  Quiet /\ \A u \in Tab : Starting(u)' => Starting(u)
  <1>1. \A u \in Tab, k \in Carrier : Carries(u, k)' => Carries(u, k) /\ Carried(u, k)' = Carried(u, k)
    BY DEF Carries, Carried, Carrier, Dropped
  <1>2. \A u \in Tab : Starting(u)' => Starting(u)
    BY DEF Starting, Dropped
  <1> QED
    BY <1>1, <1>2 DEF Quiet

\* endSession() in a tab, that tells the others and drops its own call.
LEMMA EndingIInv ==
  ASSUME IInv, NEW t \in Tab, EndSession(t),
         call' \in [Tab -> [Slot -> Call]], refresh' \in [Tab -> Refresh],
         \A u \in Tab : u # t => call'[u] = call[u] /\ refresh'[u] = refresh[u],
         Dropped(t), call'[t]["user"].pc # "starting",
         refresh'[t] = refresh[t] \/ (refresh[t].state # "answered" /\ refresh'[t].state = "none"),
         removed' \in [Tab -> Nat],
         \A u \in Tab : u # t => removed'[u] = Announced(t)[u],
         page' \in [Tab -> {"app", "password", "reset"}],
         UNCHANGED server
  PROVE  IInv'
  <1>1. TypeOK
    BY DEF IInv
  <1>2. TypeOK'
    <2>1. /\ stored' \in Token \cup {NoToken}
          /\ access' \in [Tab -> {"none", "fresh", "stale"}]
          /\ hasSession' \in [Tab -> BOOLEAN]
          /\ me' \in [Tab -> {"absent", "loaded", "temporary"} \cup Denied \cup Failed]
      BY <1>1, EndSessionStep
    <2> QED
      BY <1>1, <2>1 DEF TypeOK, server
  <1>3. stored' \in {stored, NoToken} /\ fate' = fate
    BY DEF EndSession, server
  <1>4. \A u \in Tab : Dropped(u)
    BY DEF Dropped
  <1>5. Quiet /\ \A u \in Tab : Starting(u)' => Starting(u)
    BY <1>3, <1>4, DropQuiet
  <1>6. TabsHearOfTheEnd'
    BY <1>5, TellingOthers DEF Starting
  <1> QED
    BY <1>2, <1>5, <1>6, QuietStep DEF IInv, Tokens

\* ... and nothing else happens to its calls.
LEMMA EndedCalls ==
  ASSUME TypeOK, NEW t \in Tab,
         \/ call' = [call EXCEPT ![t] = Ended(call[t])]
         \/ call' = [call EXCEPT ![t] = [Ended(call[t]) EXCEPT !["user"] = NoCall]]
  PROVE  /\ call' \in [Tab -> [Slot -> Call]]
         /\ \A u \in Tab : u # t => call'[u] = call[u]
         /\ Dropped(t) /\ call'[t]["user"].pc # "starting"
  <1>1. /\ NoCall \in Call /\ NoCall.pc = "idle" /\ "user" \in Slot
        /\ call[t] \in [Slot -> Call]
    BY CallTypes
  <1>2. PICK e \in [Slot -> Call] : /\ e = Ended(call[t]) /\ e["user"].pc # "starting"
                                    /\ e["user"] = call[t]["user"] \/ e["user"] = NoCall
    BY <1>1, EndedStep
  <1>3. [e EXCEPT !["user"] = NoCall] \in [Slot -> Call] /\ [e EXCEPT !["user"] = NoCall]["user"] = NoCall
    BY <1>1, <1>2
  <1>4. PICK c \in [Slot -> Call] : /\ call' = [call EXCEPT ![t] = c] /\ c["user"].pc # "starting"
                                    /\ c["user"] = call[t]["user"] \/ c["user"] = NoCall
    BY <1>1, <1>2, <1>3
  <1>5. call' \in [Tab -> [Slot -> Call]] /\ call'[t] = c /\ \A u \in Tab : u # t => call'[u] = call[u]
    BY <1>4 DEF TypeOK
  <1> QED
    BY <1>1, <1>4, <1>5 DEF Dropped

\* logout() without a token, now or after a reset: there is nobody to tell.
LEMMA NobodyToTell ==
  ASSUME TypeOK, NEW t \in Tab, stored = NoToken, UNCHANGED removed
  PROVE  removed' \in [Tab -> Nat] /\ \A u \in Tab : u # t => removed'[u] = Announced(t)[u]
  BY AnnouncedStep DEF TypeOK

LEMMA LogoutIInv ==
  ASSUME IInv, NEW t \in Tab, Logout(t)
  PROVE  IInv'
  <1>1. CASE stored # NoToken
    <2>1. me' \in [Tab -> {"absent", "loaded", "temporary"} \cup Denied \cup Failed]
      BY <1>1 DEF IInv, TypeOK, Logout
    <2>2. stored \in Token /\ "user" \in Slot /\ "logout" \in Kind
      BY <1>1 DEF IInv, TypeOK, Slot, Kind, Commands
    <2>3. /\ Api(t, "user", "logout", stored)
          /\ UNCHANGED <<stored, fate, temporary, access, hasSession, page, removed>>
      BY <1>1 DEF Logout, server
    <2> QED
      BY <2>1, <2>2, <2>3, RequestIInv
  <1>2. CASE stored = NoToken
    <2>1. TypeOK
      BY DEF IInv
    <2>2. /\ EndSession(t) /\ call' = [call EXCEPT ![t] = Ended(call[t])]
          /\ UNCHANGED <<server, page, removed, refresh>>
      BY <1>2 DEF Logout
    <2>3. removed' \in [Tab -> Nat] /\ \A u \in Tab : u # t => removed'[u] = Announced(t)[u]
      BY <1>2, <2>1, <2>2, NobodyToTell
    <2>4. refresh' \in [Tab -> Refresh] /\ page' \in [Tab -> {"app", "password", "reset"}]
      BY <2>1, <2>2 DEF TypeOK
    <2>5. /\ call' \in [Tab -> [Slot -> Call]]
          /\ \A u \in Tab : u # t => call'[u] = call[u] /\ refresh'[u] = refresh[u]
          /\ Dropped(t) /\ call'[t]["user"].pc # "starting" /\ refresh'[t] = refresh[t]
          /\ UNCHANGED server
      BY <2>1, <2>2, EndedCalls
    <2> QED
      BY <2>2, <2>3, <2>4, <2>5, EndingIInv
  <1> QED
    BY <1>1, <1>2

LEMMA LoggedOutIInv ==
  ASSUME IInv, NEW t \in Tab, LoggedOut(t)
  PROVE  IInv'
  <1>1. TypeOK
    BY DEF IInv
  <1>2. call' = [call EXCEPT ![t] = [Ended(call[t]) EXCEPT !["user"] = NoCall]]
    BY <1>1 DEF LoggedOut, TypeOK
  <1>3. removed' \in [Tab -> Nat] /\ \A u \in Tab : u # t => removed'[u] = Announced(t)[u]
    BY <1>1, AnnouncedStep DEF LoggedOut
  <1>4. refresh' \in [Tab -> Refresh] /\ page' \in [Tab -> {"app", "password", "reset"}]
    BY <1>1 DEF LoggedOut, TypeOK
  <1>5. EndSession(t) /\ UNCHANGED <<server, refresh>>
    BY DEF LoggedOut
  <1>6. /\ call' \in [Tab -> [Slot -> Call]]
        /\ \A u \in Tab : u # t => call'[u] = call[u] /\ refresh'[u] = refresh[u]
        /\ Dropped(t) /\ call'[t]["user"].pc # "starting" /\ refresh'[t] = refresh[t]
        /\ UNCHANGED server
    BY <1>1, <1>2, <1>5, EndedCalls
  <1> QED
    BY <1>3, <1>4, <1>5, <1>6, EndingIInv

LEMMA PasswordResetIInv ==
  ASSUME IInv, NEW t \in Tab, PasswordReset(t)
  PROVE  IInv'
  <1>1. TypeOK
    BY DEF IInv
  <1>2. NoCall \in Call /\ NoCall.pc = "idle" /\ "user" \in Slot
    BY <1>1, CallTypes DEF NoCall
  <1>3. CASE /\ stored # NoToken /\ Api(t, "user", "logout", stored)
             /\ UNCHANGED <<stored, access, hasSession, me, page, server, removed>>
    <2>1. me' \in [Tab -> {"absent", "loaded", "temporary"} \cup Denied \cup Failed]
      BY <1>1, <1>3 DEF TypeOK
    <2>2. stored \in Token /\ "logout" \in Kind
      BY <1>1, <1>3 DEF TypeOK, Kind, Commands
    <2> QED
      BY <1>2, <1>3, <2>1, <2>2, RequestIInv DEF server
  <1>4. CASE /\ stored = NoToken /\ EndSession(t)
             /\ call' = [call EXCEPT ![t] = [Ended(@) EXCEPT !["user"] = NoCall]]
             /\ page' = [page EXCEPT ![t] = "app"]
             /\ UNCHANGED <<refresh, server, removed>>
    <2>1. call' = [call EXCEPT ![t] = [Ended(call[t]) EXCEPT !["user"] = NoCall]]
      BY <1>1, <1>4 DEF TypeOK
    <2>2. removed' \in [Tab -> Nat] /\ \A u \in Tab : u # t => removed'[u] = Announced(t)[u]
      BY <1>1, <1>4, NobodyToTell
    <2>3. refresh' \in [Tab -> Refresh] /\ page' \in [Tab -> {"app", "password", "reset"}]
      BY <1>1, <1>4 DEF TypeOK
    <2>4. /\ call' \in [Tab -> [Slot -> Call]]
          /\ \A u \in Tab : u # t => call'[u] = call[u] /\ refresh'[u] = refresh[u]
          /\ Dropped(t) /\ call'[t]["user"].pc # "starting" /\ refresh'[t] = refresh[t]
          /\ UNCHANGED server
      BY <1>1, <1>4, <2>1, EndedCalls
    <2> QED
      BY <1>4, <2>2, <2>3, <2>4, EndingIInv
  <1>5. CASE /\ call' = [call EXCEPT ![t]["user"] = NoCall]
             /\ page' = [page EXCEPT ![t] = "app"]
             /\ UNCHANGED <<stored, access, hasSession, me, refresh, server, removed>>
    <2>1. call' \in [Tab -> [Slot -> Call]]
      BY <1>1, <1>2, <1>5 DEF TypeOK
    <2>2. TypeOK'
      BY <1>1, <1>5, <2>1 DEF TypeOK, server
    <2>3. \A u \in Tab : call'[u]["user"] = call[u]["user"] \/ call'[u]["user"] = NoCall
      BY <1>1, <1>2, <1>5 DEF TypeOK
    <2>4. \A u \in Tab : Dropped(u)
      BY <1>2, <2>3 DEF Dropped
    <2>5. Quiet /\ \A u \in Tab : Starting(u)' => Starting(u)
      BY <1>5, <2>4, DropQuiet DEF server
    <2>6. Calm
      BY <1>5, <2>5 DEF Calm
    <2> QED
      BY <2>2, <2>5, <2>6, QuietStep, CalmStep DEF IInv, Tokens
  <1> QED
    BY <1>3, <1>4, <1>5 DEF PasswordReset

\* The listener of another tab's end of the session.
LEMMA StorageEventIInv ==
  ASSUME IInv, NEW t \in Tab, StorageEvent(t)
  PROVE  IInv'
  <1>1. TypeOK
    BY DEF IInv
  <1>2. EndSession(t) /\ call' = [call EXCEPT ![t] = Ended(call[t])] /\ UNCHANGED <<server, page, refresh>>
    BY DEF StorageEvent
  <1>3. removed' \in [Tab -> Nat] /\ \A u \in Tab : u # t => removed'[u] = Announced(t)[u]
    <2>1. /\ Announced(t) \in [Tab -> Nat] /\ Announced(t)[t] = removed[t] /\ removed[t] > 0
          /\ removed' = [Announced(t) EXCEPT ![t] = @ - 1]
      BY <1>1, AnnouncedStep DEF StorageEvent
    <2> QED
      BY <2>1
  <1>4. refresh' \in [Tab -> Refresh] /\ page' \in [Tab -> {"app", "password", "reset"}]
    BY <1>1, <1>2 DEF TypeOK
  <1>5. /\ call' \in [Tab -> [Slot -> Call]]
        /\ \A u \in Tab : u # t => call'[u] = call[u] /\ refresh'[u] = refresh[u]
        /\ Dropped(t) /\ call'[t]["user"].pc # "starting" /\ refresh'[t] = refresh[t]
        /\ UNCHANGED server
    BY <1>1, <1>2, EndedCalls
  <1> QED
    BY <1>2, <1>3, <1>4, <1>5, EndingIInv

-----------------------------------------------------------------------------
(***************************************************************************)
(* The shared refresh.                                                     *)
(***************************************************************************)
\* The calls of one tab are woken.
LEMMA WokenCalls ==
  ASSUME NEW calls \in [Slot -> Call], NEW ok \in BOOLEAN, NEW a \in {"none", "fresh", "stale"},
         TypeOK, NEW t \in Tab, call' = [call EXCEPT ![t] = Woken(calls, ok, a)],
         calls["user"] = call[t]["user"] \/ calls["user"].pc = "idle"
  PROVE  /\ call' \in [Tab -> [Slot -> Call]]
         /\ \A u \in Tab : u # t => call'[u] = call[u]
         /\ Dropped(t) /\ (call'[t]["user"].pc = "starting" => calls["user"].pc = "starting")
  <1>1. "user" \in Slot
    BY DEF Slot
  <1>2. PICK w \in [Slot -> Call] :
          /\ w = Woken(calls, ok, a)
          /\ \/ w["user"] = calls["user"]
             \/ w["user"].pc = "sent"
             \/ w["user"].pc = "answered" /\ w["user"].answer = "401"
    BY <1>1, WokenStep
  <1>3. call' \in [Tab -> [Slot -> Call]] /\ call'[t] = w /\ \A u \in Tab : u # t => call'[u] = call[u]
    BY <1>2 DEF TypeOK
  <1> QED
    BY <1>2, <1>3 DEF Dropped

LEMMA WokenHere ==
  ASSUME TypeOK, NEW t \in Tab, NEW ok \in BOOLEAN, NEW a \in {"none", "fresh", "stale"},
         call' = [call EXCEPT ![t] = Woken(call[t], ok, a)]
  PROVE  /\ call' \in [Tab -> [Slot -> Call]]
         /\ \A u \in Tab : u # t => call'[u] = call[u]
         /\ Dropped(t)
  <1>1. PICK c \in [Slot -> Call] : c = call[t]
    BY DEF TypeOK
  <1>2. call' = [call EXCEPT ![t] = Woken(c, ok, a)]
    BY <1>1
  <1> QED
    BY <1>1, <1>2, WokenCalls

LEMMA AuthLostIInv ==
  ASSUME IInv, NEW t \in Tab, AuthLost(t)
  PROVE  IInv'
  <1>1. TypeOK
    BY DEF IInv
  <1>2. /\ EndSession(t) /\ UNCHANGED server
        /\ refresh' = [refresh EXCEPT ![t] = NoRefresh] /\ refresh[t].state = "refused"
        /\ removed' = Announced(t) /\ page' = page
    BY DEF AuthLost
  <1>3. PICK e \in [Slot -> Call] : /\ e = Ended(call[t]) /\ e["user"].pc # "starting"
                                    /\ e["user"] = call[t]["user"] \/ e["user"].pc = "idle"
    BY <1>1, CallTypes, EndedStep
  <1>4. call' = [call EXCEPT ![t] = Woken(e, FALSE, "none")]
    BY <1>3 DEF AuthLost
  <1>5. /\ call' \in [Tab -> [Slot -> Call]] /\ \A u \in Tab : u # t => call'[u] = call[u]
        /\ Dropped(t) /\ call'[t]["user"].pc # "starting"
    BY <1>1, <1>3, <1>4, WokenCalls
  <1>6. /\ refresh' \in [Tab -> Refresh] /\ refresh'[t].state = "none"
        /\ \A u \in Tab : u # t => refresh'[u] = refresh[u]
    BY <1>1, <1>2, AskType DEF TypeOK, NoRefresh
  <1>7. removed' \in [Tab -> Nat] /\ \A u \in Tab : u # t => removed'[u] = Announced(t)[u]
    BY <1>1, <1>2, AnnouncedStep
  <1>8. page' \in [Tab -> {"app", "password", "reset"}]
    BY <1>1, <1>2 DEF TypeOK
  <1>9. /\ \A u \in Tab : u # t => call'[u] = call[u] /\ refresh'[u] = refresh[u]
        /\ refresh'[t] = refresh[t] \/ (refresh[t].state # "answered" /\ refresh'[t].state = "none")
    BY <1>2, <1>5, <1>6
  <1> QED
    BY <1>2, <1>5, <1>6, <1>7, <1>8, <1>9, EndingIInv

\* A refresh that ends without a token, or starts again, and may wake calls.
LEMMA RefreshEndIInv ==
  ASSUME IInv, call' \in [Tab -> [Slot -> Call]], \A u \in Tab : Dropped(u), Quiet,
         refresh' \in [Tab -> Refresh],
         fate' \in [Token -> {"unused", "alive", "spent", "revoked", "forsaken"}],
         UNCHANGED <<stored, temporary, access, hasSession, me, page, removed>>
  PROVE  IInv'
  <1>1. TypeOK'
    BY DEF IInv, TypeOK
  <1>2. Calm
    BY DEF Calm, Starting, Dropped
  <1> QED
    BY <1>1, <1>2, QuietStep, CalmStep DEF IInv, Tokens

LEMMA RefreshRetriedIInv ==
  ASSUME IInv, NEW t \in Tab, RefreshRetried(t)
  PROVE  IInv'
  <1>1. TypeOK /\ access[t] \in {"none", "fresh", "stale"}
    BY DEF IInv, TypeOK
  <1>2. /\ refresh[t].state = "refused"
        /\ UNCHANGED <<stored, temporary, access, hasSession, me, page, removed>> /\ fate' = fate
    BY DEF RefreshRetried, server
  <1>3. /\ NoRefresh \in Refresh /\ NoRefresh.state = "none"
        /\ Ask(TRUE) \in Refresh /\ Ask(TRUE).state = "sent" /\ Ask(TRUE).sent = stored
    BY <1>1, AskType DEF NoRefresh, Ask
  <1>4. CASE stored = NoToken
    <2>1. /\ refresh' = [refresh EXCEPT ![t] = NoRefresh]
          /\ call' = [call EXCEPT ![t] = Woken(call[t], FALSE, access[t])]
      BY <1>4 DEF RefreshRetried
    <2>2. call' \in [Tab -> [Slot -> Call]] /\ \A u \in Tab : u # t => call'[u] = call[u]
      BY <1>1, <2>1, WokenHere
    <2>3. \A u \in Tab : Dropped(u)
      BY <1>1, <2>1, <2>2, WokenHere DEF Dropped
    <2>4. /\ refresh' \in [Tab -> Refresh] /\ refresh'[t].state = "none"
          /\ \A u \in Tab : u # t => refresh'[u] = refresh[u]
      BY <1>1, <1>3, <2>1 DEF TypeOK
    <2>5. Quiet
      BY <1>2, <2>3, <2>4, DropQuiet
    <2> QED
      BY <1>1, <1>2, <2>2, <2>3, <2>4, <2>5, RefreshEndIInv DEF TypeOK
  <1>5. CASE stored # NoToken
    <2>1. refresh' = [refresh EXCEPT ![t] = Ask(TRUE)] /\ call' = call
      BY <1>5 DEF RefreshRetried
    <2>2. call' \in [Tab -> [Slot -> Call]] /\ \A u \in Tab : Dropped(u)
      BY <1>1, <2>1 DEF Dropped, TypeOK
    <2>3. /\ refresh' \in [Tab -> Refresh] /\ refresh'[t].state = "sent" /\ refresh'[t].sent = stored
          /\ \A u \in Tab : u # t => refresh'[u] = refresh[u]
      BY <1>1, <1>3, <2>1 DEF TypeOK
    <2>4. Quiet
      BY <1>2, <1>5, <2>2, <2>3, DropQuiet
    <2> QED
      BY <1>1, <1>2, <2>2, <2>3, <2>4, RefreshEndIInv DEF TypeOK
  <1> QED
    BY <1>4, <1>5

LEMMA RefreshFailedIInv ==
  ASSUME IInv, NEW t \in Tab, RefreshFailed(t)
  PROVE  IInv'
  <1>1. TypeOK /\ access[t] \in {"none", "fresh", "stale"} /\ call[t] \in [Slot -> Call]
    BY DEF IInv, TypeOK
  <1>2. /\ fate' = Forsake(t)
        /\ refresh' = [refresh EXCEPT ![t] = NoRefresh]
        /\ call' = [call EXCEPT ![t] = Woken(call[t], FALSE, access[t])]
        /\ UNCHANGED <<stored, temporary, access, hasSession, me, page, removed>>
    BY DEF RefreshFailed
  <1>3. /\ call' \in [Tab -> [Slot -> Call]] /\ \A u \in Tab : u # t => call'[u] = call[u]
        /\ \A u \in Tab : Dropped(u)
    <2>1. /\ call' \in [Tab -> [Slot -> Call]] /\ \A u \in Tab : u # t => call'[u] = call[u]
          /\ Dropped(t)
      BY <1>1, <1>2, WokenHere
    <2> QED
      BY <2>1 DEF Dropped
  <1>4. /\ refresh' \in [Tab -> Refresh] /\ refresh'[t].state = "none"
        /\ \A u \in Tab : u # t => refresh'[u] = refresh[u]
    BY <1>1, <1>2, AskType DEF TypeOK, NoRefresh
  <1>5. /\ fate' \in [Token -> {"unused", "alive", "spent", "revoked", "forsaken"}]
        /\ \A n \in Token : \/ fate'[n] = fate[n]
                            \/ fate'[n] = "forsaken" /\ refresh[t].state # "none" /\ refresh[t].sent = n
        /\ refresh[t].state = "answered" => fate'[refresh[t].sent] = "forsaken"
    BY <1>2 DEF Forsake, IInv, KnownIsIssued, TypeOK
  <1>6. \A u \in Tab, k \in Carrier : Carries(u, k)' => Carries(u, k) /\ Carried(u, k)' = Carried(u, k)
    BY <1>3, <1>4 DEF Carries, Carried, Carrier, Dropped
  <1>7. Quiet
    BY <1>2, <1>4, <1>5, <1>6 DEF Quiet
  <1> QED
    BY <1>2, <1>3, <1>4, <1>5, <1>7, RefreshEndIInv

-----------------------------------------------------------------------------
(***************************************************************************)
(* New tokens: issued into an answer, and delivered by it.                 *)
(***************************************************************************)
\* A new token n sets out to t by carrier k.
LEMMA IssueStep ==
  ASSUME IInv, TypeOK', NEW t \in Tab, NEW k \in Carrier, NEW n \in Token,
         fate[n] = "unused", fate'[n] = "alive", Carried(t, k)' = n, stored' = stored,
         \A u \in Tab, l \in Carrier : Carries(u, l)' =>
           \/ u = t /\ l = k
           \/ Carries(u, l) /\ Carried(u, l)' = Carried(u, l),
         \A u \in Tab : refresh'[u].state # "none" =>
           refresh[u].state # "none" /\ refresh'[u].sent = refresh[u].sent,
         \A m \in Token : fate[m] # "unused" => fate'[m] # "unused",
         \A m \in Token : Unknown(m) => fate'[m] \in {"alive", "revoked"}
  PROVE  CarriedIsUnknown' /\ CarriedOnce' /\ KnownIsIssued'
  <1> USE DEF IInv
  <1>1. n # stored /\ \A u \in Tab : refresh[u].state # "none" => refresh[u].sent # n
    BY TokenAssumption DEF KnownIsIssued
  <1>2. Unknown(n)'
    BY <1>1 DEF Unknown
  <1>3. \A m \in Token : Unknown(m) => Unknown(m)' /\ m # n
    BY DEF Unknown
  <1>4. ASSUME NEW u \in Tab, NEW l \in Carrier, Carries(u, l)'
        PROVE  Unknown(Carried(u, l))' /\ (Carried(u, l)' = n => u = t /\ l = k)
    <2>1. CASE u = t /\ l = k
      BY <1>2, <2>1 DEF Unknown
    <2>2. CASE Carries(u, l) /\ Carried(u, l)' = Carried(u, l)
      <3>1. PICK m \in Token : m = Carried(u, l) /\ Unknown(m) /\ m = Carried(u, l)'
        BY <2>2 DEF CarriedIsUnknown, Unknown
      <3>2. Unknown(m)' /\ m # n
        BY <1>3, <3>1
      <3> QED
        BY <3>1, <3>2 DEF Unknown
    <2> QED
      BY <1>4, <2>1, <2>2
  <1>5. CarriedIsUnknown'
    BY <1>4 DEF CarriedIsUnknown
  <1>6. CarriedOnce'
    <2> SUFFICES ASSUME NEW u \in Tab, NEW v \in Tab, NEW l \in Carrier, NEW m \in Carrier,
                        Carries(u, l)', Carries(v, m)', Carried(u, l)' = Carried(v, m)'
                 PROVE  u = v /\ l = m
      BY DEF CarriedOnce
    <2>1. CASE Carried(u, l)' = n
      BY <1>4, <2>1
    <2>2. CASE Carried(u, l)' # n
      <3>1. /\ Carries(u, l) /\ Carried(u, l)' = Carried(u, l)
            /\ Carries(v, m) /\ Carried(v, m)' = Carried(v, m)
        BY <2>2
      <3>2. Carried(u, l) = Carried(v, m) /\ CarriedOnce
        BY <3>1
      <3> QED
        BY <3>1, <3>2 DEF CarriedOnce
    <2> QED
      BY <2>1, <2>2
  <1>7. KnownIsIssued'
    <2>1. stored' # NoToken => fate'[stored'] # "unused"
      BY DEF KnownIsIssued, TypeOK
    <2>2. ASSUME NEW u \in Tab, refresh'[u].state # "none"
          PROVE  refresh'[u].sent \in Token /\ fate'[refresh'[u].sent] # "unused"
      BY <2>2 DEF KnownIsIssued
    <2> QED
      BY <2>1, <2>2 DEF KnownIsIssued
  <1> QED
    BY <1>5, <1>6, <1>7

\* Carrier k of t delivers its token.
LEMMA DeliverStep ==
  ASSUME IInv, NEW t \in Tab, NEW k \in Carrier, Carries(t, k), stored' = Carried(t, k),
         fate' = fate, ~Carries(t, k)',
         \A u \in Tab, l \in Carrier : Carries(u, l)' =>
           Carries(u, l) /\ Carried(u, l)' = Carried(u, l),
         \A u \in Tab : refresh'[u].state # "none" =>
           refresh[u].state # "none" /\ refresh'[u].sent = refresh[u].sent
  PROVE  Tokens' /\ stored' \in Token
  <1> USE DEF IInv
  <1>1. PICK n \in Token : n = Carried(t, k) /\ Unknown(n) /\ stored' = n
    BY DEF CarriedIsUnknown, Unknown
  <1>2. CarriedIsUnknown'
    <2> SUFFICES ASSUME NEW u \in Tab, NEW l \in Carrier, Carries(u, l)'
                 PROVE  Unknown(Carried(u, l))'
      BY DEF CarriedIsUnknown
    <2>1. PICK m \in Token : m = Carried(u, l) /\ Unknown(m) /\ m = Carried(u, l)'
      BY DEF CarriedIsUnknown, Unknown
    <2>2. m # n
      BY <1>1, <2>1 DEF CarriedOnce
    <2> QED
      BY <1>1, <2>1, <2>2 DEF Unknown
  <1>3. CarriedOnce'
    BY DEF CarriedOnce
  <1>4. KnownIsIssued' /\ StoredIsNotSpent'
    BY <1>1 DEF KnownIsIssued, StoredIsNotSpent, Unknown
  <1> QED
    BY <1>1, <1>2, <1>3, <1>4 DEF Tokens

LEMMA CheckTokenIInv ==
  ASSUME IInv, NEW t \in Tab, CheckToken(t)
  PROVE  IInv'
  <1>1. TypeOK /\ refresh[t] \in Refresh /\ refresh[t].state = "sent"
    BY DEF IInv, TypeOK, CheckToken
  <1>2. /\ UNCHANGED <<stored, temporary, access, hasSession, me, page, call, removed>>
        /\ fate' = fate
    BY DEF CheckToken, server
  <1>3. Calm
    BY <1>2 DEF Calm, Starting
  <1>4. /\ refresh' \in [Tab -> Refresh]
        /\ refresh'[t].state \in {"checked", "refused"} /\ refresh'[t].sent = refresh[t].sent
        /\ \A u \in Tab : u # t => refresh'[u] = refresh[u]
    <2> DEFINE r == IF fate[refresh[t].sent] = "alive" THEN "checked" ELSE "refused"
    <2>1. r \in {"checked", "refused"} /\ refresh' = [refresh EXCEPT ![t].state = r]
      BY DEF CheckToken
    <2> HIDE DEF r
    <2>2. [refresh[t] EXCEPT !.state = r] \in Refresh
      BY <1>1, <2>1 DEF Refresh
    <2> QED
      BY <1>1, <2>1, <2>2 DEF TypeOK, Refresh
  <1>5. TypeOK'
    BY <1>1, <1>2, <1>4 DEF TypeOK
  <1>6. \A u \in Tab, l \in Carrier : Carries(u, l)' => Carries(u, l) /\ Carried(u, l)' = Carried(u, l)
    BY <1>2, <1>4 DEF Carries, Carried, Carrier
  <1>7. Quiet
    BY <1>1, <1>2, <1>4, <1>6 DEF Quiet
  <1> QED
    BY <1>3, <1>5, <1>7, QuietStep, CalmStep DEF IInv, Tokens

LEMMA RotateTokenIInv ==
  ASSUME IInv, NEW t \in Tab, RotateToken(t)
  PROVE  IInv'
  <1>1. TypeOK /\ refresh[t] \in Refresh /\ refresh[t].state = "checked"
    BY DEF IInv, TypeOK, RotateToken
  <1>2. /\ UNCHANGED <<stored, temporary, access, hasSession, me, page, call, removed>>
        /\ refresh[t].sent \in Token /\ fate[refresh[t].sent] # "unused"
    BY <1>1 DEF RotateToken, IInv, KnownIsIssued
  <1>3. Calm
    BY <1>2 DEF Calm, Starting
  <1>4. PICK n \in Token :
             /\ fate[n] = "unused"
             /\ fate' = [fate EXCEPT ![refresh[t].sent] = "spent", ![n] = "alive"]
             /\ refresh' = [refresh EXCEPT ![t].state = "answered", ![t].new = n]
    BY DEF RotateToken, NextToken
  <1>5. /\ refresh' \in [Tab -> Refresh]
        /\ refresh'[t].state = "answered" /\ refresh'[t].new = n /\ refresh'[t].sent = refresh[t].sent
        /\ \A u \in Tab : u # t => refresh'[u] = refresh[u]
    BY <1>1, <1>4 DEF TypeOK, Refresh
  <1>6. /\ fate' \in [Token -> {"unused", "alive", "spent", "revoked", "forsaken"}]
        /\ fate'[refresh[t].sent] = "spent" /\ fate'[n] = "alive"
        /\ \A m \in Token : m # n /\ m # refresh[t].sent => fate'[m] = fate[m]
    BY <1>1, <1>2, <1>4 DEF TypeOK
  <1>7. TypeOK'
    BY <1>1, <1>2, <1>5, <1>6 DEF TypeOK
  <1>8. \A u \in Tab, l \in Carrier : Carries(u, l)' =>
          \/ u = t /\ l = "refresh"
          \/ Carries(u, l) /\ Carried(u, l)' = Carried(u, l)
    BY <1>2, <1>5 DEF Carries, Carried, Carrier
  <1>9. \A m \in Token : Unknown(m) => fate'[m] \in {"alive", "revoked"}
    BY <1>1, <1>6 DEF Unknown
  <1>10. /\ "refresh" \in Carrier /\ Carried(t, "refresh")' = n
         /\ \A u \in Tab : refresh'[u].state # "none" =>
              refresh[u].state # "none" /\ refresh'[u].sent = refresh[u].sent
         /\ \A m \in Token : fate[m] # "unused" => fate'[m] # "unused"
    BY <1>1, <1>5, <1>6 DEF Carrier, Carried
  <1>11. CarriedIsUnknown' /\ CarriedOnce' /\ KnownIsIssued'
    <2>1. fate[n] = "unused" /\ fate'[n] = "alive" /\ stored' = stored
      BY <1>2, <1>4, <1>6
    <2> QED
      BY <1>7, <1>8, <1>9, <1>10, <2>1, IssueStep
  <1>12. StoredIsNotSpent'
    <2> SUFFICES ASSUME stored # NoToken, fate'[stored] = "spent"
                 PROVE  \E u \in Tab : refresh'[u].state = "answered" /\ refresh'[u].sent = stored
      BY <1>2 DEF StoredIsNotSpent
    <2>1. CASE stored = refresh[t].sent
      BY <1>5, <2>1
    <2>2. CASE stored # refresh[t].sent
      <3>1. stored \in Token /\ stored # n /\ fate[stored] = "spent"
        BY <1>1, <1>6, <2>2 DEF TypeOK
      <3>2. PICK u \in Tab : refresh[u].state = "answered" /\ refresh[u].sent = stored
        BY <3>1 DEF StoredIsNotSpent, IInv
      <3> QED
        BY <1>1, <1>5, <3>2
    <2> QED
      BY <2>1, <2>2
  <1> QED
    BY <1>3, <1>7, <1>11, <1>12, CalmStep DEF IInv

\* The server's answer to a call of the user.
LEMMA ReplyStep ==
  ASSUME TypeOK, NEW t \in Tab, NEW token \in Token \cup {NoToken}, Reply(t, token)
  PROVE  /\ call' \in [Tab -> [Slot -> Call]]
         /\ \A u \in Tab : u # t => call'[u] = call[u]
         /\ call'[t]["user"].pc = "answered" /\ call'[t]["user"].token = token
         /\ call'[t]["user"].kind = call[t]["user"].kind
  <1>1. call \in [Tab -> [Slot -> Call]] /\ "user" \in Slot
    BY DEF TypeOK, Slot
  <1> DEFINE c == [call[t]["user"] EXCEPT !.pc = "answered", !.answer = "ok", !.token = token]
  <1>2. call[t]["user"] \in Call
    BY <1>1
  <1>3. /\ c \in Call /\ c.pc = "answered" /\ c.token = token /\ c.kind = call[t]["user"].kind
    BY <1>2 DEF Call
  <1>4. call' = [call EXCEPT ![t]["user"] = c]
    BY <1>1, <1>2 DEF Reply, Call
  <1> HIDE DEF c
  <1> QED
    BY <1>1, <1>3, <1>4

LEMMA ServeIInv ==
  ASSUME IInv, NEW t \in Tab, Serve(t)
  PROVE  IInv'
  <1>1. TypeOK
    BY DEF IInv
  <1>2. UNCHANGED <<stored, access, hasSession, me, page, refresh, removed>>
    BY DEF Serve
  <1>3. CASE \E n \in Token :
             /\ fate[n] = "unused" /\ Reply(t, n)
             /\ fate' = [fate EXCEPT ![n] = "alive"] \/ fate' = [Revoked(Token) EXCEPT ![n] = "alive"]
             /\ temporary' \in BOOLEAN
    <2>1. PICK n \in Token :
             /\ fate[n] = "unused" /\ Reply(t, n)
             /\ fate' = [fate EXCEPT ![n] = "alive"] \/ fate' = [Revoked(Token) EXCEPT ![n] = "alive"]
             /\ temporary' \in BOOLEAN
      BY <1>3
    <2>2. /\ fate' \in [Token -> {"unused", "alive", "spent", "revoked", "forsaken"}]
          /\ fate'[n] = "alive"
          /\ \A m \in Token : m # n => \/ fate'[m] = fate[m]
                                       \/ fate[m] = "alive" /\ fate'[m] = "revoked"
      BY <1>1, <2>1 DEF TypeOK, Revoked
    <2>3. /\ call' \in [Tab -> [Slot -> Call]]
          /\ \A u \in Tab : u # t => call'[u] = call[u]
          /\ call'[t]["user"].pc = "answered" /\ call'[t]["user"].token = n
      BY <1>1, <2>1, ReplyStep
    <2>4. TypeOK'
      BY <1>1, <1>2, <2>1, <2>2, <2>3 DEF TypeOK
    <2>5. Calm
      BY <1>2, <2>3 DEF Calm, Starting
    <2>6. \A u \in Tab, l \in Carrier : Carries(u, l)' =>
            \/ u = t /\ l = "call"
            \/ Carries(u, l) /\ Carried(u, l)' = Carried(u, l)
      BY <1>2, <2>3 DEF Carries, Carried, Carrier
    <2>7. /\ "call" \in Carrier /\ Carried(t, "call")' = n
          /\ \A u \in Tab : refresh'[u].state # "none" =>
               refresh[u].state # "none" /\ refresh'[u].sent = refresh[u].sent
      BY <1>2, <2>3 DEF Carrier, Carried
    <2>8. /\ \A m \in Token : Unknown(m) => fate'[m] \in {"alive", "revoked"}
          /\ \A m \in Token : fate[m] # "unused" => fate'[m] # "unused"
      BY <2>2 DEF Unknown
    <2>9. fate[n] = "unused" /\ fate'[n] = "alive" /\ stored' = stored
      BY <1>2, <2>1, <2>2
    <2>10. CarriedIsUnknown' /\ CarriedOnce' /\ KnownIsIssued'
      BY <2>4, <2>6, <2>7, <2>8, <2>9, IssueStep
    <2>11. StoredIsNotSpent'
      <3> SUFFICES ASSUME stored # NoToken, fate'[stored] = "spent"
                   PROVE  \E u \in Tab : refresh'[u].state = "answered" /\ refresh'[u].sent = stored
        BY <1>2 DEF StoredIsNotSpent
      <3>1. fate[stored] = "spent"
        BY <1>1, <2>2 DEF TypeOK
      <3> QED
        BY <1>2, <3>1 DEF StoredIsNotSpent, IInv
    <2> QED
      BY <2>4, <2>5, <2>10, <2>11, CalmStep DEF IInv
  <1>4. CASE /\ call[t]["user"].kind \notin {"login", "changePassword"} /\ Reply(t, NoToken)
             /\ fate' = Revoked({call[t]["user"].body}) \/ fate' = Revoked(Token)
             /\ temporary' \in BOOLEAN
    <2>1. /\ fate' \in [Token -> {"unused", "alive", "spent", "revoked", "forsaken"}]
          /\ \A m \in Token : \/ fate'[m] = fate[m]
                              \/ fate[m] = "alive" /\ fate'[m] = "revoked"
      BY <1>1, <1>4 DEF TypeOK, Revoked
    <2>2. /\ call' \in [Tab -> [Slot -> Call]]
          /\ \A u \in Tab : u # t => call'[u] = call[u]
          /\ call'[t]["user"].pc = "answered"
          /\ call'[t]["user"].kind \notin {"login", "changePassword"}
      BY <1>1, <1>4, ReplyStep
    <2>3. TypeOK'
      BY <1>1, <1>2, <1>4, <2>1, <2>2 DEF TypeOK
    <2>4. Calm
      BY <1>2, <2>2 DEF Calm, Starting
    <2>5. \A u \in Tab, l \in Carrier : Carries(u, l)' => Carries(u, l) /\ Carried(u, l)' = Carried(u, l)
      BY <1>2, <2>2 DEF Carries, Carried, Carrier
    <2>6. Quiet
      BY <1>2, <2>1, <2>5 DEF Quiet
    <2> QED
      BY <2>3, <2>4, <2>6, QuietStep, CalmStep DEF IInv, Tokens
  <1>5. temporary \in BOOLEAN
    BY <1>1 DEF TypeOK
  <1>6. ASSUME ServeLogin(t) \/ ServeChangePassword(t)
        PROVE  IInv'
    BY <1>3, <1>5, <1>6 DEF ServeLogin, ServeChangePassword, NextToken
  <1>7. ASSUME ServeLogout(t) \/ ServeReset(t)
        PROVE  IInv'
    BY <1>4, <1>5, <1>7 DEF ServeLogout, ServeReset, Reached
  <1> QED
    BY <1>6, <1>7 DEF Serve

LEMMA RefreshStoredIInv ==
  ASSUME IInv, NEW t \in Tab, RefreshStored(t)
  PROVE  IInv'
  <1>1. TypeOK /\ refresh[t].state = "answered"
    BY DEF IInv, RefreshStored
  <1>2. /\ stored' = refresh[t].new /\ refresh' = [refresh EXCEPT ![t] = NoRefresh]
        /\ access' = [access EXCEPT ![t] = "fresh"]
        /\ call' = [call EXCEPT ![t] = Woken(call[t], TRUE, "fresh")]
        /\ fate' = fate /\ UNCHANGED <<temporary, hasSession, me, page, removed>>
    BY DEF RefreshStored, server
  <1>3. /\ call' \in [Tab -> [Slot -> Call]] /\ \A u \in Tab : u # t => call'[u] = call[u]
        /\ Dropped(t)
    BY <1>1, <1>2, WokenHere
  <1>4. /\ refresh' \in [Tab -> Refresh] /\ refresh'[t].state = "none"
        /\ \A u \in Tab : u # t => refresh'[u] = refresh[u]
    BY <1>1, <1>2, AskType DEF TypeOK, NoRefresh
  <1>5. \A u \in Tab, l \in Carrier : Carries(u, l)' => Carries(u, l) /\ Carried(u, l)' = Carried(u, l)
    BY <1>3, <1>4 DEF Carries, Carried, Carrier, Dropped
  <1>6. /\ "refresh" \in Carrier /\ Carries(t, "refresh") /\ ~Carries(t, "refresh")'
        /\ stored' = Carried(t, "refresh")
        /\ \A u \in Tab : refresh'[u].state # "none" =>
             refresh[u].state # "none" /\ refresh'[u].sent = refresh[u].sent
    BY <1>1, <1>2, <1>4 DEF Carries, Carried, Carrier
  <1>7. Tokens' /\ stored' \in Token
    BY <1>2, <1>5, <1>6, DeliverStep
  <1>8. TypeOK'
    BY <1>1, <1>2, <1>3, <1>4, <1>7 DEF TypeOK
  <1>9. TabsHearOfTheEnd'
    BY <1>7, TokenAssumption DEF TabsHearOfTheEnd
  <1> QED
    BY <1>7, <1>8, <1>9 DEF IInv, Tokens

LEMMA StartSessionIInv ==
  ASSUME IInv, NEW t \in Tab, StartSession(t)
  PROVE  IInv'
  <1>1. TypeOK
    BY DEF IInv
  <1>2. /\ call[t]["user"].pc = "answered" /\ call[t]["user"].answer = "ok"
        /\ call[t]["user"].kind \in {"login", "changePassword"}
    BY DEF StartSession, Arrived, Outcomes, Writing
  <1>3. /\ stored' = call[t]["user"].token
        /\ access' = [access EXCEPT ![t] = "fresh"]
        /\ fate' = fate /\ UNCHANGED <<temporary, hasSession, page, refresh, removed>>
        /\ me' = [me EXCEPT ![t] = IF Idle(t, "me") THEN Fetching(@) ELSE @]
    BY DEF StartSession, server
  <1> DEFINE c == [call[t]["user"] EXCEPT !.pc = "starting"]
             m == IF Idle(t, "me") THEN [NoCall EXCEPT !.kind = "me", !.pc = "sent", !.bearer = "fresh"]
                  ELSE call[t]["me"]
  <1>4. call \in [Tab -> [Slot -> Call]] /\ call[t]["user"] \in Call /\ call[t]["me"] \in Call
        /\ "user" \in Slot /\ "me" \in Slot
    BY <1>1 DEF TypeOK, Slot
  <1>5. c \in Call /\ m \in Call /\ c.pc = "starting"
    <2>1. c \in Call /\ c.pc = "starting"
      BY <1>4 DEF Call
    <2>2. [NoCall EXCEPT !.kind = "me", !.pc = "sent", !.bearer = "fresh"] \in Call
      BY DEF Call, NoCall
    <2> QED
      BY <1>4, <2>1, <2>2
  <1>6. call' = [call EXCEPT ![t]["user"] = c, ![t]["me"] = m]
    BY <1>4 DEF StartSession, Call
  <1> HIDE DEF c, m
  <1>7. /\ call' \in [Tab -> [Slot -> Call]] /\ call'[t]["user"].pc = "starting"
        /\ \A u \in Tab : u # t => call'[u] = call[u]
    BY <1>4, <1>5, <1>6
  <1>8. \A u \in Tab, l \in Carrier : Carries(u, l)' => Carries(u, l) /\ Carried(u, l)' = Carried(u, l)
    BY <1>3, <1>7 DEF Carries, Carried, Carrier
  <1>9. /\ "call" \in Carrier /\ Carries(t, "call") /\ ~Carries(t, "call")'
        /\ stored' = Carried(t, "call")
        /\ \A u \in Tab : refresh'[u].state # "none" =>
             refresh[u].state # "none" /\ refresh'[u].sent = refresh[u].sent
    BY <1>2, <1>3, <1>7 DEF Carries, Carried, Carrier
  <1>10. Tokens' /\ stored' \in Token
    BY <1>3, <1>8, <1>9, DeliverStep
  <1>11. TypeOK'
    BY <1>1, <1>3, <1>7, <1>10 DEF TypeOK, Fetching
  <1>12. TabsHearOfTheEnd'
    BY <1>10, TokenAssumption DEF TabsHearOfTheEnd
  <1> QED
    BY <1>10, <1>11, <1>12 DEF IInv, Tokens

-----------------------------------------------------------------------------
(***************************************************************************)
(* Answers.                                                                *)
(***************************************************************************)
LEMMA RetryIInv ==
  ASSUME IInv, NEW t \in Tab, NEW s \in Slot, Retry(t, s)
  PROVE  IInv'
  <1>1. TypeOK /\ stored # NoToken
    BY DEF IInv, Retry, Again
  <1>2. /\ call' = [call EXCEPT ![t][s].pc = "waiting", ![t][s].again = TRUE, ![t][s].answer = "none"]
        /\ RefreshTokens(t)
        /\ UNCHANGED <<stored, temporary, access, hasSession, me, page, removed>> /\ fate' = fate
    BY DEF Retry, server
  <1> DEFINE c == [call[t][s] EXCEPT !.pc = "waiting", !.again = TRUE, !.answer = "none"]
  <1>3. call \in [Tab -> [Slot -> Call]] /\ call[t][s] \in Call
    BY <1>1 DEF TypeOK
  <1>4. c \in Call /\ c.pc = "waiting"
    BY <1>3 DEF Call
  <1>5. call' = [call EXCEPT ![t][s] = c]
    BY <1>2, <1>3 DEF Call
  <1> HIDE DEF c
  <1>6. /\ call' \in [Tab -> [Slot -> Call]] /\ call'[t][s].pc = "waiting"
        /\ \A u \in Tab, z \in Slot : (u # t \/ z # s) => call'[u][z] = call[u][z]
    BY <1>3, <1>4, <1>5
  <1>7. \A u \in Tab : Dropped(u)
    BY <1>6 DEF Dropped, Slot
  <1>8. /\ Ask(FALSE) \in Refresh /\ Ask(FALSE).state = "sent" /\ Ask(FALSE).sent = stored
        /\ refresh \in [Tab -> Refresh]
    BY <1>1, AskType DEF Ask, TypeOK
  <1>9. /\ refresh' \in [Tab -> Refresh]
        /\ \A u \in Tab : \/ refresh'[u] = refresh[u]
                          \/ /\ refresh[u].state # "answered" /\ refresh'[u].state = "sent"
                             /\ stored # NoToken /\ refresh'[u].sent = stored
    BY <1>1, <1>2, <1>8 DEF RefreshTokens
  <1>10. Quiet
    BY <1>2, <1>7, <1>9, DropQuiet
  <1>11. fate' \in [Token -> {"unused", "alive", "spent", "revoked", "forsaken"}]
    BY <1>1, <1>2 DEF TypeOK
  <1> QED
    BY <1>2, <1>6, <1>7, <1>9, <1>10, <1>11, RefreshEndIInv

\* The query ['me'] settles: a tab that was starting a session may have one.
LEMMA MeAnsweredIInv ==
  ASSUME IInv, NEW t \in Tab, MeAnswered(t)
  PROVE  IInv'
  <1>1. TypeOK
    BY DEF IInv
  <1>2. PICK o \in Outcomes(t, "me") :
          /\ me' = [me EXCEPT ![t] = CASE o = "ok" /\ temporary -> "temporary"
                                       [] o = "ok" /\ ~temporary -> "loaded"
                                       [] o = "401" -> IF @ = "absent" THEN "denied" ELSE "barred"
                                       [] OTHER     -> IF @ = "absent" THEN "failed" ELSE "broken"]
          /\ call' = [call EXCEPT ![t] = [s \in Slot |-> IF s = "me" \/ Starting(t)
                                                          THEN NoCall ELSE call[t][s]]]
          /\ hasSession' = [hasSession EXCEPT ![t] = @ \/ (Starting(t) /\ o = "ok")]
          /\ page' = [page EXCEPT ![t] = "app"] \/ page' = page
          /\ UNCHANGED <<stored, server, access, refresh, removed>>
    BY DEF MeAnswered, Starting
  <1>3. NoCall \in Call /\ NoCall.pc = "idle"
    BY <1>1, CallTypes
  <1>4. /\ call' \in [Tab -> [Slot -> Call]]
        /\ \A u \in Tab : call'[u]["user"] = call[u]["user"] \/ call'[u]["user"] = NoCall
    BY <1>1, <1>2, <1>3 DEF TypeOK, Slot
  <1>5. /\ hasSession' \in [Tab -> BOOLEAN]
        /\ \A u \in Tab : hasSession'[u] => hasSession[u] \/ Starting(u)
    BY <1>1, <1>2 DEF TypeOK
  <1>6. /\ me' \in [Tab -> {"absent", "loaded", "temporary"} \cup Denied \cup Failed]
        /\ page' \in [Tab -> {"app", "password", "reset"}]
    BY <1>1, <1>2 DEF TypeOK, Denied, Failed
  <1>7. TypeOK'
    BY <1>1, <1>2, <1>4, <1>5, <1>6 DEF TypeOK, server
  <1>8. \A u \in Tab : Dropped(u)
    BY <1>3, <1>4 DEF Dropped
  <1>9. Quiet /\ \A u \in Tab : Starting(u)' => Starting(u)
    BY <1>2, <1>8, DropQuiet DEF server
  <1>10. Calm
    BY <1>2, <1>5, <1>9 DEF Calm
  <1> QED
    BY <1>7, <1>9, <1>10, QuietStep, CalmStep DEF IInv, Tokens

LEMMA SettledIInv ==
  ASSUME IInv, NEW t \in Tab, Settled(t)
  PROVE  IInv'
  <1>1. TypeOK
    BY DEF IInv
  <1>2. /\ call' = [call EXCEPT ![t]["user"] = NoCall] /\ fate' = fate
        /\ UNCHANGED <<stored, temporary, access, hasSession, me, page, refresh, removed>>
    BY DEF Settled, server
  <1>3. NoCall \in Call /\ NoCall.pc = "idle" /\ "user" \in Slot
    BY <1>1, CallTypes
  <1>4. /\ call' \in [Tab -> [Slot -> Call]]
        /\ \A u \in Tab : call'[u]["user"] = call[u]["user"] \/ call'[u]["user"] = NoCall
    BY <1>1, <1>2, <1>3 DEF TypeOK
  <1>5. \A u \in Tab : Dropped(u)
    BY <1>3, <1>4 DEF Dropped
  <1>6. Quiet
    BY <1>2, <1>5, DropQuiet
  <1>7. /\ fate' \in [Token -> {"unused", "alive", "spent", "revoked", "forsaken"}]
        /\ refresh' \in [Tab -> Refresh]
    BY <1>1, <1>2 DEF TypeOK
  <1> QED
    BY <1>2, <1>4, <1>5, <1>6, <1>7, RefreshEndIInv

-----------------------------------------------------------------------------
\* Every step keeps the inductive invariant.
LEMMA NextIInv == IInv /\ [Next]_vars => IInv'
  <1> SUFFICES ASSUME IInv, [Next]_vars PROVE IInv'
    OBVIOUS
  <1>1. CASE UNCHANGED vars
    <2>1. TypeOK'
      BY <1>1 DEF IInv, TypeOK, vars
    <2> QED
      BY <1>1, <2>1, AsideIInv DEF vars
  <1>2. ASSUME NEW t \in Tab, Reload(t) \/ Expire(t) \/ FetchMe(t) \/ StorageEvent(t)
        PROVE  IInv'
    BY <1>2, ReloadIInv, ExpireIInv, FetchMeIInv, StorageEventIInv
  <1>3. ASSUME NEW t \in Tab, UserStep(t)
        PROVE  IInv'
    BY <1>3, PageIInv, LogoutIInv, VisitIInv DEF UserStep
  <1>4. ASSUME NEW t \in Tab, RefreshStep(t)
        PROVE  IInv'
    BY <1>4, CheckTokenIInv, RotateTokenIInv, RefreshStoredIInv, RefreshFailedIInv, RefreshRetriedIInv, AuthLostIInv
       DEF RefreshStep
  <1>5. ASSUME NEW t \in Tab, MeStep(t) \/ CallStep(t)
        PROVE  IInv'
    BY <1>5, RetryIInv, MeAnsweredIInv, ServeIInv, StartSessionIInv, LoggedOutIInv,
       PasswordResetIInv, SettledIInv DEF MeStep, CallStep, Slot
  <1> QED
    BY <1>1, <1>2, <1>3, <1>4, <1>5 DEF Next

\* The inductive invariant holds: a token on its way in an answer (doRefresh(),
\* startSession()) is known to nobody else until it is stored.
THEOREM Invariance == Spec => []IInv
  BY InitIInv, NextIInv, PTL DEF Spec

\* Every variable of the session keeps its type.
THEOREM TypeCorrect == Spec => []TypeOK
  <1>1. IInv => TypeOK
    BY DEF IInv
  <1> QED
    BY <1>1, Invariance, PTL

\* However many tabs refresh, retry and start sessions at once, none leaves a
\* used-up token in localStorage, except for one whose successor was lost.
THEOREM StoredStaysGood == Spec => []StoredIsNotSpent
  <1>1. IInv => StoredIsNotSpent
    BY DEF IInv
  <1> QED
    BY <1>1, Invariance, PTL

\* However many tabs there are, one that believes in a session whose token is
\* gone is about to hear of it.
THEOREM EveryTabHears == Spec => []TabsHearOfTheEnd
  <1>1. IInv => TabsHearOfTheEnd
    BY DEF IInv
  <1> QED
    BY <1>1, Invariance, PTL
-----------------------------------------------------------------------------
(***************************************************************************)
(* LiveTokenIsKept.  A tab whose refresh was refused gives up only if the  *)
(* stored token is the one it sent, and no token comes back to life.       *)
(***************************************************************************)
RefusedIsDead ==
  \A t \in Tab : refresh[t].state = "refused" => fate[refresh[t].sent] # "alive"

\* No step brings a token back to life.
NoRevival == \A n \in Token : fate'[n] = "alive" => fate[n] \in {"alive", "unused"}
\* A step after which a refresh is refused only if it was, or for a dead token.
Refusing ==
  \A t \in Tab : refresh'[t].state = "refused" =>
    \/ refresh'[t] = refresh[t]
    \/ /\ refresh'[t].sent = refresh[t].sent /\ refresh[t].state = "sent"
       /\ fate[refresh[t].sent] # "alive"

LEMMA RefusedStep ==
  ASSUME IInv, RefusedIsDead, NoRevival, Refusing
  PROVE  RefusedIsDead'
  <1> SUFFICES ASSUME NEW t \in Tab, refresh'[t].state = "refused"
               PROVE  fate'[refresh'[t].sent] # "alive"
    BY DEF RefusedIsDead
  <1>1. /\ refresh'[t].sent = refresh[t].sent /\ refresh[t].state # "none"
        /\ fate[refresh[t].sent] # "alive"
    BY DEF Refusing, RefusedIsDead
  <1>2. refresh[t].sent \in Token /\ fate[refresh[t].sent] # "unused"
    BY <1>1 DEF IInv, KnownIsIssued
  <1> QED
    BY <1>1, <1>2 DEF NoRevival

\* A refresh that is set going, or over.
LEMMA SetRefusing ==
  ASSUME TypeOK, NEW t \in Tab, NEW r, r.state # "refused",
         refresh' = [refresh EXCEPT ![t] = r]
  PROVE  Refusing
  BY DEF Refusing, TypeOK

LEMMA StatesAsked ==
  /\ NoRefresh.state = "none"
  /\ \A b \in BOOLEAN : Ask(b).state = "sent"
  /\ \A token : LoadedRefresh(token).state \in {"none", "sent"}
  BY DEF NoRefresh, Ask, LoadedRefresh

LEMMA ApiRefusing ==
  ASSUME TypeOK, NEW t \in Tab, NEW s \in Slot, NEW kind, NEW body, Api(t, s, kind, body)
  PROVE  Refusing
  <1>1. CASE RefreshFirst(t, kind) /\ refresh[t].state = "none"
    <2>1. refresh' = [refresh EXCEPT ![t] = Ask(FALSE)]
      BY <1>1 DEF Api, RefreshTokens
    <2> QED
      BY <2>1, SetRefusing, StatesAsked
  <1>2. CASE ~(RefreshFirst(t, kind) /\ refresh[t].state = "none")
    BY <1>2 DEF Api, RefreshTokens, Refusing
  <1> QED
    BY <1>1, <1>2

\* Reload and RefreshFailed forsake a token at most.
LEMMA ForsakeStep ==
  ASSUME TypeOK, NEW t \in Tab, fate' = Forsake(t)
  PROVE  NoRevival
  BY DEF NoRevival, Forsake, TypeOK

\* What the server does to tokens.
LEMMA IssueNoRevival ==
  ASSUME TypeOK, NEW n \in Token, fate[n] = "unused", NEW gone \in Token,
         \/ fate' = [fate EXCEPT ![n] = "alive"]
         \/ fate' = [Revoked(Token) EXCEPT ![n] = "alive"]
         \/ fate' = [fate EXCEPT ![gone] = "spent", ![n] = "alive"]
  PROVE  NoRevival
  BY DEF NoRevival, Revoked, TypeOK

LEMMA RevokeNoRevival ==
  ASSUME TypeOK, NEW tokens, fate' = Revoked(tokens)
  PROVE  NoRevival
  BY DEF NoRevival, Revoked, TypeOK

LEMMA StepRefusedIsDead ==
  ASSUME IInv, RefusedIsDead, [Next]_vars
  PROVE  RefusedIsDead'
  <1>1. TypeOK
    BY DEF IInv
  <1>2. CASE UNCHANGED vars
    BY <1>2 DEF RefusedIsDead, vars
  <1>3. ASSUME NEW t \in Tab, Reload(t)
        PROVE  NoRevival /\ Refusing
    <2>1. fate' = Forsake(t) /\ refresh' = [refresh EXCEPT ![t] = LoadedRefresh(stored)]
      BY <1>3 DEF Reload
    <2> QED
      BY <1>1, <2>1, ForsakeStep, SetRefusing, StatesAsked
  <1>4. ASSUME NEW t \in Tab, FetchMe(t) \/ Login(t) \/ ChangePassword(t) \/ ResetPassword(t) \/ Query(t)
        PROVE  NoRevival /\ Refusing
    <2>1. PICK s \in Slot, kind \in Kind : Api(t, s, kind, NoToken)
      BY <1>4 DEF FetchMe, Login, ChangePassword, ResetPassword, Query, Slot, Kind, Commands
    <2>2. fate' = fate
      BY <1>4 DEF FetchMe, Login, ChangePassword, ResetPassword, Query, server
    <2> QED
      BY <1>1, <2>1, <2>2, ApiRefusing DEF NoRevival
  <1>5. ASSUME NEW t \in Tab, Logout(t) \/ PasswordReset(t)
        PROVE  NoRevival /\ Refusing
    <2>1. fate' = fate /\ (Api(t, "user", "logout", stored) \/ refresh' = refresh)
      BY <1>5 DEF Logout, PasswordReset, server
    <2>2. "user" \in Slot
      BY DEF Slot
    <2>3. CASE Api(t, "user", "logout", stored)
      BY <1>1, <2>1, <2>2, <2>3, ApiRefusing DEF NoRevival
    <2>4. CASE refresh' = refresh
      BY <2>1, <2>4 DEF NoRevival, Refusing
    <2> QED
      BY <2>1, <2>3, <2>4
  <1>6. ASSUME NEW t \in Tab, CheckToken(t)
        PROVE  NoRevival /\ Refusing
    <2>1. fate' = fate /\ refresh[t].state = "sent" /\ refresh[t] \in Refresh
      BY <1>1, <1>6 DEF CheckToken, server, TypeOK
    <2>2. CASE fate[refresh[t].sent] = "alive"
      <3>1. refresh' = [refresh EXCEPT ![t].state = "checked"]
        BY <1>6, <2>2 DEF CheckToken
      <3> QED
        BY <1>1, <2>1, <3>1 DEF NoRevival, Refusing, TypeOK, Refresh
    <2>3. CASE fate[refresh[t].sent] # "alive"
      <3>1. refresh' = [refresh EXCEPT ![t].state = "refused"]
        BY <1>6, <2>3 DEF CheckToken
      <3>2. refresh'[t].sent = refresh[t].sent /\ \A u \in Tab : u # t => refresh'[u] = refresh[u]
        BY <1>1, <2>1, <3>1 DEF TypeOK, Refresh
      <3> QED
        BY <2>1, <2>3, <3>2 DEF NoRevival, Refusing
    <2> QED
      BY <2>2, <2>3
  <1>7. ASSUME NEW t \in Tab, RotateToken(t)
        PROVE  NoRevival /\ Refusing
    <2>1. PICK n \in Token :
            /\ fate[n] = "unused"
            /\ fate' = [fate EXCEPT ![refresh[t].sent] = "spent", ![n] = "alive"]
            /\ refresh' = [refresh EXCEPT ![t].state = "answered", ![t].new = n]
      BY <1>7 DEF RotateToken, NextToken
    <2>2. refresh[t].sent \in Token /\ refresh[t] \in Refresh
      BY <1>1, <1>7 DEF RotateToken, IInv, KnownIsIssued, TypeOK
    <2>3. Refusing
      <3>1. refresh'[t].state = "answered" /\ \A u \in Tab : u # t => refresh'[u] = refresh[u]
        BY <1>1, <2>1, <2>2 DEF TypeOK, Refresh
      <3> QED
        BY <3>1 DEF Refusing
    <2> QED
      BY <1>1, <2>1, <2>2, <2>3, IssueNoRevival
  <1>8. ASSUME NEW t \in Tab, Serve(t)
        PROVE  NoRevival /\ Refusing
    <2>1. \/ \E tokens : fate' = Revoked(tokens)
          \/ \E n \in Token : /\ fate[n] = "unused"
                              /\ \/ fate' = [fate EXCEPT ![n] = "alive"]
                                 \/ fate' = [Revoked(Token) EXCEPT ![n] = "alive"]
      BY <1>8 DEF Serve, ServeLogin, ServeChangePassword, ServeLogout, ServeReset, NextToken
    <2>2. NoRevival
      BY <1>1, <2>1, IssueNoRevival, RevokeNoRevival
    <2> QED
      BY <1>8, <2>2 DEF Serve, Refusing
  <1>9. ASSUME NEW t \in Tab, RefreshStored(t) \/ RefreshRetried(t) \/ AuthLost(t)
        PROVE  NoRevival /\ Refusing
    <2>1. /\ fate' = fate
          /\ \/ refresh' = [refresh EXCEPT ![t] = NoRefresh]
             \/ refresh' = [refresh EXCEPT ![t] = Ask(TRUE)]
      BY <1>9 DEF RefreshStored, RefreshRetried, AuthLost, server
    <2> QED
      BY <1>1, <2>1, SetRefusing, StatesAsked DEF NoRevival
  <1>10. ASSUME NEW t \in Tab, RefreshFailed(t)
         PROVE  NoRevival /\ Refusing
    <2>1. fate' = Forsake(t) /\ refresh' = [refresh EXCEPT ![t] = NoRefresh]
      BY <1>10 DEF RefreshFailed
    <2> QED
      BY <1>1, <2>1, ForsakeStep, SetRefusing, StatesAsked
  <1>11. ASSUME NEW t \in Tab, NEW s \in Slot, Retry(t, s)
         PROVE  NoRevival /\ Refusing
    <2>1. fate' = fate /\ (refresh' = refresh \/ refresh' = [refresh EXCEPT ![t] = Ask(FALSE)])
      BY <1>11 DEF Retry, RefreshTokens, server
    <2>2. CASE refresh' = refresh
      BY <2>1, <2>2 DEF NoRevival, Refusing
    <2>3. CASE refresh' = [refresh EXCEPT ![t] = Ask(FALSE)]
      BY <1>1, <2>1, <2>3, SetRefusing, StatesAsked DEF NoRevival
    <2> QED
      BY <2>1, <2>2, <2>3
  <1>12. ASSUME NEW t \in Tab,
                \/ Expire(t) \/ (\E p \in {"app", "password"} : Visit(t, p))
                \/ MeAnswered(t) \/ StartSession(t) \/ LoggedOut(t) \/ Settled(t) \/ StorageEvent(t)
         PROVE  NoRevival /\ Refusing
    <2>1. fate' = fate /\ refresh' = refresh
      BY <1>12 DEF Expire, Visit, MeAnswered, StartSession, LoggedOut, Settled, StorageEvent, server
    <2> QED
      BY <2>1 DEF NoRevival, Refusing
  <1>13. ASSUME Next
         PROVE  NoRevival /\ Refusing
    BY <1>3, <1>4, <1>5, <1>6, <1>7, <1>8, <1>9, <1>10, <1>11, <1>12, <1>13
       DEF Next, UserStep, RefreshStep, MeStep, CallStep, Slot
  <1> QED
    BY <1>2, <1>13, RefusedStep

\* A step that empties localStorage of a good token.
LEMMA StepKeepsLive ==
  ASSUME IInv, RefusedIsDead, Next, stored # NoToken, fate[stored] = "alive", stored' = NoToken
  PROVE  \E t \in Tab :
           LoggedOut(t) \/ StorageEvent(t) \/ (AuthLost(t) /\ refresh[t].retried)
  <1>1. stored' # stored
    OBVIOUS
  <1>2. ASSUME NEW t \in Tab, AuthLost(t)
        PROVE  refresh[t].retried
    BY <1>2 DEF AuthLost, RefusedIsDead
  <1>3. ASSUME NEW t \in Tab, RefreshStored(t)
        PROVE  FALSE
    <2>1. Carries(t, "refresh") /\ "refresh" \in Carrier /\ stored' = Carried(t, "refresh")
      BY <1>3 DEF RefreshStored, Carries, Carried, Carrier
    <2> QED
      BY <2>1, TokenAssumption DEF IInv, CarriedIsUnknown, Unknown
  <1>4. ASSUME NEW t \in Tab, StartSession(t)
        PROVE  FALSE
    <2>1. /\ call[t]["user"].pc = "answered" /\ call[t]["user"].answer = "ok"
          /\ call[t]["user"].kind \in {"login", "changePassword"}
      BY <1>4 DEF StartSession, Arrived, Outcomes, Writing
    <2>2. Carries(t, "call") /\ "call" \in Carrier /\ stored' = Carried(t, "call")
      BY <1>4, <2>1 DEF StartSession, Carries, Carried, Carrier
    <2> QED
      BY <2>2, TokenAssumption DEF IInv, CarriedIsUnknown, Unknown
  <1>5. ASSUME NEW t \in Tab, UserStep(t) \/ PasswordReset(t)
        PROVE  FALSE
    BY <1>1, <1>5 DEF UserStep, Login, ChangePassword, Logout, ResetPassword, Query, Visit, PasswordReset
  <1>6. ASSUME NEW t \in Tab, Reload(t) \/ Expire(t) \/ FetchMe(t) \/ MeStep(t)
        PROVE  FALSE
    BY <1>1, <1>6 DEF Reload, Expire, FetchMe, MeStep, Retry, MeAnswered
  <1>7. ASSUME NEW t \in Tab,
               \/ CheckToken(t) \/ RotateToken(t) \/ RefreshFailed(t) \/ RefreshRetried(t)
               \/ Serve(t) \/ Retry(t, "user") \/ Settled(t)
        PROVE  FALSE
    BY <1>1, <1>7 DEF CheckToken, RotateToken, RefreshFailed, RefreshRetried, Serve, Retry, Settled
  <1>8. PICK t \in Tab : \/ Reload(t) \/ Expire(t) \/ FetchMe(t) \/ UserStep(t)
                         \/ RefreshStep(t) \/ MeStep(t) \/ CallStep(t) \/ StorageEvent(t)
    BY DEF Next
  <1>9. LoggedOut(t) \/ StorageEvent(t) \/ AuthLost(t)
    BY <1>3, <1>4, <1>5, <1>6, <1>7, <1>8 DEF RefreshStep, CallStep
  <1> QED
    BY <1>2, <1>9

\* However many tabs refresh at once, a token the server still takes leaves
\* localStorage only by a logout, by the event of an earlier removal, or after a
\* second refusal: a tab that was refused once has read the storage again.
THEOREM LiveTokenStays == Spec => LiveTokenIsKept
  <1>1. Init => RefusedIsDead
    <2> SUFFICES ASSUME Init, NEW t \in Tab
                 PROVE  refresh[t].state # "refused"
      BY DEF RefusedIsDead
    <2>1. PICK token : refresh = [u \in Tab |-> LoadedRefresh(token)]
      BY DEF Init
    <2> QED
      BY <2>1, StatesAsked
  <1>2. IInv /\ RefusedIsDead /\ [Next]_vars => RefusedIsDead'
    BY StepRefusedIsDead
  <1>3. IInv /\ RefusedIsDead /\ [Next]_vars =>
          [stored # NoToken /\ fate[stored] = "alive" /\ stored' = NoToken =>
             \E t \in Tab :
               LoggedOut(t) \/ StorageEvent(t) \/ (AuthLost(t) /\ refresh[t].retried)]_vars
    BY StepKeepsLive
  <1> QED
    BY <1>1, <1>2, <1>3, Invariance, PTL DEF Spec, LiveTokenIsKept
================================================================================
