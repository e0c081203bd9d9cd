---------------------------- MODULE SessionClient ----------------------------
(***************************************************************************)
(* The browser's side of a session: tokens in localStorage, which every    *)
(* tab shares; axios interceptors that refresh them when a call is         *)
(* answered 401, once for all calls of a tab that wait for it; and what    *)
(* AuthProvider makes of them.                                             *)
(*                                                                         *)
(* The server is what Sessions has of it, seen from a browser: a refresh   *)
(* token works once, and a second use ends the user's sessions.  Tokens    *)
(* come in pairs, numbered as they are issued.  AUTH_TOKEN_MODE is "body", *)
(* its default.                                                            *)
(***************************************************************************)
EXTENDS Naturals, Sequences, FiniteSets

CONSTANTS Users, NoUser,
          Tabs, Calls,
          MaxTokens,   \* pairs of tokens issued
          Faults,      \* "lost": replies to a refresh that are lost; "close": tabs
                       \* closed or reloaded; "logout": a logout that fails
          Quiet        \* tabs log out only while none of their calls is under way

ClientAssumption ==
  /\ NoUser \notin Users
  /\ MaxTokens \in Nat /\ Quiet \in BOOLEAN
  /\ Faults \subseteq {"lost", "close", "logout"}

VARIABLES store,   \* localStorage
          tab,     \* tab[t]: the state of AuthProvider
          flight,  \* flight[t]: the refresh under way
          call,    \* call[c]: a call through http
          owner,   \* owner[n]: the user the n-th pair was issued to
          live,    \* refresh tokens the server accepts
          fresh,   \* access tokens that have not expired
          stray,   \* refreshes on their way whose tab was closed
          cut,     \* tokens that were sent, and no tab heard what became of them
          reused,  \* the first token shown that the server did not accept, 0: none
          me       \* whose address was entered last

vars == <<store, tab, flight, call, owner, live, fresh, stray, cut, reused, me>>
server == <<owner, live, fresh, stray, cut, reused>>

Pairs == DOMAIN owner
MaybeUser == Users \cup {NoUser}
Tab == [pc : {"closed", "loading", "ready", "leaving"}, user : MaybeUser, otp : MaybeUser]
Flight == [pc : {"none", "sent", "answered"}, token : Nat, new : Nat]
Call == [pc : {"idle", "sent", "401", "waiting", "done"}, tab : Tabs, token : Nat, retry : BOOLEAN]

NoFlight == [pc |-> "none", token |-> 0, new |-> 0]
EmptyStore == [access |-> 0, refresh |-> 0, device |-> NoUser]

\* Types, and: nobody is signed in on a page that is loading, and only a tab
\* that is open waits for a refresh.
ClientTypeOK ==
  /\ store \in [access : 0..Len(owner), refresh : 0..Len(owner), device : MaybeUser]
  /\ tab \in [Tabs -> Tab] /\ flight \in [Tabs -> Flight] /\ call \in [Calls -> Call]
  /\ stray \subseteq cut /\ cut \subseteq Pairs /\ reused \in {0} \cup Pairs
  /\ \A t \in Tabs : tab[t].pc \in {"closed", "loading"} => tab[t].user = NoUser
  /\ \A t \in Tabs : flight[t].pc # "none" => tab[t].pc # "closed"
  /\ \A c \in Calls : call[c].pc = "waiting" => flight[call[c].tab].pc # "none"

Init ==
  /\ store = EmptyStore
  /\ tab = [t \in Tabs |-> [pc |-> "closed", user |-> NoUser, otp |-> NoUser]]
  /\ flight = [t \in Tabs |-> NoFlight]
  /\ \E t \in Tabs : call = [c \in Calls |-> [pc |-> "idle", tab |-> t, token |-> 0, retry |-> FALSE]]
  /\ owner = << >> /\ live = {} /\ fresh = {}
  /\ stray = {} /\ cut = {} /\ reused = 0
  /\ me = NoUser

-----------------------------------------------------------------------------
\* decodeUserFromToken: whose token it is; expiry is not looked at.
Decode(n) == IF n = 0 THEN NoUser ELSE owner'[n]

\* The server signs user u in.
Issue(u) ==
  /\ Len(owner) < MaxTokens
  /\ owner' = Append(owner, u)
  /\ live' = live \cup {Len(owner')}
  /\ fresh' = fresh \cup {Len(owner')}
  /\ UNCHANGED <<stray, cut, reused>>

\* refreshAccessToken, up to its request; without a token it is over at once.
StartRefresh == [pc |-> IF store.refresh = 0 THEN "answered" ELSE "sent",
                 token |-> store.refresh, new |-> 0]

\* restoreSession, when a page loads.
RestoreSession(t) ==
  /\ tab[t].pc = "closed"
  /\ IF store.access # 0
     THEN /\ tab' = [tab EXCEPT ![t].pc = "ready", ![t].user = owner[store.access]]
          /\ UNCHANGED flight
     ELSE /\ tab' = [tab EXCEPT ![t].pc = "loading"]
          /\ flight' = [flight EXCEPT ![t] = StartRefresh]
  /\ UNCHANGED <<store, call, server, me>>

\* POST /auth/refresh at the server: a token it accepts is exchanged for a
\* new pair, any other ends the sessions of its user.
Exchange(n) ==
  /\ Len(owner) < MaxTokens
  /\ owner' = Append(owner, owner[n])
  /\ live' = (live \ {n}) \cup {Len(owner')}
  /\ fresh' = fresh \cup {Len(owner')}
  /\ UNCHANGED reused

EndSessions(n) ==
  /\ live' = {m \in live : owner[m] # owner[n]}
  /\ reused' = IF reused = 0 THEN n ELSE reused
  /\ UNCHANGED <<owner, fresh>>

ServeRefresh(t) ==
  LET n == flight[t].token IN
  /\ flight[t].pc = "sent"
  /\ \/ /\ n \in live /\ Exchange(n)
        /\ \/ /\ flight' = [flight EXCEPT ![t].pc = "answered", ![t].new = Len(owner')]
              /\ UNCHANGED cut
           \/ /\ "lost" \in Faults
              /\ flight' = [flight EXCEPT ![t].pc = "answered"]
              /\ cut' = cut \cup {n}
     \/ /\ n \notin live /\ EndSessions(n)
        /\ flight' = [flight EXCEPT ![t].pc = "answered"]
        /\ UNCHANGED cut
  /\ UNCHANGED <<store, tab, call, stray, me>>

\* A refresh arrives after its tab was closed: nobody hears the answer.
ServeStray(n) ==
  /\ n \in stray /\ stray' = stray \ {n}
  /\ IF n \in live THEN Exchange(n) ELSE EndSessions(n)
  /\ UNCHANGED <<store, tab, flight, call, cut, me>>

Waiting(t) == {c \in Calls : call[c].tab = t /\ call[c].pc = "waiting"}

\* The new pair is stored, and every call that waited is sent again with it.
Refreshed(t) ==
  LET n == flight[t].new IN
  /\ flight[t].pc = "answered" /\ n # 0
  /\ store' = [store EXCEPT !.access = n, !.refresh = n]
  /\ tab' = IF tab[t].pc = "loading"
            THEN [tab EXCEPT ![t].pc = "ready", ![t].user = owner[n]] ELSE tab
  /\ call' = [c \in Calls |-> IF c \in Waiting(t)
                THEN [call[c] EXCEPT !.pc = "sent", !.token = n, !.retry = TRUE] ELSE call[c]]
  /\ flight' = [flight EXCEPT ![t] = NoFlight]
  /\ UNCHANGED <<server, me>>

SignOut(t) == [tab EXCEPT ![t] = [pc |-> "ready", user |-> NoUser, otp |-> NoUser]]

\* No new token: a page that loads is nobody's; a call that waited clears the
\* storage and the tab (logout of http.ts, app:logout) and is rejected.
RefreshFailed(t) ==
  /\ flight[t].pc = "answered" /\ flight[t].new = 0
  /\ tab' = SignOut(t)
  /\ store' = IF Waiting(t) = {} THEN store ELSE EmptyStore
  /\ call' = [c \in Calls |-> IF c \in Waiting(t) THEN [call[c] EXCEPT !.pc = "done"] ELSE call[c]]
  /\ flight' = [flight EXCEPT ![t] = NoFlight]
  /\ UNCHANGED <<server, me>>

-----------------------------------------------------------------------------
\* The request interceptor: a call goes out with the token that is stored.
SendCall(c, t) ==
  /\ call[c].pc = "idle"
  /\ tab[t].pc = "ready" /\ tab[t].user # NoUser
  /\ call' = [call EXCEPT ![c] = [pc |-> "sent", tab |-> t, token |-> store.access, retry |-> FALSE]]
  /\ UNCHANGED <<store, tab, flight, server, me>>

\* The server's guard.
ServeCall(c) ==
  /\ call[c].pc = "sent"
  /\ call' = [call EXCEPT ![c].pc = IF call[c].token \in fresh THEN "done" ELSE "401"]
  /\ UNCHANGED <<store, tab, flight, server, me>>

\* Faulty: each call starts a refresh of its own.
Receive401Alone(c) ==
  LET t == call[c].tab IN
  /\ call[c].pc = "401"
  /\ call' = [call EXCEPT ![c].pc = IF call[c].retry THEN "done" ELSE "waiting"]
  /\ flight' = IF ~call[c].retry THEN [flight EXCEPT ![t] = StartRefresh] ELSE flight
  /\ UNCHANGED <<store, tab, server, me>>

\* The response interceptor: the first 401 of a call waits for the refresh
\* under way, or starts one; the second is the caller's to handle.
Receive401(c) ==
  LET t == call[c].tab IN
  /\ call[c].pc = "401"
  /\ call' = [call EXCEPT ![c].pc = IF call[c].retry THEN "done" ELSE "waiting"]
  /\ flight' = IF ~call[c].retry /\ flight[t].pc = "none"
               THEN [flight EXCEPT ![t] = StartRefresh] ELSE flight
  /\ UNCHANGED <<store, tab, server, me>>

-----------------------------------------------------------------------------
\* login: a device the server trusts gets tokens, any other address a code;
\* in either case a token that is in the storage signs its owner in.
Login(t, u) ==
  /\ tab[t].pc = "ready" /\ tab[t].user = NoUser
  /\ IF store.device = u
     THEN Issue(u) /\ store' = [store EXCEPT !.access = Len(owner'), !.refresh = Len(owner')]
     ELSE UNCHANGED <<store, server>>
  /\ me' = u
  /\ LET found == Decode(store'.access)
     IN  tab' = IF found # NoUser THEN [tab EXCEPT ![t].user = found, ![t].otp = NoUser]
                ELSE [tab EXCEPT ![t].otp = u]
  /\ UNCHANGED <<flight, call>>

\* verifyOtp with the right code; the customer may have the device trusted.
VerifyOtp(t, trust) ==
  LET u == tab[t].otp IN
  /\ tab[t].pc = "ready" /\ tab[t].user = NoUser /\ u # NoUser
  /\ Issue(u)
  /\ store' = [access |-> Len(owner'), refresh |-> Len(owner'),
               device |-> IF trust THEN u ELSE store.device]
  /\ tab' = [tab EXCEPT ![t].user = u, ![t].otp = NoUser]
  /\ UNCHANGED <<flight, call, me>>

Busy(t) == flight[t].pc # "none" \/ \E c \in Calls : call[c].tab = t /\ call[c].pc \notin {"idle", "done"}

\* logout: POST /auth/logout with an empty body, which revokes nothing.
PostLogout(t) ==
  /\ tab[t].pc = "ready" /\ tab[t].user # NoUser
  /\ Quiet => ~Busy(t)
  /\ tab' = [tab EXCEPT ![t].pc = "leaving"]
  /\ UNCHANGED <<store, flight, call, server, me>>

\* Its answer: the storage is cleared, unless the request failed; the tab is
\* signed out in either case.
LogoutDone(t) ==
  /\ tab[t].pc = "leaving"
  /\ \/ store' = EmptyStore
     \/ "logout" \in Faults /\ UNCHANGED store
  /\ tab' = SignOut(t)
  /\ UNCHANGED <<flight, call, server, me>>

-----------------------------------------------------------------------------
\* The tab is closed or reloaded: nobody waits for its answers, and what was
\* sent still arrives.
Unheard(t) == IF flight[t].pc # "none" /\ flight[t].token # 0 THEN {flight[t].token} ELSE {}

CloseTab(t) ==
  /\ "close" \in Faults
  /\ tab[t].pc # "closed"
  /\ tab' = [tab EXCEPT ![t] = [pc |-> "closed", user |-> NoUser, otp |-> NoUser]]
  /\ flight' = [flight EXCEPT ![t] = NoFlight]
  /\ call' = [c \in Calls |-> IF call[c].tab = t /\ call[c].pc # "idle" THEN [call[c] EXCEPT !.pc = "done"] ELSE call[c]]
  /\ cut' = cut \cup Unheard(t)
  /\ stray' = IF flight[t].pc = "sent" THEN stray \cup Unheard(t) ELSE stray
  /\ UNCHANGED <<store, owner, live, fresh, reused, me>>

\* The access token of a pair expires.
Expire(n) ==
  /\ n \in fresh
  /\ fresh' = fresh \ {n}
  /\ UNCHANGED <<store, tab, flight, call, owner, live, stray, cut, reused, me>>

Answered(t) == ServeRefresh(t) \/ Refreshed(t) \/ RefreshFailed(t)
Settling(c) == ServeCall(c) \/ Receive401(c)

Next ==
  \/ \E t \in Tabs : RestoreSession(t) \/ Answered(t) \/ PostLogout(t) \/ LogoutDone(t) \/ CloseTab(t)
  \/ \E t \in Tabs, u \in Users : Login(t, u)
  \/ \E t \in Tabs, trust \in BOOLEAN : VerifyOtp(t, trust)
  \/ \E c \in Calls, t \in Tabs : SendCall(c, t)
  \/ \E c \in Calls : Settling(c)
  \/ \E n \in Pairs : Expire(n) \/ ServeStray(n)

Spec == Init /\ [][Next]_vars

\* The server answers, and the browser runs what waits for an answer.
FairSpec == Spec
  /\ \A t \in Tabs : WF_vars(Answered(t))
  /\ \A c \in Calls : WF_vars(Settling(c))

-----------------------------------------------------------------------------
\* With one tab the server takes a token for reused only if an earlier refresh
\* with it was cut off, by a reload or by the loss of its answer: however many
\* calls are answered 401 at a time, the session goes on (http.ts:107-112).
ReusedWasCutOff == reused # 0 => reused \in cut

\* With one tab whose logouts are answered, the user a tab shows is the one
\* whose address was entered.
SignedInAsSelf == \A t \in Tabs : tab[t].user \in {NoUser, me}

\* Every call is answered or rejected, a refresh leaves none waiting; only the
\* bound on tokens may keep a refresh from its answer.
CallsSettle == \A c \in Calls :
  call[c].pc = "sent" ~>
    \/ call[c].pc = "done"
    \/ Len(owner) = MaxTokens /\ flight[call[c].tab].pc = "sent"

\* "Trusted-device flow: backend may return tokens directly": a login that
\* signs in without a code got tokens in its answer.
DirectSignInIsTrusted == [][
  \A t \in Tabs :
    tab[t].pc = "ready" /\ tab'[t].pc = "ready" /\ tab[t].user = NoUser /\ tab'[t].user # NoUser =>
      Len(owner') > Len(owner)]_vars

\* "POST /auth/logout: revoke refresh token": after a logout that was answered
\* the token the browser had is of no use.
LogoutRevokes == [][
  \A t \in Tabs :
    tab[t].pc = "leaving" /\ tab'[t].pc = "ready" /\ store' = EmptyStore =>
      store.refresh \notin live']_vars

=============================================================================
