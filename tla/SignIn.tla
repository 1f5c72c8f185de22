------------------------------- MODULE SignIn -------------------------------
(***************************************************************************)
(* Signing in: the gateway's access and refresh tokens, and the web pages  *)
(* of one browser that live by them.                                       *)
(*                                                                         *)
(* A sign-in opens a session with an access token, which every call        *)
(* carries, and a refresh token, which the browser keeps in a cookie that  *)
(* all its pages share.  A refresh token is good for one refresh: the      *)
(* gateway revokes it and answers with a new pair, and refuses a second    *)
(* use as a reuse.  A page that is denied a call asks for one refresh,     *)
(* which everything in that page waits for, and repeats the call.          *)
(*                                                                         *)
(* A pair of tokens is minted together and is one entry of tokens.  An     *)
(* access token that is expired, revoked or deleted is "dead": the gateway *)
(* answers the same.  A refresh token that is expired and revoked is       *)
(* "gone", since the clean-up that precedes every look-up deletes it.      *)
(***************************************************************************)
EXTENDS Naturals, Sequences, FiniteSets

CONSTANTS
  Pages,        \* the pages (tabs) of one browser
  Nobody,       \* not a page
  Kinds,        \* what the pages call for
  MaxTokens,    \* bound: pairs of tokens ever minted
  MaxFaults     \* bound: lost requests and answers, refusals by the rate limit, reloads

ASSUME SignInAssumption ==
  /\ Nobody \notin Pages
  /\ Kinds \subseteq {"act", "look", "logout", "revoke_all"}
  /\ MaxTokens \in Nat \ {0}
  /\ MaxFaults \in Nat

VARIABLES
  sessions,   \* auth_sessions: the status of each, in order of creation
  tokens,     \* auth_refresh_tokens and auth_access_tokens, in order of minting
  cookie,     \* the browser's refresh cookie: an index of tokens, 0 for none
  stored,     \* the browser's local storage: authenticated
  page,       \* each page's auth state
  refresh,    \* each page's refreshPromiseRef and the request behind it
  call,       \* the call each page is waiting for
  faults

vars == <<sessions, tokens, cookie, stored, page, refresh, call, faults>>

Tokens == 1 .. Len(tokens)

SignedOut == [auth |-> FALSE, token |-> 0]
Idle      == [at |-> "idle", cookie |-> 0, next |-> 0]
NoCall    == [at |-> "none", kind |-> "act", token |-> 0]

-----------------------------------------------------------------------------
(* The store *)

\* One entry of tokens.  by names the page that spent the refresh token and
\* has heard or will hear of it.
Pair(s) == [session |-> s, refresh |-> "live", access |-> "live", by |-> Nobody]

AccessAccepted(t) == t \in Tokens /\ tokens[t].access = "live"

RefreshOutcome(t) ==
  IF t \notin Tokens THEN "missing"
  ELSE CASE tokens[t].refresh = "revoked"                             -> "reuse"
         [] tokens[t].refresh = "live"
              /\ sessions[tokens[t].session] = "active"               -> "rotated"
         [] OTHER                                                     -> "missing"

\* A sign-in: a session and its first pair.
OpenSession ==
  /\ sessions' = Append(sessions, "active")
  /\ tokens'   = Append(tokens, Pair(Len(sessions) + 1))

\* The refresh token t is spent by page p and its session gets a new pair.
Rotate(t, p) ==
  Append([tokens EXCEPT ![t].refresh = "revoked", ![t].by = p], Pair(tokens[t].session))

\* Variant: only the refresh tokens of an ended session are revoked.
EndedButForAccess(pair, S) ==
  IF pair.session \notin S \/ sessions[pair.session] # "active" THEN pair
  ELSE [pair EXCEPT !.refresh = IF @ = "live" THEN "revoked" ELSE @]

\* revoke_sessions: the sessions of S that are active end, and all their tokens.
Ended(pair, S) ==
  IF pair.session \notin S \/ sessions[pair.session] # "active" THEN pair
  ELSE [pair EXCEPT !.access  = "dead",
                    !.refresh = CASE @ = "live"    -> "revoked"
                                  [] @ = "expired" -> "gone"
                                  [] OTHER         -> @]

EndSessions(S, status) ==
  /\ tokens'   = [t \in Tokens |-> Ended(tokens[t], S)]
  /\ sessions' = [s \in 1 .. Len(sessions) |->
                    IF s \in S /\ sessions[s] = "active" THEN status ELSE sessions[s]]

-----------------------------------------------------------------------------
(* The pages *)

\* clearAuthState: the page forgets, and the storage all pages start from with it.
ClearAuth(p) ==
  /\ page'   = [page EXCEPT ![p] = SignedOut]
  /\ stored' = FALSE

SignedInWith(p, t) ==
  /\ page'   = [page EXCEPT ![p] = [auth |-> TRUE, token |-> t]]
  /\ stored' = TRUE

Sent(t) == [at |-> "sent", cookie |-> t, next |-> 0]

\* Variant: everybody who is denied refreshes for himself.
RefreshUnshared(p) == refresh' = [refresh EXCEPT ![p] = Sent(cookie)]

\* The refresh of a page is shared: whoever asks for one while it runs waits for it.
RefreshShared(p) ==
  refresh' = IF refresh[p].at = "idle" THEN [refresh EXCEPT ![p] = Sent(cookie)] ELSE refresh

Init ==
  /\ sessions = << >>
  /\ tokens   = << >>
  /\ cookie   = 0
  /\ stored   = FALSE
  /\ page     = [p \in Pages |-> SignedOut]
  /\ refresh  = [p \in Pages |-> Idle]
  /\ call     = [p \in Pages |-> NoCall]
  /\ faults   = 0

\* The owner key is exchanged for a session; the answer sets the cookie.
Login(p) ==
  /\ ~page[p].auth
  /\ Len(tokens) < MaxTokens
  /\ OpenSession
  /\ cookie'   = Len(tokens) + 1
  /\ SignedInWith(p, Len(tokens) + 1)
  /\ UNCHANGED <<refresh, call, faults>>

\* A page that starts signed in holds no access token and asks for one.
RefreshOnMount(p) ==
  /\ page[p].auth
  /\ page[p].token = 0
  /\ refresh[p].at = "idle"
  /\ RefreshShared(p)
  /\ UNCHANGED <<sessions, tokens, cookie, stored, page, call, faults>>

\* The gateway serves a refresh.
ServeRefresh(p) ==
  LET t == refresh[p].cookie  outcome == RefreshOutcome(t) IN
  /\ refresh[p].at = "sent"
  /\ outcome = "rotated" => Len(tokens) < MaxTokens
  /\ tokens'  = CASE outcome = "rotated" -> Rotate(t, p)
                  [] t \in Tokens /\ tokens[t].refresh = "expired" ->
                       [tokens EXCEPT ![t].refresh = "gone"]
                  [] OTHER -> tokens
  /\ refresh' = [refresh EXCEPT ![p] =
                    [at |-> outcome, cookie |-> t,
                     next |-> IF outcome = "rotated" THEN Len(tokens) + 1 ELSE 0]]
  /\ UNCHANGED <<sessions, cookie, stored, page, call, faults>>

\* The answer arrives: the browser takes the cookie, the page the access token,
\* and a call that waited is repeated by the client that made it, whose access
\* token is the one it was built with.
HearRefreshed(p) ==
  /\ refresh[p].at = "rotated"
  /\ cookie' = refresh[p].next
  /\ SignedInWith(p, refresh[p].next)
  /\ call'   = [call EXCEPT ![p].at = IF @ = "renewing" THEN "again" ELSE @]
  /\ refresh' = [refresh EXCEPT ![p] = Idle]
  /\ UNCHANGED <<sessions, tokens, faults>>

\* Variant: a failed refresh leaves the page as it was.
RefreshFailsUnseen(p) ==
  /\ UNCHANGED <<page, stored>>
  /\ call'    = [call EXCEPT ![p] = IF @.at = "renewing" THEN NoCall ELSE @]
  /\ refresh' = [refresh EXCEPT ![p] = Idle]

\* Whatever else comes back, a refusal or an error, signs the page out.
RefreshFails(p) ==
  /\ ClearAuth(p)
  /\ call'    = [call EXCEPT ![p] = IF @.at = "renewing" THEN NoCall ELSE @]
  /\ refresh' = [refresh EXCEPT ![p] = Idle]

HearRefused(p) ==
  /\ refresh[p].at \in {"missing", "reuse"}
  /\ RefreshFails(p)
  /\ UNCHANGED <<sessions, tokens, cookie, faults>>

\* The token a lost answer brought was spent by a page that does not know it.
Disowned(p) ==
  tokens' = IF refresh[p].at = "rotated" THEN [tokens EXCEPT ![refresh[p].cookie].by = Nobody]
            ELSE tokens

\* The answer never arrives, after the gateway spent the token or before it saw
\* the request; the rate limit's refusal is the latter.
LoseRefresh(p) ==
  /\ refresh[p].at \in {"sent", "rotated"}
  /\ faults < MaxFaults
  /\ faults' = faults + 1
  /\ Disowned(p)
  /\ RefreshFails(p)
  /\ UNCHANGED <<sessions, cookie>>

\* The page is loaded again: it starts from the storage, and an answer on its way
\* to the old page is lost.
Reload(p) ==
  /\ faults < MaxFaults
  /\ faults'  = faults + 1
  /\ page'    = [page EXCEPT ![p] = [SignedOut EXCEPT !.auth = stored]]
  /\ Disowned(p)
  /\ refresh' = [refresh EXCEPT ![p] = Idle]
  /\ call'    = [call EXCEPT ![p] = NoCall]
  /\ UNCHANGED <<sessions, cookie, stored>>

-----------------------------------------------------------------------------
(* Calls *)

\* "act": an action on a chat session, whose denial signs the page out; "look": a
\* reading call, whose denial is only shown; "logout" of the page's session, which is
\* that of its token, and "revoke_all".  A page that has not refreshed since its load
\* knows no session and logs out without asking the gateway.
Call(p, kind) ==
  /\ page[p].auth
  /\ call[p].at = "none"
  /\ kind = "logout" => page[p].token # 0
  /\ call' = [call EXCEPT ![p] = [at |-> "sent", kind |-> kind, token |-> page[p].token]]
  /\ UNCHANGED <<sessions, tokens, cookie, stored, page, refresh, faults>>

LogoutUnasked(p) ==
  /\ page[p].auth
  /\ call[p].at = "none"
  /\ page[p].token = 0
  /\ ClearAuth(p)
  /\ UNCHANGED <<sessions, tokens, cookie, refresh, call, faults>>

\* The gateway admits a call by its access token and carries it out.
ServeCall(p) ==
  LET c == call[p] IN
  /\ c.at \in {"sent", "again"}
  /\ IF AccessAccepted(c.token)
     THEN /\ call' = [call EXCEPT ![p].at = "ok"]
          /\ CASE c.kind = "logout"     -> EndSessions({tokens[c.token].session}, "logged_out")
               [] c.kind = "revoke_all" -> EndSessions(1 .. Len(sessions), "revoked")
               [] OTHER                 -> UNCHANGED <<sessions, tokens>>
     ELSE /\ call' = [call EXCEPT ![p].at = IF c.at = "sent" THEN "denied" ELSE "refused"]
          /\ UNCHANGED <<sessions, tokens>>
  /\ UNCHANGED <<cookie, stored, page, refresh, faults>>

HearOk(p) ==
  /\ call[p].at = "ok"
  /\ call'   = [call EXCEPT ![p] = NoCall]
  /\ cookie' = IF call[p].kind = "logout" THEN 0 ELSE cookie
  /\ IF call[p].kind \in {"logout", "revoke_all"} THEN ClearAuth(p) ELSE UNCHANGED <<page, stored>>
  /\ UNCHANGED <<sessions, tokens, refresh, faults>>

\* withAuthRetry: the first denial asks for a refresh; logout does not ask.
HearDenied(p) ==
  /\ call[p].at = "denied"
  /\ IF call[p].kind = "logout"
     THEN /\ ClearAuth(p)
          /\ call' = [call EXCEPT ![p] = NoCall]
          /\ UNCHANGED refresh
     ELSE /\ RefreshShared(p)
          /\ call' = [call EXCEPT ![p].at = "renewing"]
          /\ UNCHANGED <<page, stored>>
  /\ UNCHANGED <<sessions, tokens, cookie, faults>>

\* The second denial is final, and for an action it means signing in again.
HearRefusedAgain(p) ==
  /\ call[p].at = "refused"
  /\ call' = [call EXCEPT ![p] = NoCall]
  /\ IF call[p].kind = "act" THEN ClearAuth(p) ELSE UNCHANGED <<page, stored>>
  /\ UNCHANGED <<sessions, tokens, cookie, refresh, faults>>

-----------------------------------------------------------------------------
(* Time: tokens of a kind live equally long, so they expire as they were minted. *)

Older(t) == 1 .. (t - 1)

AccessExpires(t) ==
  /\ tokens[t].access = "live"
  /\ \A o \in Older(t) : tokens[o].access = "dead"
  /\ tokens' = [tokens EXCEPT ![t].access = "dead"]
  /\ UNCHANGED <<sessions, cookie, stored, page, refresh, call, faults>>

RefreshExpires(t) ==
  /\ tokens[t].access = "dead"
  /\ tokens[t].refresh \in {"live", "revoked"}
  /\ \A o \in Older(t) : tokens[o].refresh \in {"expired", "gone"}
  /\ tokens' = [tokens EXCEPT ![t].refresh = IF @ = "live" THEN "expired" ELSE "gone"]
  /\ UNCHANGED <<sessions, cookie, stored, page, refresh, call, faults>>

PageStep(p) ==
  \/ Login(p)
  \/ RefreshOnMount(p)
  \/ ServeRefresh(p)
  \/ HearRefreshed(p)
  \/ HearRefused(p)
  \/ LoseRefresh(p)
  \/ Reload(p)
  \/ \E kind \in Kinds : Call(p, kind)
  \/ LogoutUnasked(p)
  \/ ServeCall(p)
  \/ HearOk(p)
  \/ HearDenied(p)
  \/ HearRefusedAgain(p)

Next ==
  \/ \E p \in Pages : PageStep(p)
  \/ \E t \in Tokens : AccessExpires(t) \/ RefreshExpires(t)

\* Requests are answered, and React runs the effects of a render.  Nobody has to
\* sign in, call, reload or let time pass.
Fairness == \A p \in Pages :
  /\ WF_vars(RefreshOnMount(p))
  /\ WF_vars(ServeRefresh(p))
  /\ WF_vars(HearRefreshed(p) \/ HearRefused(p))

Spec == Init /\ [][Next]_vars /\ Fairness

-----------------------------------------------------------------------------
(* Properties *)

\* The gateway's rows, the browser's cookie and the pages' states are of their types.
TypeOK ==
  /\ sessions \in Seq({"active", "logged_out", "revoked"})
  /\ tokens   \in Seq([session : 1 .. Len(sessions),
                       refresh : {"live", "expired", "revoked", "gone"},
                       access  : {"live", "dead"}, by : Pages \union {Nobody}])
  /\ cookie   \in {0} \union Tokens
  /\ stored   \in BOOLEAN
  /\ page     \in [Pages -> [auth : BOOLEAN, token : {0} \union Tokens]]
  /\ refresh  \in [Pages -> [at : {"idle", "sent", "rotated", "missing", "reuse"},
                             cookie : {0} \union Tokens, next : {0} \union Tokens]]
  /\ call     \in [Pages -> [at : {"none", "sent", "again", "ok", "denied", "refused", "renewing"},
                             kind : {"act"} \union Kinds, token : {0} \union Tokens]]
  /\ faults   \in 0 .. MaxFaults

\* However sign-ins, refreshes, logouts and revocations interleave, a token that the
\* gateway still accepts belongs to a session that is active, and a session has at
\* most one refresh token left to spend (create_session_and_tokens,
\* rotate_refresh_token and revoke_sessions of auth/store.rs).
LiveTokensOfActiveSessions ==
  /\ \A t \in Tokens : "live" \in {tokens[t].refresh, tokens[t].access}
                         => sessions[tokens[t].session] = "active"
  /\ \A s, t \in Tokens : s # t /\ tokens[s].session = tokens[t].session
                         => ~(tokens[s].refresh = "live" /\ tokens[t].refresh = "live")

\* A page is told that its refresh token was used before only when something else
\* spent it: another page of the browser, the end of the session, or its own refresh
\* whose answer it lost.  What one page does at the same time shares one refresh
\* (refreshAccessTokenRuntime of auth-flow.ts).
ReuseIsNotOwn ==
  \A p \in Pages : refresh[p].at = "reuse" => tokens[refresh[p].cookie].by # p

\* A page that starts signed in does not stay without an access token: it gets one or
\* is signed out (the effect of useChatApp.ts and the failure branch of the refresh).
\* MaxTokens ends the model's minting.
MountedPageSettles ==
  \A p \in Pages : page[p].auth /\ page[p].token = 0
     ~> ~page[p].auth \/ page[p].token # 0 \/ Len(tokens) = MaxTokens

\* Rows, cookie and pages keep their shapes, and what the gateway accepts is of a session
\* that is active and was issued once (auth/store.rs).
TokensAreSound == TypeOK /\ LiveTokensOfActiveSessions
=============================================================================
