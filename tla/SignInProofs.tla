---------------------------- MODULE SignInProofs ----------------------------
(***************************************************************************)
(* Theorems about SignIn, for any number of pages, tokens and faults: what *)
(* the gateway accepts is of an active session, and a page is never told   *)
(* that its refresh token was spent by a refresh of its own.               *)
(***************************************************************************)
EXTENDS SignIn, TLAPS

-----------------------------------------------------------------------------
(* What the steps do to the gateway's rows *)

Status   == {"active", "logged_out", "revoked"}
Entry(n) == [session : 1..n, refresh : {"live", "expired", "revoked", "gone"},
             access : {"live", "dead"}, by : Pages \union {Nobody}]

Rows == sessions \in Seq(Status) /\ tokens \in Seq(Entry(Len(sessions)))

USE SignInAssumption

\* Tokens expire, are revoked or disowned; none is minted and none comes back to life.
Withers ==
  /\ Rows' /\ Len(tokens') = Len(tokens) /\ Len(sessions') = Len(sessions)
  /\ \A t \in Tokens :
       /\ tokens'[t].session = tokens[t].session
       /\ tokens'[t].by \in {tokens[t].by, Nobody}
       /\ tokens'[t].access = "live" => tokens[t].access = "live"
       /\ tokens'[t].refresh = "live" => tokens[t].refresh = "live"
       /\ tokens[t].refresh \in {"revoked", "gone"} => tokens'[t].refresh \in {"revoked", "gone"}

\* A session begins with its first pair.
Opens ==
  /\ Rows' /\ Len(tokens') = Len(tokens) + 1 /\ Len(sessions') = Len(sessions) + 1
  /\ \A t \in Tokens : tokens'[t] = tokens[t]
  /\ \A s \in 1..Len(sessions) : sessions'[s] = sessions[s]
  /\ tokens'[Len(tokens) + 1] = Pair(Len(sessions) + 1)
  /\ sessions'[Len(sessions) + 1] = "active"

\* Page p spends t for the next pair of an active session.
Rotates(t, p) ==
  /\ Rows' /\ Len(tokens') = Len(tokens) + 1 /\ UNCHANGED sessions
  /\ t \in Tokens /\ tokens[t].refresh = "live" /\ sessions[tokens[t].session] = "active"
  /\ \A o \in Tokens \ {t} : tokens'[o] = tokens[o]
  /\ tokens'[t] = [tokens[t] EXCEPT !.refresh = "revoked", !.by = p]
  /\ tokens'[Len(tokens) + 1] = Pair(tokens[t].session)

LEMMA PairType == ASSUME NEW n \in Nat, NEW s \in 1..n PROVE Pair(s) \in Entry(n)
BY DEF Pair, Entry

LEMMA EntriesGrow == ASSUME NEW n \in Nat, NEW e \in Entry(n) PROVE e \in Entry(n + 1)
BY DEF Entry

LEMMA EntryOf ==
  ASSUME Rows, NEW t \in Tokens
  PROVE  /\ tokens[t] \in Entry(Len(sessions)) /\ tokens[t].session \in 1..Len(sessions)
         /\ tokens[t].by \in Pages \union {Nobody}
<1>1. tokens[t] \in Entry(Len(sessions))
  BY DEF Rows, Tokens
<1> QED
  BY <1>1 DEF Entry

LEMMA OpenSessionStep == ASSUME Rows, OpenSession PROVE Opens
<1> DEFINE n == Len(sessions)  m == Len(tokens)
<1>1. n \in Nat /\ m \in Nat /\ n + 1 \in 1..(n + 1)
  BY DEF Rows
<1>2. /\ sessions' \in Seq(Status) /\ Len(sessions') = n + 1
      /\ \A s \in 1..n : sessions'[s] = sessions[s]
      /\ sessions'[n + 1] = "active"
  BY <1>1 DEF OpenSession, Rows, Status
<1>3. Pair(n + 1) \in Entry(n + 1)
  BY <1>1, PairType
<1>4. \A t \in 1..m : tokens[t] \in Entry(n + 1)
  BY <1>1, EntriesGrow, EntryOf DEF Tokens
<1>5. tokens \in Seq(Entry(n + 1))
  BY <1>1, <1>4 DEF Rows
<1>6. /\ tokens' \in Seq(Entry(n + 1)) /\ Len(tokens') = m + 1
      /\ \A t \in 1..m : tokens'[t] = tokens[t]
      /\ tokens'[m + 1] = Pair(n + 1)
  BY <1>1, <1>3, <1>5 DEF OpenSession
<1> QED
  BY <1>2, <1>6 DEF Opens, Rows, Tokens

\* A sequence of the same length whose entries are of a type.
LEMMA RowsByEntry ==
  ASSUME Rows, sessions' \in Seq(Status), Len(sessions') = Len(sessions),
         NEW f \in [Tokens -> Entry(Len(sessions))], tokens' = f
  PROVE  /\ Rows' /\ Len(tokens') = Len(tokens)
         /\ \A t \in Tokens : tokens'[t] = f[t]
<1>1. Len(tokens) \in Nat
  BY DEF Rows
<1>2. f \in Seq(Entry(Len(sessions))) /\ Len(f) = Len(tokens)
  BY <1>1 DEF Tokens
<1> QED
  BY <1>2 DEF Rows

LEMMA SameWithers == ASSUME Rows, UNCHANGED <<tokens, sessions>> PROVE Withers
BY EntryOf DEF Withers, Rows

LEMMA OneWithers ==
  ASSUME Rows, NEW t \in Tokens, NEW e \in Entry(Len(sessions)), UNCHANGED sessions,
         tokens' = [tokens EXCEPT ![t] = e],
         e.session = tokens[t].session, e.by \in {tokens[t].by, Nobody},
         e.access = "live" => tokens[t].access = "live",
         e.refresh = "live" => tokens[t].refresh = "live",
         tokens[t].refresh \in {"revoked", "gone"} => e.refresh \in {"revoked", "gone"}
  PROVE  Withers /\ tokens'[t] = e /\ \A o \in Tokens \ {t} : tokens'[o] = tokens[o]
<1> DEFINE f == [tokens EXCEPT ![t] = e]
<1>1. f \in [Tokens -> Entry(Len(sessions))]
  BY DEF Rows, Tokens
<1>2. /\ Rows' /\ Len(tokens') = Len(tokens)
      /\ \A o \in Tokens : tokens'[o] = f[o]
  BY <1>1, RowsByEntry DEF Rows
<1>3. f[t] = e /\ \A o \in Tokens \ {t} : f[o] = tokens[o]
  BY DEF Rows, Tokens
<1>4. \A o \in Tokens : tokens[o].by \in {tokens[o].by, Nobody}
  OBVIOUS
<1> QED
  BY <1>2, <1>3 DEF Withers

LEMMA RotateStep ==
  ASSUME Rows, UNCHANGED sessions, NEW p \in Pages, NEW t \in Tokens, tokens' = Rotate(t, p),
         tokens[t].refresh = "live", sessions[tokens[t].session] = "active"
  PROVE  Rotates(t, p)
<1> DEFINE n == Len(sessions)  m == Len(tokens)
           f == [tokens EXCEPT ![t].refresh = "revoked", ![t].by = p]
           e == [tokens[t] EXCEPT !.refresh = "revoked", !.by = p]
<1>1. n \in Nat /\ m \in Nat /\ tokens[t] \in Entry(n) /\ tokens[t].session \in 1..n
  BY EntryOf DEF Rows
<1>2. e \in Entry(n)
  BY <1>1 DEF Entry
<1>3. f \in Seq(Entry(n)) /\ Len(f) = m /\ f[t] = e /\ \A o \in 1..m : o # t => f[o] = tokens[o]
  <2>1. tokens \in [1..m -> Entry(n)] /\ t \in 1..m
    BY DEF Rows, Tokens
  <2>2. f = [tokens EXCEPT ![t] = e]
    BY <2>1
  <2> HIDE DEF f, e
  <2>3. /\ f \in [1..m -> Entry(n)] /\ f[t] = e
        /\ \A o \in 1..m : o # t => f[o] = tokens[o]
    BY <1>2, <2>1, <2>2
  <2> QED
    BY <1>1, <2>3
<1>5. Pair(tokens[t].session) \in Entry(n)
  BY <1>1, PairType
<1>6. tokens' = Append(f, Pair(tokens[t].session))
  BY DEF Rotate
<1>7. /\ tokens' \in Seq(Entry(n)) /\ Len(tokens') = m + 1
      /\ \A o \in 1..m : tokens'[o] = f[o]
      /\ tokens'[m + 1] = Pair(tokens[t].session)
  <2> HIDE DEF f, e
  <2> QED BY <1>1, <1>3, <1>5, <1>6
<1> QED
  BY <1>3, <1>7 DEF Rotates, Rows, Tokens

\* The end of sessions: their tokens are dead, and so is every token of an ended session.
LEMMA EndSessionsStep ==
  ASSUME Rows, NEW S, NEW status \in Status \ {"active"}, EndSessions(S, status)
  PROVE  /\ Withers
         /\ \A s \in 1..Len(sessions) :
              sessions'[s] = IF s \in S /\ sessions[s] = "active" THEN status ELSE sessions[s]
         /\ \A t \in Tokens : tokens'[t] = Ended(tokens[t], S)
<1> DEFINE n == Len(sessions)
           g == [s \in 1..n |-> IF s \in S /\ sessions[s] = "active" THEN status ELSE sessions[s]]
           f == [t \in Tokens |-> Ended(tokens[t], S)]
<1>1. n \in Nat /\ \A s \in 1..n : sessions[s] \in Status
  BY DEF Rows
<1>2. g \in [1..n -> Status]
  BY <1>1
<1>3. g \in Seq(Status) /\ Len(g) = n
  BY <1>1, <1>2
<1>4. sessions' = g /\ tokens' = f
  BY DEF EndSessions
<1>5. ASSUME NEW t \in Tokens
      PROVE  /\ Ended(tokens[t], S) \in Entry(n)
             /\ Ended(tokens[t], S).session = tokens[t].session
             /\ Ended(tokens[t], S).by = tokens[t].by
             /\ Ended(tokens[t], S).access = "live" => tokens[t].access = "live"
             /\ Ended(tokens[t], S).refresh = "live" => tokens[t].refresh = "live"
             /\ tokens[t].refresh \in {"revoked", "gone"}
                  => Ended(tokens[t], S).refresh \in {"revoked", "gone"}
  <2>1. tokens[t] \in Entry(n)
    BY EntryOf
  <2> QED
    BY <2>1 DEF Ended, Entry
<1>6. f \in [Tokens -> Entry(n)]
  BY <1>5
<1>7. /\ Rows' /\ Len(tokens') = Len(tokens)
      /\ \A t \in Tokens : tokens'[t] = f[t]
  BY <1>3, <1>4, <1>6, RowsByEntry
<1>8. \A t \in Tokens : tokens'[t] = Ended(tokens[t], S)
  BY <1>7
<1>9. Withers
  BY <1>3, <1>4, <1>5, <1>7, <1>8 DEF Withers
<1> QED
  BY <1>4, <1>8, <1>9

LEMMA AccessExpiresStep ==
  ASSUME Rows, NEW t \in Tokens, AccessExpires(t)
  PROVE  Withers /\ tokens'[t].refresh = tokens[t].refresh /\ tokens'[t].access = "dead"
         /\ \A o \in Tokens \ {t} : tokens'[o] = tokens[o]
<1> DEFINE e == [tokens[t] EXCEPT !.access = "dead"]
<1>1. tokens[t] \in Entry(Len(sessions))
  BY EntryOf
<1>2. e \in Entry(Len(sessions)) /\ tokens' = [tokens EXCEPT ![t] = e]
  BY <1>1 DEF Entry, AccessExpires
<1>3. /\ e.session = tokens[t].session /\ e.by = tokens[t].by /\ e.access = "dead"
      /\ e.refresh = tokens[t].refresh
  BY <1>1 DEF Entry
<1>4. UNCHANGED sessions
  BY DEF AccessExpires
<1> HIDE DEF e
<1>5. Withers /\ tokens'[t] = e /\ \A o \in Tokens \ {t} : tokens'[o] = tokens[o]
  BY <1>2, <1>3, <1>4, OneWithers
<1> QED
  BY <1>3, <1>5

LEMMA RefreshExpiresStep ==
  ASSUME Rows, NEW t \in Tokens, RefreshExpires(t)
  PROVE  Withers /\ tokens'[t].refresh # "live" /\ tokens'[t].access = "dead"
         /\ \A o \in Tokens \ {t} : tokens'[o] = tokens[o]
<1> DEFINE e == [tokens[t] EXCEPT !.refresh = IF @ = "live" THEN "expired" ELSE "gone"]
<1>1. tokens[t] \in Entry(Len(sessions)) /\ tokens[t].access = "dead"
      /\ tokens[t].refresh \in {"live", "revoked"}
  BY EntryOf DEF RefreshExpires
<1>2. e \in Entry(Len(sessions)) /\ tokens' = [tokens EXCEPT ![t] = e]
  BY <1>1 DEF Entry, RefreshExpires
<1>3. /\ e.session = tokens[t].session /\ e.by = tokens[t].by /\ e.access = "dead"
      /\ e.refresh # "live" /\ (tokens[t].refresh = "revoked" => e.refresh = "gone")
  BY <1>1 DEF Entry
<1>4. UNCHANGED sessions
  BY DEF RefreshExpires
<1> HIDE DEF e
<1>5. Withers /\ tokens'[t] = e /\ \A o \in Tokens \ {t} : tokens'[o] = tokens[o]
  BY <1>1, <1>2, <1>3, <1>4, OneWithers
<1> QED
  BY <1>3, <1>5

LEMMA GoneStep ==
  ASSUME Rows, NEW t \in Tokens, tokens[t].refresh = "expired", UNCHANGED sessions,
         tokens' = [tokens EXCEPT ![t].refresh = "gone"]
  PROVE  /\ Withers
         /\ \A o \in Tokens : tokens'[o].refresh = "live" => tokens[o].refresh = "live"
         /\ \A o \in Tokens : tokens'[o].access = tokens[o].access
<1> DEFINE e == [tokens[t] EXCEPT !.refresh = "gone"]
<1>1. tokens[t] \in Entry(Len(sessions))
  BY EntryOf
<1>2. e \in Entry(Len(sessions)) /\ tokens' = [tokens EXCEPT ![t] = e]
  BY <1>1 DEF Entry
<1>3. /\ e.session = tokens[t].session /\ e.by = tokens[t].by /\ e.access = tokens[t].access
      /\ e.refresh = "gone"
  BY <1>1 DEF Entry
<1> HIDE DEF e
<1>4. Withers /\ tokens'[t] = e /\ \A o \in Tokens \ {t} : tokens'[o] = tokens[o]
  BY <1>2, <1>3, OneWithers
<1> QED
  BY <1>3, <1>4

LEMMA OneDisowned ==
  ASSUME Rows, NEW t \in Tokens, UNCHANGED sessions,
         tokens' = [tokens EXCEPT ![t].by = Nobody]
  PROVE  /\ Withers /\ tokens'[t].by = Nobody
         /\ \A o \in Tokens : tokens'[o].refresh = tokens[o].refresh
         /\ \A o \in Tokens : tokens'[o].access = tokens[o].access
<1> DEFINE e == [tokens[t] EXCEPT !.by = Nobody]
<1>1. tokens[t] \in Entry(Len(sessions))
  BY EntryOf
<1>2. e \in Entry(Len(sessions)) /\ tokens' = [tokens EXCEPT ![t] = e]
  BY <1>1 DEF Entry
<1>3. /\ e.session = tokens[t].session /\ e.by = Nobody /\ e.access = tokens[t].access
      /\ e.refresh = tokens[t].refresh
  BY <1>1 DEF Entry
<1> HIDE DEF e
<1>4. Withers /\ tokens'[t] = e /\ \A o \in Tokens \ {t} : tokens'[o] = tokens[o]
  BY <1>2, <1>3, OneWithers
<1> QED
  BY <1>3, <1>4

LEMMA DisownedStep ==
  ASSUME Rows, NEW p \in Pages, Disowned(p), UNCHANGED sessions,
         refresh[p].at = "rotated" => refresh[p].cookie \in Tokens
  PROVE  /\ Withers
         /\ refresh[p].at = "rotated" => tokens'[refresh[p].cookie].by = Nobody
BY OneDisowned, SameWithers DEF Disowned

-----------------------------------------------------------------------------
(* Types *)

PageState == [auth : BOOLEAN, token : {0} \union Tokens]
Request   == [at : {"idle", "sent", "rotated", "missing", "reuse"},
              cookie : {0} \union Tokens, next : {0} \union Tokens]
Asked     == [at : {"none", "sent", "again", "ok", "denied", "refused", "renewing"},
              kind : {"act"} \union Kinds, token : {0} \union Tokens]

Browser ==
  /\ cookie  \in {0} \union Tokens
  /\ stored  \in BOOLEAN
  /\ page    \in [Pages -> PageState]
  /\ refresh \in [Pages -> Request]
  /\ call    \in [Pages -> Asked]
  /\ faults  \in 0..MaxFaults

LEMMA TypeParts == TypeOK <=> Rows /\ Browser
BY DEF TypeOK, Rows, Browser, Status, Entry, PageState, Request, Asked

LEMMA TypePartsNext == TypeOK' <=> Rows' /\ Browser'
BY TypeParts, PTL

\* An answered refresh spent a token that this browser held and brought another.
AnswersAreOfTokens ==
  \A p \in Pages : refresh[p].at = "rotated" => refresh[p].cookie # 0 /\ refresh[p].next # 0

\* As tokens are minted, what was of a type stays of it.
LEMMA StatesGrow ==
  ASSUME Rows, Withers \/ Opens \/ \E t \in Tokens, p \in Pages : Rotates(t, p)
  PROVE  /\ Rows' /\ Tokens \subseteq Tokens' /\ Len(tokens') \in Nat
         /\ PageState \subseteq PageState' /\ Request \subseteq Request' /\ Asked \subseteq Asked'
<1>1. Len(tokens) \in Nat
  BY DEF Rows
<1>2. Rows' /\ (Len(tokens') = Len(tokens) \/ Len(tokens') = Len(tokens) + 1)
  BY DEF Withers, Opens, Rotates
<1>3. Tokens \subseteq Tokens'
  BY <1>1, <1>2 DEF Tokens
<1> QED
  BY <1>1, <1>2, <1>3 DEF PageState, Request, Asked

LEMMA TypeStart == Init => TypeOK /\ AnswersAreOfTokens
<1> SUFFICES ASSUME Init PROVE TypeOK /\ AnswersAreOfTokens
  OBVIOUS
<1>1. Rows
  BY DEF Init, Rows
<1>2. Browser
  <2>1. SignedOut \in PageState /\ Idle \in Request /\ NoCall \in Asked
    BY DEF PageState, Request, Asked, SignedOut, Idle, NoCall
  <2>2. 0 \in 0..MaxFaults
    OBVIOUS
  <2>3. refresh \in [Pages -> Request] /\ call \in [Pages -> Asked] /\ page \in [Pages -> PageState]
    BY <2>1 DEF Init
  <2> QED
    BY <2>2, <2>3 DEF Init, Browser
<1> QED
  BY <1>1, <1>2, TypeParts DEF Init, AnswersAreOfTokens, Idle

LEMMA StatesStay ==
  ASSUME Tokens' = Tokens
  PROVE  PageState' = PageState /\ Request' = Request /\ Asked' = Asked
BY DEF PageState, Request, Asked

\* An update of one page keeps the types.
LEMMA LoginType ==
  ASSUME TypeOK, NEW p \in Pages, Login(p)
  PROVE  TypeOK' /\ Opens
<1>1. Rows /\ Browser
  BY TypeParts
<1>2. Opens
  BY <1>1, OpenSessionStep DEF Login
<1>3. /\ Rows' /\ Tokens \subseteq Tokens' /\ Len(tokens') \in Nat
      /\ PageState \subseteq PageState' /\ Request \subseteq Request' /\ Asked \subseteq Asked'
  BY <1>1, <1>2, StatesGrow
<1>4. Len(tokens) + 1 \in Tokens'
  BY <1>1, <1>2, <1>3 DEF Opens, Tokens, Rows
<1>5. [auth |-> TRUE, token |-> Len(tokens) + 1] \in PageState'
  BY <1>4 DEF PageState
<1>6. Browser'
  BY <1>1, <1>3, <1>4, <1>5 DEF Browser, Login, SignedInWith
<1> QED
  BY <1>2, <1>3, <1>6, TypePartsNext

LEMMA ServeRefreshType ==
  ASSUME TypeOK, NEW p \in Pages, ServeRefresh(p)
  PROVE  /\ TypeOK'
         /\ \/ /\ refresh'[p].at = "rotated"
               /\ Rotates(refresh[p].cookie, p)
            \/ refresh'[p].at \in {"missing", "reuse"} /\ Withers
<1> DEFINE t == refresh[p].cookie  outcome == RefreshOutcome(t)
           next == IF outcome = "rotated" THEN Len(tokens) + 1 ELSE 0
<1>1. Rows /\ Browser /\ refresh[p] \in Request /\ Len(tokens) \in Nat
  BY TypeParts DEF Browser, Rows
<1>2. outcome \in {"rotated", "missing", "reuse"}
  BY DEF RefreshOutcome
<1>3. UNCHANGED sessions
  BY DEF ServeRefresh
<1>4. refresh' = [refresh EXCEPT ![p] = [at |-> outcome, cookie |-> t, next |-> next]]
  BY DEF ServeRefresh
<1>5. refresh'[p].at = outcome
  BY <1>1, <1>4 DEF Browser, Request
<1>6. ASSUME outcome = "rotated" PROVE Rotates(t, p)
  <2>1. t \in Tokens /\ tokens[t].refresh = "live" /\ sessions[tokens[t].session] = "active"
    BY <1>6 DEF RefreshOutcome
  <2>2. tokens' = Rotate(t, p)
    BY <1>6, <2>1 DEF ServeRefresh
  <2>3. Rotates(t, p)
    BY <1>1, <1>3, <2>1, <2>2, RotateStep
  <2> QED
    BY <2>3
<1>7. ASSUME outcome # "rotated" PROVE Withers
  <2>1. CASE t \in Tokens /\ tokens[t].refresh = "expired"
    <3>1. tokens' = [tokens EXCEPT ![t].refresh = "gone"]
      BY <1>7, <2>1 DEF ServeRefresh
    <3> QED
      BY <1>1, <1>3, <2>1, <3>1, GoneStep
  <2>2. CASE ~ (t \in Tokens /\ tokens[t].refresh = "expired")
    <3>1. tokens' = tokens
      BY <1>7, <2>2 DEF ServeRefresh
    <3> QED
      BY <1>1, <1>3, <3>1, SameWithers
  <2> QED
    BY <2>1, <2>2
<1>8. /\ Rows' /\ Tokens \subseteq Tokens'
      /\ PageState \subseteq PageState' /\ Request \subseteq Request' /\ Asked \subseteq Asked'
  BY <1>1, <1>6, <1>7, StatesGrow DEF Rotates
<1>9. next \in {0} \union Tokens'
  BY <1>1, <1>5, <1>6 DEF Rotates, Tokens
<1>10. [at |-> outcome, cookie |-> refresh[p].cookie, next |-> next] \in Request'
  BY <1>1, <1>2, <1>8, <1>9 DEF Request
<1>11. refresh' \in [Pages -> Request']
  <2> HIDE DEF outcome, next
  <2> QED BY <1>1, <1>4, <1>8, <1>10 DEF Browser
<1>12. Browser'
  BY <1>1, <1>8, <1>11 DEF Browser, ServeRefresh
<1> QED
  BY <1>2, <1>5, <1>6, <1>7, <1>8, <1>12, TypePartsNext

\* A step that mints nothing leaves the sets of states as they are.
LEMMA WithersStays ==
  ASSUME Rows, Withers
  PROVE  /\ Rows' /\ Tokens' = Tokens
         /\ PageState' = PageState /\ Request' = Request /\ Asked' = Asked
BY StatesStay DEF Withers, Tokens

LEMMA StatesOfPages ==
  /\ SignedOut \in PageState /\ Idle \in Request /\ NoCall \in Asked
  /\ \A b \in BOOLEAN, t \in {0} \union Tokens : [auth |-> b, token |-> t] \in PageState
  /\ \A b \in BOOLEAN : [SignedOut EXCEPT !.auth = b] \in PageState
  /\ \A t \in {0} \union Tokens : Sent(t) \in Request
BY DEF PageState, Request, Asked, SignedOut, Idle, NoCall, Sent

\* A page waits for an answer no longer, and a call that waited for it goes on or is over.
LEMMA CallsOfPage ==
  ASSUME Browser, NEW p \in Pages,
         \/ call' = [call EXCEPT ![p].at = IF @ = "renewing" THEN "again" ELSE @]
         \/ call' = [call EXCEPT ![p] = IF @.at = "renewing" THEN NoCall ELSE @]
         \/ call' = [call EXCEPT ![p] = NoCall]
         \/ \E at \in {"ok", "denied", "refused", "renewing"} : call' = [call EXCEPT ![p].at = at]
  PROVE  call' \in [Pages -> Asked]
BY StatesOfPages DEF Browser, Asked

LEMMA QuietPageTypes ==
  ASSUME TypeOK, NEW p \in Pages, UNCHANGED <<sessions, tokens>>,
         \/ RefreshOnMount(p) \/ HearRefreshed(p) \/ HearRefused(p)
         \/ (\E kind \in Kinds : Call(p, kind))
         \/ LogoutUnasked(p) \/ HearOk(p) \/ HearDenied(p) \/ HearRefusedAgain(p)
  PROVE  TypeOK' /\ Withers
<1>1. Rows /\ Browser
  BY TypeParts
<1>2. Withers
  BY <1>1, SameWithers
<1>3. /\ Rows' /\ Tokens' = Tokens
      /\ PageState' = PageState /\ Request' = Request /\ Asked' = Asked
  BY <1>1, <1>2, WithersStays
<1>4. CASE RefreshOnMount(p)
  <2>1. Sent(cookie) \in Request
    BY <1>1, StatesOfPages DEF Browser
  <2>2. Browser'
    BY <1>1, <1>3, <1>4, <2>1 DEF Browser, RefreshOnMount, RefreshShared
  <2> QED
    BY <1>2, <1>3, <2>2, TypePartsNext
<1>5. CASE HearRefreshed(p)
  <2>1. refresh[p].next \in {0} \union Tokens
    BY <1>1 DEF Browser, Request
  <2>2. call' \in [Pages -> Asked]
    BY <1>1, <1>5, CallsOfPage DEF HearRefreshed
  <2>3. page' \in [Pages -> PageState]
    BY <1>1, <1>5, <2>1, StatesOfPages DEF HearRefreshed, SignedInWith, Browser
  <2>4. Browser'
    BY <1>1, <1>3, <1>5, <2>1, <2>2, <2>3, StatesOfPages DEF Browser, HearRefreshed, SignedInWith
  <2> QED
    BY <1>2, <1>3, <2>4, TypePartsNext
<1>6. CASE HearRefused(p)
  <2>1. call' \in [Pages -> Asked]
    BY <1>1, <1>6, CallsOfPage DEF HearRefused, RefreshFails
  <2>2. Browser'
    BY <1>1, <1>3, <1>6, <2>1, StatesOfPages DEF Browser, HearRefused, RefreshFails, ClearAuth
  <2> QED
    BY <1>2, <1>3, <2>2, TypePartsNext
<1>7. CASE \E kind \in Kinds : Call(p, kind)
  <2>1. PICK kind \in Kinds : Call(p, kind)
    BY <1>7
  <2>2. [at |-> "sent", kind |-> kind, token |-> page[p].token] \in Asked
    BY <1>1 DEF Browser, PageState, Asked
  <2>3. Browser'
    BY <1>1, <1>3, <2>1, <2>2 DEF Browser, Call
  <2> QED
    BY <1>2, <1>3, <2>3, TypePartsNext
<1>8. CASE LogoutUnasked(p)
  <2>1. Browser'
    BY <1>1, <1>3, <1>8, StatesOfPages DEF Browser, LogoutUnasked, ClearAuth
  <2> QED
    BY <1>2, <1>3, <2>1, TypePartsNext
<1>9. CASE HearOk(p)
  <2>1. call' \in [Pages -> Asked]
    BY <1>1, <1>9, CallsOfPage DEF HearOk
  <2>2. page' \in [Pages -> PageState] /\ stored' \in BOOLEAN
    BY <1>1, <1>9, StatesOfPages DEF Browser, HearOk, ClearAuth
  <2>3. Browser'
    BY <1>1, <1>3, <1>9, <2>1, <2>2 DEF Browser, HearOk
  <2> QED
    BY <1>2, <1>3, <2>3, TypePartsNext
<1>10. CASE HearDenied(p)
  <2>1. call' \in [Pages -> Asked]
    BY <1>1, <1>10, CallsOfPage DEF HearDenied
  <2>2. page' \in [Pages -> PageState] /\ stored' \in BOOLEAN
    BY <1>1, <1>10, StatesOfPages DEF Browser, HearDenied, ClearAuth
  <2>3. refresh' \in [Pages -> Request]
    BY <1>1, <1>10, StatesOfPages DEF Browser, HearDenied, RefreshShared
  <2>4. Browser'
    BY <1>1, <1>3, <1>10, <2>1, <2>2, <2>3 DEF Browser, HearDenied
  <2> QED
    BY <1>2, <1>3, <2>4, TypePartsNext
<1>11. CASE HearRefusedAgain(p)
  <2>1. call' \in [Pages -> Asked]
    BY <1>1, <1>11, CallsOfPage DEF HearRefusedAgain
  <2>2. page' \in [Pages -> PageState] /\ stored' \in BOOLEAN
    BY <1>1, <1>11, StatesOfPages DEF Browser, HearRefusedAgain, ClearAuth
  <2>3. Browser'
    BY <1>1, <1>3, <1>11, <2>1, <2>2 DEF Browser, HearRefusedAgain
  <2> QED
    BY <1>2, <1>3, <2>3, TypePartsNext
<1> QED
  BY <1>4, <1>5, <1>6, <1>7, <1>8, <1>9, <1>10, <1>11

LEMMA LosingTypes ==
  ASSUME TypeOK, AnswersAreOfTokens, NEW p \in Pages, LoseRefresh(p) \/ Reload(p)
  PROVE  /\ TypeOK' /\ Withers
         /\ refresh[p].at = "rotated" => tokens'[refresh[p].cookie].by = Nobody
<1>1. Rows /\ Browser
  BY TypeParts
<1>2. /\ Withers
      /\ refresh[p].at = "rotated" => tokens'[refresh[p].cookie].by = Nobody
  <2>1. Disowned(p) /\ UNCHANGED sessions
    BY DEF LoseRefresh, Reload
  <2>2. refresh[p].at = "rotated" => refresh[p].cookie \in Tokens
    BY <1>1 DEF AnswersAreOfTokens, Browser, Request
  <2> QED
    BY <1>1, <2>1, <2>2, DisownedStep
<1>3. /\ Rows' /\ Tokens' = Tokens
      /\ PageState' = PageState /\ Request' = Request /\ Asked' = Asked
  BY <1>1, <1>2, WithersStays
<1>4. faults' \in 0..MaxFaults
  BY <1>1 DEF Browser, LoseRefresh, Reload
<1>5. call' \in [Pages -> Asked]
  BY <1>1, CallsOfPage DEF LoseRefresh, Reload, RefreshFails
<1>6. page' \in [Pages -> PageState] /\ stored' \in BOOLEAN
  <2>1. CASE LoseRefresh(p)
    BY <1>1, <2>1, StatesOfPages DEF Browser, LoseRefresh, RefreshFails, ClearAuth
  <2>2. CASE Reload(p)
    BY <1>1, <2>2, StatesOfPages DEF Browser, Reload
  <2> QED
    BY <2>1, <2>2
<1>7. refresh' \in [Pages -> Request] /\ UNCHANGED cookie
  BY <1>1, StatesOfPages DEF Browser, LoseRefresh, Reload, RefreshFails
<1>8. Browser'
  BY <1>1, <1>3, <1>4, <1>5, <1>6, <1>7 DEF Browser
<1> QED
  BY <1>2, <1>3, <1>8, TypePartsNext

LEMMA ServeCallType ==
  ASSUME TypeOK, NEW p \in Pages, ServeCall(p)
  PROVE  TypeOK' /\ Withers
<1>1. Rows /\ Browser
  BY TypeParts
<1>2. Withers
  <2>1. CASE UNCHANGED <<sessions, tokens>>
    BY <1>1, <2>1, SameWithers
  <2>2. CASE EndSessions({tokens[call[p].token].session}, "logged_out")
    BY <1>1, <2>2, EndSessionsStep DEF Status
  <2>3. CASE EndSessions(1..Len(sessions), "revoked")
    BY <1>1, <2>3, EndSessionsStep DEF Status
  <2> QED
    BY <2>1, <2>2, <2>3 DEF ServeCall
<1>3. /\ Rows' /\ Tokens' = Tokens
      /\ PageState' = PageState /\ Request' = Request /\ Asked' = Asked
  BY <1>1, <1>2, WithersStays
<1>4. call' \in [Pages -> Asked]
  BY <1>1, CallsOfPage DEF ServeCall
<1>5. Browser'
  BY <1>1, <1>3, <1>4 DEF Browser, ServeCall
<1> QED
  BY <1>2, <1>3, <1>5, TypePartsNext

LEMMA AgeType ==
  ASSUME TypeOK, NEW t \in Tokens, AccessExpires(t) \/ RefreshExpires(t)
  PROVE  TypeOK' /\ Withers
<1>1. Rows /\ Browser
  BY TypeParts
<1>2. Withers
  BY <1>1, AccessExpiresStep, RefreshExpiresStep
<1>3. /\ Rows' /\ Tokens' = Tokens
      /\ PageState' = PageState /\ Request' = Request /\ Asked' = Asked
  BY <1>1, <1>2, WithersStays
<1>4. Browser'
  BY <1>1, <1>3 DEF Browser, AccessExpires, RefreshExpires
<1> QED
  BY <1>2, <1>3, <1>4, TypePartsNext

-----------------------------------------------------------------------------
(* The inductive invariant of the refreshes *)

\* What an answer on its way brings nobody else knows: it is not in the cookie, no
\* page sent it, no other answer brings it, and nobody spent it.
UnheardIsUnknown ==
  \A p \in Pages : refresh[p].at = "rotated" =>
    /\ cookie # refresh[p].next
    /\ tokens[refresh[p].next].by = Nobody
    /\ \A q \in Pages : refresh[q].at # "idle" => refresh[q].cookie # refresh[p].next
    /\ \A q \in Pages \ {p} : refresh[q].at = "rotated" => refresh[q].next # refresh[p].next

\* A page that spent the token in the cookie waits for the answer.
CookieIsNotOwn ==
  \A p \in Pages : cookie # 0 /\ tokens[cookie].by = p =>
    refresh[p].at = "rotated" /\ refresh[p].cookie = cookie

\* A page does not send a token it has spent.
SentIsNotOwn ==
  \A p \in Pages : refresh[p].at = "sent" /\ refresh[p].cookie # 0 =>
    tokens[refresh[p].cookie].by # p

\* The gateway says reuse of a token that is revoked, and may be deleted since.
ReuseIsOfSpent ==
  \A p \in Pages : refresh[p].at = "reuse" =>
    /\ refresh[p].cookie # 0
    /\ tokens[refresh[p].cookie].refresh \in {"revoked", "gone"}

Refreshes ==
  /\ UnheardIsUnknown
  /\ CookieIsNotOwn
  /\ SentIsNotOwn
  /\ ReuseIsOfSpent
  /\ ReuseIsNotOwn

-----------------------------------------------------------------------------
(* What the gateway accepts *)

LEMMA LiveWithers ==
  ASSUME Rows, LiveTokensOfActiveSessions, Withers, UNCHANGED sessions
  PROVE  LiveTokensOfActiveSessions'
<1>1. Tokens' = Tokens
  BY WithersStays
<1> QED
  BY <1>1 DEF LiveTokensOfActiveSessions, Withers

LEMMA LiveOpens ==
  ASSUME Rows, LiveTokensOfActiveSessions, Opens
  PROVE  LiveTokensOfActiveSessions'
<1> DEFINE n == Len(tokens) + 1
<1>1. Len(tokens) \in Nat /\ Len(sessions) \in Nat
  BY DEF Rows
<1>2. Tokens' = Tokens \union {n} /\ n \notin Tokens
  BY <1>1 DEF Opens, Tokens
<1>3. \A t \in Tokens : /\ tokens'[t] = tokens[t] /\ tokens[t].session \in 1..Len(sessions)
                        /\ tokens[t].session # Len(sessions) + 1
                        /\ sessions'[tokens[t].session] = sessions[tokens[t].session]
  BY <1>1, EntryOf DEF Opens
<1>4. tokens'[n].session = Len(sessions) + 1 /\ sessions'[Len(sessions) + 1] = "active"
  BY DEF Opens, Pair
<1> HIDE DEF n
<1>5. \A t \in Tokens' : "live" \in {tokens'[t].refresh, tokens'[t].access}
                           => sessions'[tokens'[t].session] = "active"
  BY <1>2, <1>3, <1>4 DEF LiveTokensOfActiveSessions
<1>6. \A s, t \in Tokens' : s # t /\ tokens'[s].session = tokens'[t].session
                         => ~(tokens'[s].refresh = "live" /\ tokens'[t].refresh = "live")
  BY <1>2, <1>3, <1>4 DEF LiveTokensOfActiveSessions
<1> QED
  BY <1>5, <1>6 DEF LiveTokensOfActiveSessions

LEMMA LiveRotates ==
  ASSUME Rows, LiveTokensOfActiveSessions, NEW t, NEW p, Rotates(t, p)
  PROVE  LiveTokensOfActiveSessions'
<1> DEFINE n == Len(tokens) + 1
<1>1. Len(tokens) \in Nat
  BY DEF Rows
<1>2. Tokens' = Tokens \union {n} /\ n \notin Tokens /\ t \in Tokens
  BY <1>1 DEF Rotates, Tokens
<1>3. /\ tokens'[t].session = tokens[t].session /\ tokens'[t].access = tokens[t].access
      /\ tokens'[t].refresh = "revoked"
      /\ tokens'[n].session = tokens[t].session /\ tokens[t].refresh = "live"
      /\ sessions'[tokens[t].session] = "active" /\ sessions' = sessions
  <2>1. tokens[t] \in Entry(Len(sessions))
    BY <1>2, EntryOf
  <2> QED
    BY <2>1 DEF Rotates, Pair, Entry
<1>4. \A o \in Tokens \ {t} : tokens'[o] = tokens[o]
  BY DEF Rotates
<1> HIDE DEF n
<1>5. \A o \in Tokens' : "live" \in {tokens'[o].refresh, tokens'[o].access}
                           => sessions'[tokens'[o].session] = "active"
  BY <1>2, <1>3, <1>4 DEF LiveTokensOfActiveSessions
<1>6. \A s, o \in Tokens' : s # o /\ tokens'[s].session = tokens'[o].session
                         => ~(tokens'[s].refresh = "live" /\ tokens'[o].refresh = "live")
  BY <1>2, <1>3, <1>4 DEF LiveTokensOfActiveSessions
<1> QED
  BY <1>5, <1>6 DEF LiveTokensOfActiveSessions

LEMMA LiveEnds ==
  ASSUME Rows, LiveTokensOfActiveSessions, NEW S, NEW status \in Status \ {"active"},
         EndSessions(S, status)
  PROVE  LiveTokensOfActiveSessions'
<1>1. /\ Withers
      /\ \A s \in 1..Len(sessions) :
           sessions'[s] = IF s \in S /\ sessions[s] = "active" THEN status ELSE sessions[s]
      /\ \A t \in Tokens : tokens'[t] = Ended(tokens[t], S)
  BY EndSessionsStep
<1>2. Tokens' = Tokens
  BY <1>1, WithersStays
<1>3. ASSUME NEW t \in Tokens, "live" \in {tokens'[t].refresh, tokens'[t].access}
      PROVE  sessions'[tokens'[t].session] = "active"
  <2>1. tokens[t] \in Entry(Len(sessions)) /\ tokens[t].session \in 1..Len(sessions)
    BY EntryOf
  <2>2. sessions[tokens[t].session] = "active"
    BY <1>1, <1>3 DEF LiveTokensOfActiveSessions, Withers
  <2>3. tokens[t].session \in S =>
          Ended(tokens[t], S).access = "dead" /\ Ended(tokens[t], S).refresh # "live"
    BY <2>1, <2>2 DEF Ended, Entry
  <2>4. tokens[t].session \notin S
    BY <1>1, <1>3, <2>3
  <2> QED
    BY <1>1, <2>1, <2>2, <2>4 DEF Withers
<1>4. \A s, t \in Tokens : s # t /\ tokens'[s].session = tokens'[t].session
                         => ~(tokens'[s].refresh = "live" /\ tokens'[t].refresh = "live")
  BY <1>1 DEF LiveTokensOfActiveSessions, Withers
<1> QED
  BY <1>2, <1>3, <1>4 DEF LiveTokensOfActiveSessions

-----------------------------------------------------------------------------
(* The refreshes *)

Sound == TypeOK /\ LiveTokensOfActiveSessions /\ AnswersAreOfTokens /\ Refreshes

LEMMA RefreshTyped ==
  ASSUME TypeOK
  PROVE  /\ Rows /\ Len(tokens) \in Nat
         /\ refresh \in [Pages -> Request]
         /\ cookie \in {0} \union Tokens
         /\ \A p \in Pages : refresh[p].cookie \in {0} \union Tokens
         /\ \A p \in Pages : refresh[p].next \in {0} \union Tokens
<1>1. Rows /\ Browser /\ Len(tokens) \in Nat
  BY TypeParts DEF Rows
<1> QED
  BY <1>1 DEF Browser, Request

\* Nothing happens to the refreshes; the cookie may be cleared.
LEMMA RefreshesRest ==
  ASSUME Sound, Withers, UNCHANGED refresh, cookie' \in {cookie, 0}
  PROVE  AnswersAreOfTokens' /\ Refreshes'
<1>1. /\ cookie \in {0} \union Tokens
      /\ \A p \in Pages : refresh[p].cookie \in {0} \union Tokens
      /\ \A p \in Pages : refresh[p].next \in {0} \union Tokens
  BY RefreshTyped DEF Sound
<1>2. \A t \in Tokens : /\ tokens'[t].by \in {tokens[t].by, Nobody}
                        /\ tokens[t].refresh \in {"revoked", "gone"}
                             => tokens'[t].refresh \in {"revoked", "gone"}
  BY DEF Withers
<1>3. AnswersAreOfTokens'
  BY DEF Sound, AnswersAreOfTokens
<1>4. UnheardIsUnknown'
  BY <1>1, <1>2 DEF Sound, Refreshes, UnheardIsUnknown, AnswersAreOfTokens
<1>5. CookieIsNotOwn'
  BY <1>1, <1>2 DEF Sound, Refreshes, CookieIsNotOwn
<1>6. SentIsNotOwn'
  BY <1>1, <1>2 DEF Sound, Refreshes, SentIsNotOwn
<1>7. ReuseIsOfSpent' /\ ReuseIsNotOwn'
  BY <1>1, <1>2 DEF Sound, Refreshes, ReuseIsOfSpent, ReuseIsNotOwn
<1> QED
  BY <1>3, <1>4, <1>5, <1>6, <1>7 DEF Refreshes

\* The refresh of page p is over without an answer that set the cookie.
LEMMA RefreshesOver ==
  ASSUME Sound, NEW p \in Pages, Withers, UNCHANGED cookie,
         refresh' = [refresh EXCEPT ![p] = Idle],
         refresh[p].at = "rotated" => tokens'[refresh[p].cookie].by = Nobody
  PROVE  AnswersAreOfTokens' /\ Refreshes'
<1>1. /\ cookie \in {0} \union Tokens
      /\ \A q \in Pages : refresh[q].cookie \in {0} \union Tokens
      /\ \A q \in Pages : refresh[q].next \in {0} \union Tokens
      /\ refresh \in [Pages -> Request]
  BY RefreshTyped DEF Sound
<1>2. \A t \in Tokens : /\ tokens'[t].by \in {tokens[t].by, Nobody}
                        /\ tokens[t].refresh \in {"revoked", "gone"}
                             => tokens'[t].refresh \in {"revoked", "gone"}
  BY DEF Withers
<1>3. refresh'[p].at = "idle" /\ \A q \in Pages \ {p} : refresh'[q] = refresh[q]
  BY <1>1 DEF Idle
<1>4. AnswersAreOfTokens'
  BY <1>3 DEF Sound, AnswersAreOfTokens
<1>5. UnheardIsUnknown'
  BY <1>1, <1>2, <1>3 DEF Sound, Refreshes, UnheardIsUnknown, AnswersAreOfTokens
<1>6. CookieIsNotOwn'
  BY <1>1, <1>2, <1>3 DEF Sound, Refreshes, CookieIsNotOwn
<1>7. SentIsNotOwn'
  BY <1>1, <1>2, <1>3 DEF Sound, Refreshes, SentIsNotOwn
<1>8. ReuseIsOfSpent' /\ ReuseIsNotOwn'
  BY <1>1, <1>2, <1>3 DEF Sound, Refreshes, ReuseIsOfSpent, ReuseIsNotOwn
<1> QED
  BY <1>4, <1>5, <1>6, <1>7, <1>8 DEF Refreshes

\* A page that waits for nothing sends the token of the cookie.
LEMMA RefreshesAsk ==
  ASSUME Sound, NEW p \in Pages, Withers, UNCHANGED <<cookie, tokens>>, refresh[p].at = "idle",
         refresh' = [refresh EXCEPT ![p] = Sent(cookie)]
  PROVE  AnswersAreOfTokens' /\ Refreshes'
<1>1. /\ cookie \in {0} \union Tokens
      /\ \A q \in Pages : refresh[q].cookie \in {0} \union Tokens
      /\ \A q \in Pages : refresh[q].next \in {0} \union Tokens
      /\ refresh \in [Pages -> Request]
  BY RefreshTyped DEF Sound
<1>2. /\ refresh'[p].at = "sent" /\ refresh'[p].cookie = cookie
      /\ \A q \in Pages \ {p} : refresh'[q] = refresh[q]
  BY <1>1 DEF Sent
<1>3. AnswersAreOfTokens'
  BY <1>2 DEF Sound, AnswersAreOfTokens
<1>4. UnheardIsUnknown'
  BY <1>1, <1>2 DEF Sound, Refreshes, UnheardIsUnknown
<1>5. CookieIsNotOwn'
  BY <1>1, <1>2 DEF Sound, Refreshes, CookieIsNotOwn
<1>6. SentIsNotOwn'
  BY <1>1, <1>2 DEF Sound, Refreshes, SentIsNotOwn, CookieIsNotOwn
<1>7. ReuseIsOfSpent' /\ ReuseIsNotOwn'
  BY <1>1, <1>2 DEF Sound, Refreshes, ReuseIsOfSpent, ReuseIsNotOwn
<1> QED
  BY <1>3, <1>4, <1>5, <1>6, <1>7 DEF Refreshes

\* A sign-in puts a token in the cookie that nobody has sent.
LEMMA RefreshesLogin ==
  ASSUME Sound, Opens, UNCHANGED refresh, cookie' = Len(tokens) + 1
  PROVE  AnswersAreOfTokens' /\ Refreshes'
<1> DEFINE n == Len(tokens) + 1
<1>1. /\ \A q \in Pages : refresh[q].cookie \in {0} \union Tokens
      /\ \A q \in Pages : refresh[q].next \in {0} \union Tokens
      /\ Len(tokens) \in Nat
  BY RefreshTyped DEF Sound
<1>2. n \notin {0} \union Tokens
  BY <1>1 DEF Tokens
<1>3. tokens'[n].by = Nobody /\ \A t \in Tokens : tokens'[t] = tokens[t]
  BY DEF Opens, Pair
<1> HIDE DEF n
<1>4. cookie' = n
  BY DEF n
<1>5. AnswersAreOfTokens'
  BY DEF Sound, AnswersAreOfTokens
<1>6. UnheardIsUnknown'
  BY <1>1, <1>2, <1>3, <1>4 DEF Sound, Refreshes, UnheardIsUnknown, AnswersAreOfTokens
<1>7. CookieIsNotOwn'
  BY <1>3, <1>4 DEF CookieIsNotOwn
<1>8. SentIsNotOwn'
  BY <1>1, <1>3 DEF Sound, Refreshes, SentIsNotOwn
<1>9. ReuseIsOfSpent' /\ ReuseIsNotOwn'
  BY <1>1, <1>3 DEF Sound, Refreshes, ReuseIsOfSpent, ReuseIsNotOwn
<1> QED
  BY <1>5, <1>6, <1>7, <1>8, <1>9 DEF Refreshes

\* The gateway spends the token page p sent; the answer brings one nobody knows.
LEMMA RefreshesRotate ==
  ASSUME Sound, NEW p \in Pages, refresh[p].at = "sent", UNCHANGED cookie,
         Rotates(refresh[p].cookie, p),
         refresh' = [refresh EXCEPT ![p] = [at |-> "rotated", cookie |-> refresh[p].cookie,
                                            next |-> Len(tokens) + 1]]
  PROVE  AnswersAreOfTokens' /\ Refreshes'
<1> DEFINE n == Len(tokens) + 1  t == refresh[p].cookie
<1>1. /\ \A q \in Pages : refresh[q].cookie \in {0} \union Tokens
      /\ \A q \in Pages : refresh[q].next \in {0} \union Tokens
      /\ Len(tokens) \in Nat /\ cookie \in {0} \union Tokens
      /\ refresh \in [Pages -> Request]
  BY RefreshTyped DEF Sound
<1>2. n \notin {0} \union Tokens /\ t \in Tokens /\ t # 0 /\ n # 0
  BY <1>1 DEF Tokens, Rotates
<1>3. /\ tokens'[n].by = Nobody /\ \A o \in Tokens \ {t} : tokens'[o] = tokens[o]
      /\ tokens'[t].by = p /\ tokens[t].refresh = "live" /\ tokens'[t].refresh = "revoked"
  <2>1. tokens[t] \in Entry(Len(sessions))
    BY <1>1, <1>2, EntryOf, RefreshTyped DEF Sound
  <2> QED
    BY <2>1 DEF Rotates, Pair, Entry
<1>4. /\ refresh'[p].at = "rotated" /\ refresh'[p].cookie = t /\ refresh'[p].next = n
      /\ \A q \in Pages \ {p} : refresh'[q] = refresh[q]
  BY <1>1
<1> HIDE DEF n, t
<1>5. t = refresh[p].cookie
  BY DEF t
<1>6. AnswersAreOfTokens'
  BY <1>2, <1>4 DEF Sound, AnswersAreOfTokens
<1>7. UnheardIsUnknown'
  BY <1>1, <1>2, <1>3, <1>4, <1>5 DEF Sound, Refreshes, UnheardIsUnknown, AnswersAreOfTokens
<1>8. CookieIsNotOwn'
  BY <1>1, <1>2, <1>3, <1>4 DEF Sound, Refreshes, CookieIsNotOwn
<1>9. SentIsNotOwn'
  BY <1>1, <1>3, <1>4 DEF Sound, Refreshes, SentIsNotOwn
<1>10. ReuseIsOfSpent' /\ ReuseIsNotOwn'
  BY <1>1, <1>3, <1>4 DEF Sound, Refreshes, ReuseIsOfSpent, ReuseIsNotOwn
<1> QED
  BY <1>6, <1>7, <1>8, <1>9, <1>10 DEF Refreshes

\* The gateway refuses the token page p sent.
LEMMA RefreshesRefuse ==
  ASSUME Sound, NEW p \in Pages, refresh[p].at = "sent", UNCHANGED cookie, Withers,
         refresh'[p].at \in {"missing", "reuse"}, refresh'[p].cookie = refresh[p].cookie,
         \A q \in Pages \ {p} : refresh'[q] = refresh[q],
         refresh'[p].at = "reuse" => /\ refresh[p].cookie \in Tokens
                                     /\ tokens[refresh[p].cookie].refresh = "revoked"
  PROVE  AnswersAreOfTokens' /\ Refreshes'
<1>1. /\ cookie \in {0} \union Tokens /\ 0 \notin Tokens
      /\ \A q \in Pages : refresh[q].cookie \in {0} \union Tokens
      /\ \A q \in Pages : refresh[q].next \in {0} \union Tokens
  BY RefreshTyped DEF Sound, Tokens
<1>2. \A t \in Tokens : /\ tokens'[t].by \in {tokens[t].by, Nobody}
                        /\ tokens[t].refresh \in {"revoked", "gone"}
                             => tokens'[t].refresh \in {"revoked", "gone"}
  BY DEF Withers
<1>3. AnswersAreOfTokens'
  BY DEF Sound, AnswersAreOfTokens
<1>4. UnheardIsUnknown'
  BY <1>1, <1>2 DEF Sound, Refreshes, UnheardIsUnknown, AnswersAreOfTokens
<1>5. CookieIsNotOwn'
  BY <1>1, <1>2 DEF Sound, Refreshes, CookieIsNotOwn
<1>6. SentIsNotOwn'
  BY <1>1, <1>2 DEF Sound, Refreshes, SentIsNotOwn
<1>7. ReuseIsOfSpent'
  BY <1>1, <1>2 DEF Sound, Refreshes, ReuseIsOfSpent
<1>8. ReuseIsNotOwn'
  BY <1>1, <1>2 DEF Sound, Refreshes, ReuseIsNotOwn, ReuseIsOfSpent, SentIsNotOwn
<1> QED
  BY <1>3, <1>4, <1>5, <1>6, <1>7, <1>8 DEF Refreshes

\* The answer of page p puts in the cookie what only it brings.
LEMMA RefreshesHear ==
  ASSUME Sound, NEW p \in Pages, refresh[p].at = "rotated", cookie' = refresh[p].next,
         UNCHANGED tokens, refresh' = [refresh EXCEPT ![p] = Idle]
  PROVE  AnswersAreOfTokens' /\ Refreshes'
<1>1. refresh \in [Pages -> Request]
  BY RefreshTyped DEF Sound
<1>2. refresh'[p].at = "idle" /\ \A q \in Pages \ {p} : refresh'[q] = refresh[q]
  BY <1>1 DEF Idle
<1>3. AnswersAreOfTokens'
  BY <1>2 DEF Sound, AnswersAreOfTokens
<1>4. UnheardIsUnknown'
  BY <1>2 DEF Sound, Refreshes, UnheardIsUnknown
<1>5. CookieIsNotOwn'
  BY <1>2 DEF Sound, Refreshes, CookieIsNotOwn, UnheardIsUnknown
<1>6. SentIsNotOwn'
  BY <1>2 DEF Sound, Refreshes, SentIsNotOwn
<1>7. ReuseIsOfSpent' /\ ReuseIsNotOwn'
  BY <1>2 DEF Sound, Refreshes, ReuseIsOfSpent, ReuseIsNotOwn
<1> QED
  BY <1>3, <1>4, <1>5, <1>6, <1>7 DEF Refreshes

-----------------------------------------------------------------------------
(* The theorems *)

LEMMA SoundStart == Init => Sound
BY TypeStart DEF Init, Sound, LiveTokensOfActiveSessions, Refreshes, UnheardIsUnknown,
   CookieIsNotOwn, SentIsNotOwn, ReuseIsOfSpent, ReuseIsNotOwn, Idle, Tokens

LEMMA ServeRefreshStep ==
  ASSUME Sound, NEW p \in Pages, ServeRefresh(p)
  PROVE  Sound'
<1> DEFINE t == refresh[p].cookie  outcome == RefreshOutcome(t)
<1>1. /\ TypeOK' /\ Rows /\ refresh[p].at = "sent" /\ UNCHANGED <<cookie, sessions>>
      /\ refresh \in [Pages -> Request]
  BY ServeRefreshType, RefreshTyped DEF Sound, ServeRefresh
<1>2. refresh' = [refresh EXCEPT ![p] =
                    [at |-> outcome, cookie |-> t,
                     next |-> IF outcome = "rotated" THEN Len(tokens) + 1 ELSE 0]]
  BY DEF ServeRefresh
<1>3. CASE refresh'[p].at = "rotated"
  <2>1. outcome = "rotated" /\ Rotates(t, p)
    BY <1>1, <1>2, <1>3, ServeRefreshType DEF Sound
  <2>2. LiveTokensOfActiveSessions'
    BY <1>1, <2>1, LiveRotates DEF Sound
  <2>3. AnswersAreOfTokens' /\ Refreshes'
    BY <1>1, <1>2, <2>1, RefreshesRotate
  <2> QED
    BY <1>1, <2>2, <2>3 DEF Sound
<1>4. CASE refresh'[p].at \in {"missing", "reuse"} /\ Withers
  <2>1. LiveTokensOfActiveSessions'
    BY <1>1, <1>4, LiveWithers DEF Sound
  <2>2. /\ refresh'[p].at = outcome /\ refresh'[p].cookie = t
        /\ \A q \in Pages \ {p} : refresh'[q] = refresh[q]
    BY <1>1, <1>2
  <2>3. outcome = "reuse" => t \in Tokens /\ tokens[t].refresh = "revoked"
    BY DEF RefreshOutcome
  <2>4. AnswersAreOfTokens' /\ Refreshes'
    BY <1>1, <1>4, <2>2, <2>3, RefreshesRefuse
  <2> QED
    BY <1>1, <2>1, <2>4 DEF Sound
<1> QED
  BY <1>3, <1>4, ServeRefreshType DEF Sound

LEMMA SoundStep == Sound /\ [Next]_vars => Sound'
<1> SUFFICES ASSUME Sound, [Next]_vars PROVE Sound'
  OBVIOUS
<1>1. TypeOK /\ Rows /\ LiveTokensOfActiveSessions /\ AnswersAreOfTokens
  BY RefreshTyped DEF Sound
<1>2. ASSUME NEW p \in Pages, Login(p) PROVE Sound'
  <2>1. TypeOK' /\ Opens /\ UNCHANGED refresh /\ cookie' = Len(tokens) + 1
    BY <1>1, <1>2, LoginType DEF Login
  <2> QED
    BY <1>1, <2>1, LiveOpens, RefreshesLogin DEF Sound
<1>3. ASSUME NEW p \in Pages, UNCHANGED <<sessions, tokens>>,
             \/ RefreshOnMount(p) \/ HearRefreshed(p) \/ HearRefused(p)
             \/ (\E kind \in Kinds : Call(p, kind))
             \/ LogoutUnasked(p) \/ HearOk(p) \/ HearDenied(p) \/ HearRefusedAgain(p)
      PROVE  Sound'
  <2>1. TypeOK' /\ Withers
    BY <1>1, <1>3, QuietPageTypes
  <2>2. LiveTokensOfActiveSessions'
    BY <1>1, <1>3, <2>1, LiveWithers
  <2>3. CASE UNCHANGED refresh /\ cookie' \in {cookie, 0}
    BY <2>1, <2>2, <2>3, RefreshesRest DEF Sound
  <2>4. CASE RefreshOnMount(p) \/ HearDenied(p)
    <3>1. UNCHANGED cookie /\ (UNCHANGED refresh \/ RefreshShared(p))
      BY <2>4 DEF RefreshOnMount, HearDenied
    <3>2. UNCHANGED refresh \/ (refresh[p].at = "idle"
                                /\ refresh' = [refresh EXCEPT ![p] = Sent(cookie)])
      BY <3>1 DEF RefreshShared
    <3>3. AnswersAreOfTokens' /\ Refreshes'
      BY <1>3, <2>1, <3>1, <3>2, RefreshesRest, RefreshesAsk
    <3> QED
      BY <2>1, <2>2, <3>3 DEF Sound
  <2>5. CASE HearRefreshed(p)
    BY <1>3, <2>1, <2>2, <2>5, RefreshesHear DEF Sound, HearRefreshed
  <2>6. CASE HearRefused(p)
    BY <1>3, <2>1, <2>2, <2>6, RefreshesOver DEF Sound, HearRefused, RefreshFails
  <2> QED
    BY <1>3, <2>3, <2>4, <2>5, <2>6 DEF Call, LogoutUnasked, HearOk, HearRefusedAgain
<1>4. ASSUME NEW p \in Pages, LoseRefresh(p) \/ Reload(p) PROVE Sound'
  <2>1. /\ TypeOK' /\ Withers /\ UNCHANGED <<sessions, cookie>>
        /\ refresh[p].at = "rotated" => tokens'[refresh[p].cookie].by = Nobody
        /\ refresh' = [refresh EXCEPT ![p] = Idle]
    BY <1>1, <1>4, LosingTypes DEF LoseRefresh, Reload, RefreshFails
  <2> QED
    BY <1>1, <2>1, LiveWithers, RefreshesOver DEF Sound
<1>5. ASSUME NEW p \in Pages, ServeCall(p) PROVE Sound'
  <2>1. TypeOK' /\ Withers /\ UNCHANGED <<cookie, refresh>>
    BY <1>1, <1>5, ServeCallType DEF ServeCall
  <2>2. LiveTokensOfActiveSessions'
    <3>1. CASE UNCHANGED <<sessions, tokens>>
      BY <1>1, <2>1, <3>1, LiveWithers
    <3>2. CASE EndSessions({tokens[call[p].token].session}, "logged_out")
      BY <1>1, <3>2, LiveEnds DEF Status
    <3>3. CASE EndSessions(1..Len(sessions), "revoked")
      BY <1>1, <3>3, LiveEnds DEF Status
    <3> QED
      BY <1>5, <3>1, <3>2, <3>3 DEF ServeCall
  <2> QED
    BY <2>1, <2>2, RefreshesRest DEF Sound
<1>6. ASSUME NEW t \in Tokens, AccessExpires(t) \/ RefreshExpires(t) PROVE Sound'
  <2>1. TypeOK' /\ Withers /\ UNCHANGED <<cookie, refresh, sessions>>
    BY <1>1, <1>6, AgeType DEF AccessExpires, RefreshExpires
  <2> QED
    BY <1>1, <2>1, LiveWithers, RefreshesRest DEF Sound
<1>7. CASE UNCHANGED vars
  <2>1. UNCHANGED <<sessions, tokens, cookie, refresh>> /\ Withers
    BY <1>1, <1>7, SameWithers DEF vars
  <2>2. TypeOK'
    BY <1>1, <1>7 DEF TypeOK, vars, Tokens
  <2> QED
    BY <1>1, <2>1, <2>2, LiveWithers, RefreshesRest DEF Sound
<1>8. ASSUME NEW p \in Pages, PageStep(p) PROVE Sound'
  <2>1. CASE Login(p) \/ ServeRefresh(p) \/ LoseRefresh(p) \/ Reload(p) \/ ServeCall(p)
    BY <1>2, <1>4, <1>5, <2>1, ServeRefreshStep
  <2>2. CASE \/ RefreshOnMount(p) \/ HearRefreshed(p) \/ HearRefused(p)
             \/ (\E kind \in Kinds : Call(p, kind))
             \/ LogoutUnasked(p) \/ HearOk(p) \/ HearDenied(p) \/ HearRefusedAgain(p)
    <3>1. UNCHANGED <<sessions, tokens>>
      BY <2>2 DEF RefreshOnMount, HearRefreshed, HearRefused, Call, LogoutUnasked, HearOk,
                  HearDenied, HearRefusedAgain
    <3> QED
      BY <1>3, <2>2, <3>1
  <2> QED
    BY <1>8, <2>1, <2>2 DEF PageStep
<1> QED
  BY <1>6, <1>7, <1>8 DEF Next

LEMMA SoundAlways == Spec => []Sound
BY SoundStart, SoundStep, PTL DEF Spec

\* The gateway accepts no token of a session that has ended, and a session has at most
\* one refresh token to spend (create_session_and_tokens, rotate_refresh_token and
\* revoke_sessions of auth/store.rs).
THEOREM TokensStaySound == Spec => []TokensAreSound
<1>1. Sound => TokensAreSound
  BY DEF Sound, TokensAreSound
<1> QED
  BY <1>1, SoundAlways, PTL

\* However requests, lost answers and reloads interleave, a page is never refused for a
\* token that its own refresh spent (refreshAccessTokenRuntime, refresh of auth handlers).
THEOREM NoPageReuses == Spec => []ReuseIsNotOwn
<1>1. Sound => ReuseIsNotOwn
  BY DEF Sound, Refreshes
<1> QED
  BY <1>1, SoundAlways, PTL

=============================================================================
