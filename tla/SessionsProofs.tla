--------------------------- MODULE SessionsProofs ---------------------------
(***************************************************************************)
(* Sessions for any browsers, tabs, roles and number of tokens.            *)
(***************************************************************************)
EXTENDS Sessions, TLAPS

\* What a tab waits for; with a token of its own in the second line.
Pc == {"idle", "register", "bare", "stamp", "session", "setName", "name", "role",
       "refused", "again", "unauthorized", "failed"} \cup
      {"needPhone", "setPhone", "phone", "in", "find", "found", "rotated", "created"}
Bearing == {"needPhone", "setPhone", "phone", "in", "find", "found", "rotated", "created"}

Profile == [on : BOOLEAN, phone : BOOLEAN, named : BOOLEAN]
Tab == [pc : Pc, tok : 0 .. MaxTokens, role : Roles, prof : Profile, new : BOOLEAN]

\* Only tokens that were made are held, by anybody.
AccountOK ==
  /\ user \in [on : BOOLEAN, role : Roles]
  /\ profile \in Profile
  /\ wanted \in [sure : BOOLEAN, role : Roles, named : BOOLEAN]

TokensOK ==
  /\ made \in 0 .. MaxTokens
  /\ rows \subseteq 1 .. made /\ expired \subseteq rows
  /\ root \in [Tokens -> Tokens]
  /\ \A k \in 1 .. made : root[k] <= made
  /\ revoker \in 0 .. made

BrowsersOK ==
  /\ store \in [Browsers -> [access : BOOLEAN, refresh : 0 .. MaxTokens]]
  /\ \A b \in Browsers : store[b].refresh <= made
  /\ expects \in [Browsers -> {"in", "out", "any"}]

TabsOK ==
  /\ tabs \in [Tabs -> Tab]
  /\ \A t \in Tabs :
       /\ tabs[t].tok <= made
       /\ tabs[t].pc \in Bearing => tabs[t].tok # NoToken

TypeOK == AccountOK /\ TokensOK /\ BrowsersOK /\ TabsOK

\* A browser, or a tab of it, holds a token.
Holds(b, k) ==
  \/ store[b].refresh = k
  \/ \E t \in Tabs : Home[t] = b /\ tabs[t].tok = k

\* The tokens of one sign-in are held in one browser.
Apart ==
  \A b, c \in Browsers : \A k, l \in 1 .. made :
    Holds(b, k) /\ Holds(c, l) /\ root[k] = root[l] => b = c

\* A browser that is out does not refresh; in one that is in, at most one tab
\* does, with a token of the same sign-in, which is live when it is looked for
\* and again when it comes back.
SteadyAt(b) ==
  /\ expects[b] = "out" => store[b].refresh = NoToken /\ Refreshes(b) = {}
  /\ expects[b] = "in" =>
       /\ store[b].refresh # NoToken
       /\ Refreshes(b) = {} => store[b].refresh \in rows \ expired
       /\ \A t \in Refreshes(b) :
            /\ Refreshes(b) = {t}
            /\ tabs[t].pc # "failed"
            /\ root[tabs[t].tok] = root[store[b].refresh]
            /\ tabs[t].pc \in {"find", "created"} => tabs[t].tok \in rows \ expired

Steady == \A b \in Browsers : SteadyAt(b)

\* Between reading the row of profiles and writing it; a registration writes
\* without having read.
Rereads == {"phone", "name"}

\* As long as it is sure what the account should hold, one at a time writes
\* each of its rows, and has read it as it is.
OneWriter ==
  /\ ~user.on => \A t \in Tabs : tabs[t].pc \notin OnUser
  /\ ~profile.on => ~profile.named
  /\ wanted.sure =>
       /\ \A t, u \in Tabs : tabs[t].pc \in OnUser /\ tabs[u].pc \in OnUser => t = u
       /\ \A t, u \in Tabs : tabs[t].pc \in Rereads /\ tabs[u].pc \in Rereads => t = u
       /\ \A t \in Tabs : tabs[t].pc = "stamp" => tabs[t].role = user.role
       /\ \A t \in Tabs : tabs[t].pc \in Rereads => tabs[t].prof = profile
       /\ user.on => user.role = wanted.role
       /\ wanted.named => profile.named

-----------------------------------------------------------------------------
\* A tab may move to any state of its type whose token was made.
LEMMA TabMoves ==
  ASSUME TabsOK, TokensOK, made' \in {made, made + 1}, NEW t \in Tabs, NEW x \in Tab,
         x.tok <= made', x.pc \in Bearing => x.tok # NoToken,
         tabs' = [tabs EXCEPT ![t] = x]
  PROVE  TabsOK'
<1>1. tabs' \in [Tabs -> Tab]
  BY DEF TabsOK
<1>2. ASSUME NEW u \in Tabs
      PROVE  tabs'[u].tok <= made' /\ (tabs'[u].pc \in Bearing => tabs'[u].tok # NoToken)
  <2>1. CASE u = t
    BY <2>1 DEF TabsOK
  <2>2. CASE u # t
    <3>1. tabs[u].tok \in 0 .. MaxTokens /\ tabs[u].tok <= made
      BY DEF TabsOK, Tab
    <3> QED
      BY <2>2, <3>1, SessionsAssumption DEF TabsOK, TokensOK
  <2> QED
    BY <2>1, <2>2
<1> QED
  BY <1>1, <1>2 DEF TabsOK

\* Most steps only take a tab to where it waits next.
LEMMA TabGoes ==
  ASSUME TypeOK, UNCHANGED made, NEW t \in Tabs, NEW pc \in Pc,
         pc \in Bearing => tabs[t].pc \in Bearing, Goes(t, pc)
  PROVE  TabsOK'
<1>1. tabs[t] \in Tab
  BY DEF TypeOK, TabsOK
<1>2. [tabs[t] EXCEPT !.pc = pc] \in Tab
  BY <1>1 DEF Tab
<1>3. tabs[t].tok <= made /\ (tabs[t].pc \in Bearing => tabs[t].tok # NoToken)
  BY DEF TypeOK, TabsOK
<1> QED
  BY <1>1, <1>2, <1>3, TabMoves DEF Goes, TypeOK, Tab

\* One member of the roles is chosen, always the same.
LEMMA AnyRoleIsRole == AnyRole \in Roles
  BY SessionsAssumption DEF AnyRole

\* An idle tab is a tab.
LEMMA IdleIsTab == Idle \in Tab /\ \A pc \in Pc : [Idle EXCEPT !.pc = pc] \in Tab
<1>1. Bare \in Profile /\ NoProfile \in Profile
  BY DEF Bare, NoProfile, Profile
<1>2. NoToken \in 0 .. MaxTokens
  BY SessionsAssumption DEF NoToken
<1>3. Idle \in Tab
  BY <1>1, <1>2, AnyRoleIsRole DEF Idle, Tab, Pc
<1> QED
  BY <1>3 DEF Tab

\* A step that leaves the tabs and the counter keeps the tabs' types.
LEMMA TabRests ==
  ASSUME TypeOK, UNCHANGED made, NEW t \in Tabs, Rests(t)
  PROVE  TabsOK'
<1>1. Idle \in Tab /\ Idle.tok <= made /\ Idle.pc \notin Bearing
  BY IdleIsTab DEF Idle, Bearing, NoToken, TypeOK, TokensOK
<1> QED
  BY <1>1, TabMoves DEF Rests, TypeOK

\* Excusing browsers keeps their types.
LEMMA DisturbKeeps ==
  ASSUME BrowsersOK, UNCHANGED <<store, made>>, NEW B, Disturb(B)
  PROVE  BrowsersOK'
  BY DEF BrowsersOK, Disturb

\* Every step keeps the account's types,
LEMMA AccountStep == TypeOK /\ [Next]_vars => AccountOK'
<1> SUFFICES ASSUME TypeOK, [Next]_vars PROVE AccountOK'
  OBVIOUS
<1>t. AccountOK /\ \A t \in Tabs : tabs[t].role \in Roles /\ tabs[t].prof \in Profile
  BY DEF TypeOK, TabsOK, Tab
<1> USE <1>t, AnyRoleIsRole DEF AccountOK, Profile
<1>1. CASE UNCHANGED <<user, profile, wanted>>
  BY <1>1
<1>2. ASSUME NEW c \in BOOLEAN, Clash(c), UNCHANGED <<user, profile>> PROVE AccountOK'
  BY <1>2 DEF Clash
<1>3. ASSUME NEW t \in Tabs, NEW r \in Roles, CreateUser(t, r) PROVE AccountOK'
  <2>1. CASE user.on
    BY <1>3, <2>1, <1>1 DEF CreateUser, account
  <2>2. CASE ~user.on
    <3>1. user' \in [on : BOOLEAN, role : Roles] /\ UNCHANGED profile
      <4>1. user' = [on |-> TRUE, role |-> r] /\ UNCHANGED profile
        BY <1>3, <2>2 DEF CreateUser
      <4> QED
        BY <4>1
    <3>2. wanted' \in [sure : BOOLEAN, role : Roles, named : BOOLEAN]
      BY <1>3, <2>2 DEF CreateUser, Wants
    <3> QED
      BY <3>1, <3>2
  <2> QED
    BY <2>1, <2>2
<1>4. ASSUME NEW t \in Tabs, NEW ok \in BOOLEAN, BareProfile(t, ok) PROVE AccountOK'
  <2>1. profile' \in Profile
    BY <1>4 DEF BareProfile, Bare
  <2>2. wanted' \in [sure : BOOLEAN, role : Roles, named : BOOLEAN]
    BY <1>4 DEF BareProfile, Clash
  <2> QED
    BY <1>4, <2>1, <2>2 DEF BareProfile
<1>5. ASSUME NEW t \in Tabs, NEW ok \in BOOLEAN, Stamp(t, ok) PROVE AccountOK'
  BY <1>5 DEF Stamp
<1>6. ASSUME NEW t \in Tabs, NEW ok \in BOOLEAN, WriteProfile(t, ok) PROVE AccountOK'
  <2>1. CASE ok
    <3>1. profile' \in Profile
      BY <1>6, <2>1 DEF WriteProfile, Bare
    <3>2. wanted' \in [sure : BOOLEAN, role : Roles, named : BOOLEAN]
      BY <1>6, <2>1 DEF WriteProfile, Wants
    <3> QED
      BY <1>6, <3>1, <3>2 DEF WriteProfile
  <2>2. CASE ~ok
    BY <1>6, <2>2 DEF WriteProfile
  <2> QED
    BY <2>1, <2>2
<1>7. ASSUME NEW t \in Tabs, NEW r \in Roles, WriteRole(t, r) PROVE AccountOK'
  BY <1>7 DEF WriteRole, Wants
<1>8. ASSUME NEW t \in Tabs, Login(t) \/ (\E ok \in BOOLEAN : ReadProfile(t, ok))
                             \/ \E what \in {"role", "name", "read"} : Request(t, what)
      PROVE  AccountOK'
  <2>1. CASE Login(t)
    BY <2>1, <1>2 DEF Login, Meets
  <2>2. CASE \E ok \in BOOLEAN : ReadProfile(t, ok)
    BY <2>2, <1>2 DEF ReadProfile, Meets
  <2>3. ASSUME NEW what \in {"role", "name", "read"}, Request(t, what) PROVE AccountOK'
    BY <2>3, <1>1, <1>2 DEF Request, Meets
  <2> QED
    BY <1>8, <2>1, <2>2, <2>3
<1>9. ASSUME NEW t \in Tabs, Refresh(t) PROVE AccountOK'
  BY <1>9, <1>1 DEF Refresh, StartRefresh, Find, Drop, Settle, Rotate, Recreate, Unauthorized, account
<1>10. ASSUME NEW t \in Tabs, Register(t) \/ Logout(t) \/ FindOwn(t) \/ NeedsPhone(t)
           \/ \E ok \in BOOLEAN : CreateSession(t, ok) \/ SignedIn(t, ok)
       PROVE AccountOK'
  BY <1>10, <1>1 DEF Register, Logout, FindOwn, NeedsPhone, CreateSession, SignedIn, account
<1>11. CASE \/ \E b \in Browsers : ExpireAccess(b)
            \/ \E k \in Tokens : ExpireRefresh(k) \/ Revoke(k)
            \/ RevokeOthers
  BY <1>11, <1>1 DEF ExpireAccess, ExpireRefresh, Revoke, RevokeOthers, account
<1>12. CASE UNCHANGED vars
  BY <1>12, <1>1 DEF vars
<1> QED
  BY <1>3, <1>4, <1>5, <1>6, <1>7, <1>8, <1>9, <1>10, <1>11, <1>12 DEF Next, SignIn

\* A new token is the next one; what it goes back to has been made.
LEMMA TokenIsNew ==
  ASSUME TokensOK, NEW from \in 0 .. made, NewToken(from), UNCHANGED revoker
  PROVE  /\ TokensOK'
         /\ made + 1 \in Tokens /\ made' = made + 1 /\ rows' = rows \cup {made + 1}
         /\ \A k \in 1 .. made : root'[k] = root[k]
         /\ root'[made + 1] = IF from = NoToken THEN made + 1 ELSE root[from]
<1> USE SessionsAssumption DEF TokensOK, Tokens, NoToken
<1>1. made + 1 \in Tokens /\ made' = made + 1 /\ rows' = rows \cup {made + 1} /\ expired' = expired
  BY DEF NewToken
<1>2. root' = [root EXCEPT ![made + 1] = IF from = NoToken THEN made + 1 ELSE root[from]]
  BY DEF NewToken
<1> DEFINE old == IF from = NoToken THEN made + 1 ELSE root[from]
<1>3. old \in 1 .. made + 1
  <2>1. CASE from = NoToken
    BY <2>1
  <2>2. CASE from # NoToken
    <3>1. from \in 1 .. made /\ from \in Tokens
      BY <2>2
    <3>2. root[from] \in Tokens /\ root[from] <= made
      BY <3>1
    <3> QED
      BY <2>2, <3>2
  <2> QED
    BY <2>1, <2>2
<1>4. old \in Tokens
  BY <1>1, <1>3
<1>5. root' = [root EXCEPT ![made + 1] = old]
  BY <1>2
<1> HIDE DEF old
<1>6. root' \in [Tokens -> Tokens] /\ root'[made + 1] = old
  BY <1>1, <1>4, <1>5
<1>7. \A k \in 1 .. made : root'[k] = root[k]
  BY <1>1, <1>5
<1>8. ASSUME NEW k \in 1 .. made' PROVE root'[k] <= made'
  <2>1. CASE k = made + 1
    BY <2>1, <1>1, <1>3, <1>6
  <2>2. CASE k # made + 1
    <3>1. k \in 1 .. made
      BY <2>2, <1>1
    <3>2. k \in Tokens /\ root[k] \in Nat /\ root[k] <= made /\ root'[k] = root[k]
      BY <3>1, <1>7
    <3> QED
      BY <3>2, <1>1
  <2> QED
    BY <2>1, <2>2
<1>9. made' \in 0 .. MaxTokens /\ rows' \subseteq 1 .. made' /\ expired' \subseteq rows'
  BY <1>1
<1>10. revoker' \in 0 .. made'
  BY <1>1
<1>11. TokensOK'
  BY <1>6, <1>8, <1>9, <1>10
<1> QED
  BY <1>1, <1>6, <1>7, <1>11 DEF old

\* those of the tokens, of which it makes at most one,
LEMMA TokensStep == TypeOK /\ [Next]_vars => TokensOK' /\ made' \in {made, made + 1}
<1> SUFFICES ASSUME TypeOK, [Next]_vars PROVE TokensOK' /\ made' \in {made, made + 1}
  OBVIOUS
<1>t. TokensOK /\ \A t \in Tabs : tabs[t].tok \in 0 .. made
  BY DEF TypeOK, TabsOK, Tab, TokensOK
<1>1. ASSUME UNCHANGED <<rows, root, made, expired, revoker>>
      PROVE TokensOK' /\ made' \in {made, made + 1}
  BY <1>1, <1>t DEF TokensOK
<1>2. ASSUME NEW K, Delete(K), UNCHANGED <<root, made>>, revoker' \in {revoker, NoToken}
      PROVE  TokensOK' /\ made' \in {made, made + 1}
  <2>1. rows' \subseteq rows /\ expired' \subseteq rows' /\ revoker' \in 0 .. made
    <3>1. rows' = rows \ K /\ expired' = expired \ K /\ expired \subseteq rows
      BY <1>2, <1>t DEF Delete, TokensOK
    <3>2. revoker \in 0 .. made /\ 0 \in 0 .. made
      BY <1>t DEF TokensOK
    <3> QED
      BY <1>2, <3>1, <3>2 DEF NoToken
  <2> QED
    BY <1>2, <2>1, <1>t DEF TokensOK
<1>3. ASSUME NEW t \in Tabs, NEW ok \in BOOLEAN, CreateSession(t, ok)
      PROVE TokensOK' /\ made' \in {made, made + 1}
  <2>1. CASE ok
    <3>1. NoToken \in 0 .. made
      BY <1>t DEF NoToken, TokensOK
    <3> QED
      BY <1>3, <2>1, <3>1, <1>t, TokenIsNew DEF CreateSession
  <2> QED
    BY <1>3, <2>1, <1>1 DEF CreateSession, sessions
<1>4. ASSUME NEW t \in Tabs, NEW ok \in BOOLEAN, Recreate(t, ok)
      PROVE TokensOK' /\ made' \in {made, made + 1}
  BY <1>4, <1>t, <1>1, TokenIsNew DEF Recreate, sessions
<1>5. ASSUME NEW t \in Tabs, NEW ok \in BOOLEAN, Rotate(t, ok)
      PROVE TokensOK' /\ made' \in {made, made + 1}
  BY <1>5, <1>1, <1>2 DEF Rotate
<1>6. ASSUME NEW t \in Tabs, FindOwn(t)
      PROVE TokensOK' /\ made' \in {made, made + 1}
  <2>1. revoker' \in rows /\ UNCHANGED <<rows, root, made, expired>>
    BY <1>6 DEF FindOwn, sessions
  <2> QED
    BY <2>1, <1>t DEF TokensOK
<1>7. ASSUME NEW k \in Tokens, ExpireRefresh(k)
      PROVE TokensOK' /\ made' \in {made, made + 1}
  BY <1>7, <1>t DEF ExpireRefresh, TokensOK
<1>8. ASSUME NEW k \in Tokens, Revoke(k)
      PROVE TokensOK' /\ made' \in {made, made + 1}
  BY <1>8, <1>2 DEF Revoke
<1>9. ASSUME RevokeOthers
      PROVE TokensOK' /\ made' \in {made, made + 1}
  BY <1>9, <1>2 DEF RevokeOthers
<1>10. ASSUME NEW t \in Tabs,
              \/ Register(t) \/ Login(t) \/ Logout(t) \/ NeedsPhone(t)
              \/ \E r \in Roles : CreateUser(t, r) \/ WriteRole(t, r)
              \/ \E ok \in BOOLEAN : BareProfile(t, ok) \/ Stamp(t, ok) \/ SignedIn(t, ok)
                                   \/ ReadProfile(t, ok) \/ WriteProfile(t, ok)
              \/ \E what \in {"role", "name", "read"} : Request(t, what)
       PROVE TokensOK' /\ made' \in {made, made + 1}
  BY <1>10, <1>1 DEF Register, Login, Logout, NeedsPhone, CreateUser, WriteRole, BareProfile,
     Stamp, SignedIn, ReadProfile, WriteProfile, Request, sessions
<1>11. ASSUME NEW t \in Tabs,
              \/ StartRefresh(t) \/ Find(t) \/ Drop(t) \/ Settle(t)
              \/ \E ok \in BOOLEAN : Unauthorized(t, ok)
       PROVE TokensOK' /\ made' \in {made, made + 1}
  BY <1>11, <1>1 DEF StartRefresh, Find, Drop, Settle, Unauthorized, sessions
<1>12. CASE UNCHANGED vars \/ \E b \in Browsers : ExpireAccess(b)
  BY <1>12, <1>1 DEF vars, ExpireAccess, sessions
<1> QED
  BY <1>3, <1>4, <1>5, <1>6, <1>7, <1>8, <1>9, <1>10, <1>11, <1>12 DEF Next, SignIn, Refresh

\* those of the browsers,
LEMMA BrowsersStep == TypeOK /\ [Next]_vars => BrowsersOK'
<1> SUFFICES ASSUME TypeOK, [Next]_vars PROVE BrowsersOK'
  OBVIOUS
<1>t. /\ BrowsersOK /\ made \in 0 .. MaxTokens
      /\ \A t \in Tabs : tabs[t].tok \in 0 .. MaxTokens /\ tabs[t].tok <= made
  BY DEF TypeOK, TabsOK, Tab, TokensOK
<1>h. \A t \in Tabs : Home[t] \in Browsers
  BY SessionsAssumption
<1>1. ASSUME UNCHANGED <<store, expects>> PROVE BrowsersOK'
  <2>1. \A b \in Browsers : store[b].refresh \in 0 .. MaxTokens /\ store[b].refresh <= made
    BY <1>t DEF BrowsersOK
  <2>2. made' \in {made, made + 1}
    BY TokensStep
  <2> QED
    BY <1>1, <1>t, <2>1, <2>2 DEF BrowsersOK
<1>2. ASSUME NEW B, Disturb(B), UNCHANGED <<store, made>> PROVE BrowsersOK'
  BY <1>2, <1>t, DisturbKeeps
<1>3. ASSUME NEW b \in Browsers, NEW x \in [access : BOOLEAN, refresh : 0 .. MaxTokens],
             x.refresh <= made, store' = [store EXCEPT ![b] = x], UNCHANGED made,
             expects' \in [Browsers -> {"in", "out", "any"}]
      PROVE  BrowsersOK'
  BY <1>3, <1>t DEF BrowsersOK
<1>4. NoPair \in [access : BOOLEAN, refresh : 0 .. MaxTokens] /\ NoPair.refresh <= made
  BY <1>t, SessionsAssumption DEF NoPair, NoToken
<1>p. ASSUME NEW t \in Tabs
      PROVE  LET p == [access |-> TRUE, refresh |-> tabs[t].tok]
             IN  p \in [access : BOOLEAN, refresh : 0 .. MaxTokens] /\ p.refresh <= made
  BY <1>t
<1>5. ASSUME NEW t \in Tabs, NEW ok \in BOOLEAN, SignedIn(t, ok) PROVE BrowsersOK'
  <2>1. CASE ~ok
    BY <1>5, <2>1, <1>1 DEF SignedIn, browser
  <2>2. CASE ok
    <3>1. expects' \in [Browsers -> {"in", "out", "any"}]
      BY <1>5, <2>2, <1>t DEF SignedIn, BrowsersOK
    <3>2. store' = [store EXCEPT ![Home[t]] = [access |-> TRUE, refresh |-> tabs[t].tok]]
      BY <1>5, <2>2 DEF SignedIn
    <3> QED
      BY <1>5, <3>1, <3>2, <1>3, <1>p, <1>h DEF SignedIn, sessions
  <2> QED
    BY <2>1, <2>2
<1>6. ASSUME NEW t \in Tabs, Logout(t) PROVE BrowsersOK'
  <2>1. expects' \in [Browsers -> {"in", "out", "any"}]
    BY <1>6, <1>t DEF Logout, BrowsersOK
  <2> QED
    BY <1>6, <2>1, <1>3, <1>4, <1>h DEF Logout, sessions
<1>7. ASSUME NEW b \in Browsers, ExpireAccess(b) PROVE BrowsersOK'
  <2>1. store' = [store EXCEPT ![b] = [store[b] EXCEPT !.access = FALSE]]
    BY <1>7 DEF ExpireAccess
  <2>2. store[b] \in [access : BOOLEAN, refresh : 0 .. MaxTokens] /\ store[b].refresh <= made
    BY <1>t DEF BrowsersOK
  <2> QED
    BY <1>7, <2>1, <2>2, <1>3, <1>t DEF ExpireAccess, sessions, BrowsersOK
<1>8. ASSUME NEW t \in Tabs, Settle(t) PROVE BrowsersOK'
  <2>1. CASE tabs[t].pc = "failed"
    BY <1>8, <2>1, <1>3, <1>4, <1>t, <1>h DEF Settle, sessions, BrowsersOK
  <2>2. CASE tabs[t].pc # "failed"
    <3>1. store' = [store EXCEPT ![Home[t]] = [access |-> TRUE, refresh |-> tabs[t].tok]]
      BY <1>8, <2>2 DEF Settle
    <3> QED
      BY <1>8, <3>1, <1>3, <1>p, <1>t, <1>h DEF Settle, sessions, BrowsersOK
  <2> QED
    BY <2>1, <2>2
<1>9. ASSUME NEW t \in Tabs, NEW ok \in BOOLEAN, Unauthorized(t, ok) PROVE BrowsersOK'
  <2>1. expects' \in [Browsers -> {"in", "out", "any"}]
    BY <1>9, <1>t DEF Unauthorized, Disturb, BrowsersOK
  <2>2. CASE ok
    BY <1>9, <2>1, <2>2, <1>3, <1>4, <1>h DEF Unauthorized, sessions
  <2>3. CASE ~ok
    BY <1>9, <2>1, <2>3, <1>t DEF Unauthorized, sessions, BrowsersOK
  <2> QED
    BY <2>2, <2>3
<1>10. ASSUME NEW t \in Tabs, StartRefresh(t) PROVE BrowsersOK'
  BY <1>10, <1>1, <1>2 DEF StartRefresh, sessions
<1>11. ASSUME NEW t \in Tabs, NEW ok \in BOOLEAN, Recreate(t, ok) PROVE BrowsersOK'
  <2>1. CASE ok
    <3>1. expects' = [b \in Browsers |-> expects[b]] /\ UNCHANGED store
      BY <1>11, <2>1 DEF Recreate, Disturb
    <3>2. UNCHANGED expects
      BY <3>1, <1>t DEF BrowsersOK
    <3> QED
      BY <3>1, <3>2, <1>1
  <2>2. CASE ~ok
    BY <1>11, <2>2, <1>2 DEF Recreate, sessions
  <2> QED
    BY <2>1, <2>2
<1>12. ASSUME NEW t \in Tabs, Find(t) \/ Drop(t) \/ \E ok \in BOOLEAN : Rotate(t, ok)
       PROVE  BrowsersOK'
  BY <1>12, <1>1, <1>2 DEF Find, Drop, Rotate, browser, sessions
<1>13. CASE RevokeOthers \/ \E k \in Tokens : ExpireRefresh(k) \/ Revoke(k)
  BY <1>13, <1>2 DEF RevokeOthers, ExpireRefresh, Revoke
<1>14. ASSUME NEW t \in Tabs,
              \/ Register(t) \/ Login(t) \/ FindOwn(t) \/ NeedsPhone(t)
              \/ \E r \in Roles : CreateUser(t, r) \/ WriteRole(t, r)
              \/ \E ok \in BOOLEAN : BareProfile(t, ok) \/ Stamp(t, ok) \/ CreateSession(t, ok)
                                   \/ ReadProfile(t, ok) \/ WriteProfile(t, ok)
              \/ \E what \in {"role", "name", "read"} : Request(t, what)
       PROVE  BrowsersOK'
  BY <1>14, <1>1 DEF Register, Login, FindOwn, NeedsPhone, CreateUser, WriteRole, BareProfile,
     Stamp, CreateSession, ReadProfile, WriteProfile, Request, browser
<1>15. CASE UNCHANGED vars
  BY <1>15, <1>1 DEF vars
<1> QED
  BY <1>5, <1>6, <1>7, <1>8, <1>9, <1>10, <1>11, <1>12, <1>13, <1>14, <1>15 DEF Next, SignIn, Refresh

\* and those of the tabs.
LEMMA TabsStep == TypeOK /\ [Next]_vars => TabsOK'
<1> SUFFICES ASSUME TypeOK, [Next]_vars PROVE TabsOK'
  OBVIOUS
<1>t. /\ tabs \in [Tabs -> Tab] /\ made \in 0 .. MaxTokens /\ TabsOK /\ TokensOK
      /\ \A t \in Tabs : tabs[t].tok \in 0 .. MaxTokens /\ tabs[t].tok <= made
  BY DEF TypeOK, TabsOK, Tab, TokensOK
<1>1. ASSUME UNCHANGED tabs PROVE TabsOK'
  <2>1. made' \in {made, made + 1}
    BY TokensStep
  <2> QED
    BY <1>1, <1>t, <2>1 DEF TabsOK
\* The steps that only lead on.
<1>2. ASSUME NEW t \in Tabs, NEW pc \in Pc \ Bearing, Goes(t, pc), UNCHANGED made PROVE TabsOK'
  BY <1>2, TabGoes
<1>3. ASSUME NEW t \in Tabs, Rests(t), UNCHANGED made PROVE TabsOK'
  BY <1>3, TabRests
<1>4. ASSUME NEW t \in Tabs, NEW x \in Tab, tabs' = [tabs EXCEPT ![t] = x], UNCHANGED made,
             x.tok <= made, x.pc \in Bearing => x.tok # NoToken
      PROVE  TabsOK'
  BY <1>4, <1>t, TabMoves
<1>5. ASSUME NEW t \in Tabs, NeedsPhone(t) PROVE TabsOK'
  <2>1. tabs[t].pc \in Bearing /\ "setPhone" \in Pc /\ "in" \in Pc
    BY <1>5 DEF NeedsPhone, Bearing, Pc
  <2> QED
    BY <1>5, <2>1, TabGoes DEF NeedsPhone, sessions
<1>6. ASSUME NEW t \in Tabs, NEW ok \in BOOLEAN, ReadProfile(t, ok) PROVE TabsOK'
  <2>1. PICK x : /\ tabs' = [tabs EXCEPT ![t] = x]
                 /\ x = [tabs[t] EXCEPT !.pc = IF @ = "setName" THEN "name" ELSE "phone",
                                        !.prof = IF ok THEN profile ELSE NoProfile]
    BY <1>6 DEF ReadProfile
  <2>2. profile \in Profile /\ NoProfile \in Profile
    BY DEF TypeOK, AccountOK, NoProfile, Bare, Profile
  <2>3. x \in Tab /\ x.tok = tabs[t].tok /\ (x.pc \in Bearing => tabs[t].pc \in Bearing)
    BY <1>6, <1>t, <2>1, <2>2 DEF ReadProfile, Tab, Pc, Bearing
  <2> QED
    BY <1>6, <1>4, <1>t, <2>1, <2>3 DEF ReadProfile, sessions, TabsOK
<1>7. ASSUME NEW t \in Tabs, NEW ok \in BOOLEAN, WriteProfile(t, ok) PROVE TabsOK'
  <2>1. CASE tabs[t].pc = "phone"
    <3>1. PICK x : /\ tabs' = [tabs EXCEPT ![t] = x]
                   /\ x = [tabs[t] EXCEPT !.pc = "in", !.prof = NoProfile]
      BY <1>7, <2>1 DEF WriteProfile
    <3>2. NoProfile \in Profile
      BY DEF NoProfile, Bare, Profile
    <3>3. x \in Tab /\ x.tok = tabs[t].tok /\ tabs[t].pc \in Bearing
      BY <1>t, <2>1, <3>1, <3>2 DEF Tab, Pc, Bearing
    <3> QED
      BY <1>7, <1>4, <1>t, <3>1, <3>3 DEF WriteProfile, sessions, TabsOK
  <2>2. CASE tabs[t].pc # "phone"
    BY <1>7, <2>2, <1>3 DEF WriteProfile, sessions
  <2> QED
    BY <2>1, <2>2
<1>8. ASSUME NEW t \in Tabs, NEW r \in Roles, CreateUser(t, r) PROVE TabsOK'
  <2>1. CASE user.on
    BY <1>8, <2>1, <1>3 DEF CreateUser, sessions
  <2>2. CASE ~user.on
    <3>1. PICK x : tabs' = [tabs EXCEPT ![t] = x] /\ x = [tabs[t] EXCEPT !.pc = "bare", !.new = TRUE]
      BY <1>8, <2>2 DEF CreateUser
    <3>2. x \in Tab /\ x.tok = tabs[t].tok /\ x.pc \notin Bearing
      BY <1>t, <3>1 DEF Tab, Pc, Bearing
    <3> QED
      BY <1>8, <1>4, <1>t, <3>1, <3>2 DEF CreateUser, sessions
  <2> QED
    BY <2>1, <2>2
<1>9. ASSUME NEW t \in Tabs, Login(t) PROVE TabsOK'
  <2>1. PICK x : tabs' = [tabs EXCEPT ![t] = x] /\ x = [tabs[t] EXCEPT !.pc = "stamp", !.role = user.role]
    BY <1>9 DEF Login
  <2>2. user.role \in Roles
    BY DEF TypeOK, AccountOK
  <2>3. x \in Tab /\ x.tok = tabs[t].tok /\ x.pc \notin Bearing
    BY <1>t, <2>1, <2>2 DEF Tab, Pc, Bearing
  <2> QED
    BY <1>9, <1>4, <1>t, <2>1, <2>3 DEF Login, sessions
<1>10. ASSUME NEW t \in Tabs, NEW ok \in BOOLEAN, Stamp(t, ok) PROVE TabsOK'
  <2>1. PICK x : tabs' = [tabs EXCEPT ![t] = x] /\ x = [tabs[t] EXCEPT !.pc = "session", !.role = AnyRole]
    BY <1>10 DEF Stamp
  <2>2. x \in Tab /\ x.tok = tabs[t].tok /\ x.pc \notin Bearing
    BY <1>t, <2>1, AnyRoleIsRole DEF Tab, Pc, Bearing
  <2> QED
    BY <1>10, <1>4, <1>t, <2>1, <2>2 DEF Stamp, sessions
\* The steps that make a token, or take one.
<1>11. ASSUME NEW t \in Tabs, NEW ok \in BOOLEAN, CreateSession(t, ok) PROVE TabsOK'
  <2>1. CASE ok
    <3> DEFINE pc == IF tabs[t].new THEN "setPhone" ELSE "needPhone"
               x == [tabs[t] EXCEPT !.pc = pc, !.tok = made + 1, !.new = FALSE]
    <3>1. tabs' = [tabs EXCEPT ![t] = x]
      BY <1>11, <2>1 DEF CreateSession
    <3>2. made' = made + 1 /\ made + 1 \in 0 .. MaxTokens /\ made + 1 # NoToken
      BY <1>11, <2>1, <1>t, SessionsAssumption DEF CreateSession, NewToken, NoToken
    <3>3. pc \in Pc
      BY DEF Pc
    <3>4. x \in Tab /\ x.tok = made + 1
      <4> HIDE DEF pc
      <4> QED
        BY <1>t, <3>2, <3>3 DEF Tab
    <3>5. x.tok <= made' /\ x.tok # NoToken /\ made' \in {made, made + 1}
      BY <1>t, <3>2, <3>4
    <3> HIDE DEF x
    <3> QED
      BY <1>t, <3>1, <3>4, <3>5, TabMoves
  <2>2. CASE ~ok
    BY <1>11, <2>2, <1>3 DEF CreateSession, sessions
  <2> QED
    BY <2>1, <2>2
<1>12. ASSUME NEW t \in Tabs, NEW ok \in BOOLEAN, Recreate(t, ok) PROVE TabsOK'
  <2>1. CASE ok
    <3>1. PICK x : tabs' = [tabs EXCEPT ![t] = x] /\ x = [tabs[t] EXCEPT !.pc = "created", !.tok = made + 1]
      BY <1>12, <2>1 DEF Recreate
    <3>2. made' = made + 1 /\ made + 1 \in 0 .. MaxTokens /\ made + 1 # NoToken
      BY <1>12, <2>1, <1>t, SessionsAssumption DEF Recreate, NewToken, NoToken
    <3>3. x \in Tab /\ x.tok = made + 1
      BY <1>t, <3>1, <3>2 DEF Tab, Pc
    <3>4. x.tok <= made' /\ x.tok # NoToken /\ made' \in {made, made + 1}
      BY <1>t, <3>2, <3>3
    <3> QED
      BY <1>t, <3>1, <3>3, <3>4, TabMoves
  <2>2. CASE ~ok
    BY <1>12, <2>2, <1>2 DEF Recreate, sessions, Pc, Bearing
  <2> QED
    BY <2>1, <2>2
<1>13. ASSUME NEW t \in Tabs, StartRefresh(t) PROVE TabsOK'
  <2>1. CASE store[Home[t]].refresh = NoToken
    BY <1>13, <2>1, <1>2 DEF StartRefresh, sessions, Pc, Bearing
  <2>2. CASE store[Home[t]].refresh # NoToken
    <3>1. PICK x : /\ tabs' = [tabs EXCEPT ![t] = x]
                   /\ x = [tabs[t] EXCEPT !.pc = "find", !.tok = store[Home[t]].refresh]
      BY <1>13, <2>2 DEF StartRefresh
    <3>2. store[Home[t]].refresh \in 0 .. MaxTokens /\ store[Home[t]].refresh <= made
      BY SessionsAssumption DEF TypeOK, BrowsersOK
    <3>3. x \in Tab /\ x.tok = store[Home[t]].refresh
      BY <1>t, <3>1, <3>2 DEF Tab, Pc
    <3> QED
      BY <1>13, <2>2, <1>4, <3>1, <3>2, <3>3 DEF StartRefresh, sessions
  <2> QED
    BY <2>1, <2>2
<1>14. ASSUME NEW t \in Tabs, Find(t) \/ (\E ok \in BOOLEAN : Rotate(t, ok)) PROVE TabsOK'
  <2>1. tabs[t].pc \in Bearing /\ {"found", "failed", "rotated"} \subseteq Pc
    BY <1>14 DEF Find, Rotate, Bearing, Pc
  <2> QED
    BY <1>14, <2>1, TabGoes DEF Find, Rotate, sessions
<1>15. ASSUME NEW t \in Tabs, Settle(t) PROVE TabsOK'
  <2>1. PICK pc : /\ pc \in {"unauthorized", "again"}
                  /\ tabs' = [tabs EXCEPT ![t] = [Idle EXCEPT !.pc = pc]]
    BY <1>15 DEF Settle
  <2> DEFINE x == [Idle EXCEPT !.pc = pc]
  <2>2. pc \in Pc /\ pc \notin Bearing
    BY <2>1 DEF Pc, Bearing
  <2>3. x \in Tab
    BY <2>2, IdleIsTab
  <2>4. x.tok = 0 /\ x.pc = pc
    BY DEF Idle, NoToken
  <2>5. UNCHANGED made
    BY <1>15 DEF Settle, sessions
  <2>6. x.tok <= made
    BY <2>4, <1>t
  <2>7. tabs' = [tabs EXCEPT ![t] = x]
    BY <2>1
  <2> HIDE DEF x
  <2> QED
    BY <1>4, <2>2, <2>3, <2>4, <2>5, <2>6, <2>7
<1>16. ASSUME NEW t \in Tabs, Register(t) \/ Drop(t) \/ (\E ok \in BOOLEAN : BareProfile(t, ok))
              \/ \E what \in {"role", "name", "read"} : Request(t, what)
       PROVE  TabsOK'
  <2>1. {"register", "failed", "session", "setName", "role", "unauthorized", "refused"}
           \subseteq Pc \ Bearing
    BY DEF Pc, Bearing
  <2>2. CASE Register(t) \/ Drop(t) \/ (\E ok \in BOOLEAN : BareProfile(t, ok))
    BY <2>1, <2>2, <1>2 DEF Register, Drop, BareProfile, sessions
  <2>3. ASSUME NEW what \in {"role", "name", "read"}, Request(t, what) PROVE TabsOK'
    BY <2>1, <2>3, <1>2, <1>3 DEF Request, sessions
  <2> QED
    BY <1>16, <2>2, <2>3
<1>17. ASSUME NEW t \in Tabs, \/ \E r \in Roles : WriteRole(t, r)
                              \/ \E ok \in BOOLEAN : SignedIn(t, ok) \/ Unauthorized(t, ok)
       PROVE  TabsOK'
  BY <1>17, <1>3 DEF WriteRole, SignedIn, Unauthorized, sessions
<1>18. ASSUME NEW t \in Tabs, Logout(t) \/ FindOwn(t) PROVE TabsOK'
  BY <1>18, <1>1 DEF Logout, FindOwn
<1>19. CASE \/ UNCHANGED vars \/ RevokeOthers
            \/ \E b \in Browsers : ExpireAccess(b)
            \/ \E k \in Tokens : ExpireRefresh(k) \/ Revoke(k)
  BY <1>19, <1>1 DEF vars, RevokeOthers, ExpireAccess, ExpireRefresh, Revoke
<1> QED
  BY <1>5, <1>6, <1>7, <1>8, <1>9, <1>10, <1>11, <1>12, <1>13, <1>14, <1>15, <1>16, <1>17,
     <1>18, <1>19 DEF Next, SignIn, Refresh

\* Every step keeps the types.
LEMMA TypeStep == TypeOK /\ [Next]_vars => TypeOK'
  BY AccountStep, TokensStep, BrowsersStep, TabsStep DEF TypeOK

\* In every reachable state the account, its sessions, the browsers' tokens
\* and what the tabs wait for are of their types, and no token is held that
\* was not made.
THEOREM TypeCorrect == Spec => []TypeOK
<1>1. Init => TypeOK
  <2> SUFFICES ASSUME Init PROVE TypeOK
    OBVIOUS
  <2> USE SessionsAssumption, AnyRoleIsRole
  <2>1. AccountOK
    BY DEF Init, AccountOK, NoProfile, Bare, Profile
  <2>2. TokensOK
    BY DEF Init, TokensOK, Tokens, NoToken
  <2>3. BrowsersOK
    BY DEF Init, BrowsersOK, NoPair, NoToken
  <2>4. Idle \in Tab /\ Idle.tok = 0 /\ Idle.pc \notin Bearing
    BY IdleIsTab DEF Idle, NoToken, Bearing
  <2>5. TabsOK
    BY <2>4 DEF Init, TabsOK
  <2> QED
    BY <2>1, <2>2, <2>3, <2>5 DEF TypeOK
<1> QED
  BY <1>1, TypeStep, PTL DEF Spec

-----------------------------------------------------------------------------
\* A step of one tab to where it writes nothing leaves the other tabs alone.
LEMMA MovesAside ==
  ASSUME TypeOK, NEW t \in Tabs, NEW x, tabs' = [tabs EXCEPT ![t] = x],
         x.pc \notin OnUser \cup Rereads
  PROVE  \A u \in Tabs : tabs'[u].pc \in OnUser \cup Rereads => tabs'[u] = tabs[u]
  BY DEF TypeOK, TabsOK

\* A step that writes no row and moves no writer keeps the account as wanted.
LEMMA OneWriterKept ==
  ASSUME OneWriter, UNCHANGED <<user, profile>>, wanted' = wanted \/ ~wanted'.sure,
         \A u \in Tabs : tabs'[u].pc \in OnUser \cup Rereads => tabs'[u] = tabs[u]
  PROVE  OneWriter'
  BY DEF OneWriter, OnUser, Rereads

\* Every step keeps the account as wanted, unless two writers met.
LEMMA OneWriterStep == TypeOK /\ OneWriter /\ [Next]_vars => OneWriter'
<1> SUFFICES ASSUME TypeOK, OneWriter, [Next]_vars PROVE OneWriter'
  OBVIOUS
<1>t. /\ tabs \in [Tabs -> Tab] /\ \A t \in Tabs : tabs[t].pc \in Pc
      /\ user.on \in BOOLEAN /\ profile.on \in BOOLEAN /\ wanted.sure \in BOOLEAN
      /\ wanted \in [sure : BOOLEAN, role : Roles, named : BOOLEAN]
  BY DEF TypeOK, AccountOK, TabsOK, Tab, Profile
<1>1. ASSUME NEW t \in Tabs, NEW pc, Goes(t, pc), pc \notin OnUser \cup Rereads,
             UNCHANGED <<user, profile>>, wanted' = wanted \/ ~wanted'.sure
      PROVE  OneWriter'
  <2>1. tabs' = [tabs EXCEPT ![t] = [tabs[t] EXCEPT !.pc = pc]]
    BY <1>1 DEF Goes
  <2>2. [tabs[t] EXCEPT !.pc = pc].pc = pc
    BY <1>t DEF Tab
  <2> QED
    BY <1>1, <2>1, <2>2, MovesAside, OneWriterKept
<1>2. ASSUME NEW t \in Tabs, Rests(t), UNCHANGED <<user, profile, wanted>> PROVE OneWriter'
  <2>1. Idle.pc \notin OnUser \cup Rereads
    BY DEF Idle, OnUser, Rereads
  <2> QED
    BY <1>2, <2>1, MovesAside, OneWriterKept DEF Rests
<1>3. ASSUME UNCHANGED <<user, profile, wanted, tabs>> PROVE OneWriter'
  BY <1>3 DEF OneWriter
\* Reading.
<1>4. ASSUME NEW t \in Tabs, Login(t) PROVE OneWriter'
  <2>1. tabs' = [tabs EXCEPT ![t] = [tabs[t] EXCEPT !.pc = "stamp", !.role = user.role]]
    BY <1>4 DEF Login
  <2>2. /\ tabs'[t].pc = "stamp" /\ tabs'[t].role = user.role
        /\ \A u \in Tabs \ {t} : tabs'[u] = tabs[u]
    BY <2>1, <1>t DEF Tab
  <2>3. user.on /\ UNCHANGED <<user, profile>>
    BY <1>4 DEF Login
  <2>4. CASE \E u \in Tabs \ {t} : tabs[u].pc \in OnUser
    BY <1>4, <2>3, <2>4 DEF Login, Clash, Meets, OneWriter
  <2>5. CASE \A u \in Tabs \ {t} : tabs[u].pc \notin OnUser
    <3>1. UNCHANGED wanted
      BY <1>4, <2>5 DEF Login, Clash, Meets
    <3> QED
      BY <2>2, <2>3, <2>5, <3>1 DEF OneWriter, OnUser, Rereads
  <2> QED
    BY <2>4, <2>5
<1>5. ASSUME NEW t \in Tabs, user.on, Goes(t, "role"), Clash(Meets(t, OnUser)),
             UNCHANGED <<user, profile>>
      PROVE  OneWriter'
  <2>1. tabs'[t].pc = "role" /\ \A u \in Tabs \ {t} : tabs'[u] = tabs[u]
    BY <1>5, <1>t DEF Goes, Tab
  <2>2. CASE \E u \in Tabs \ {t} : tabs[u].pc \in OnUser
    BY <1>5, <2>2 DEF Clash, Meets, OneWriter
  <2>3. CASE \A u \in Tabs \ {t} : tabs[u].pc \notin OnUser
    <3>1. UNCHANGED wanted
      BY <1>5, <2>3 DEF Clash, Meets
    <3> QED
      BY <1>5, <2>1, <2>3, <3>1 DEF OneWriter, OnUser, Rereads
  <2> QED
    BY <2>2, <2>3
<1>6. ASSUME NEW t \in Tabs, NEW what \in {"role", "name", "read"}, Request(t, what)
      PROVE  OneWriter'
  <2>1. UNCHANGED <<user, profile>>
    BY <1>6 DEF Request
  <2>2. \/ \E pc \in {"setName", "unauthorized", "refused"} : Goes(t, pc) /\ UNCHANGED wanted
        \/ user.on /\ Goes(t, "role") /\ Clash(Meets(t, OnUser))
        \/ Rests(t) /\ UNCHANGED wanted
    BY <1>6 DEF Request
  <2> QED
    BY <2>1, <2>2, <1>1, <1>2, <1>5 DEF OnUser, Rereads
<1>7. ASSUME NEW t \in Tabs, NEW ok \in BOOLEAN, ReadProfile(t, ok) PROVE OneWriter'
  <2>1. PICK pc \in {"name", "phone"} :
          tabs' = [tabs EXCEPT ![t] = [tabs[t] EXCEPT !.pc = pc, !.prof = IF ok THEN profile ELSE NoProfile]]
    BY <1>7 DEF ReadProfile
  <2>2. /\ tabs'[t].pc = pc /\ tabs'[t].prof = IF ok THEN profile ELSE NoProfile
        /\ \A u \in Tabs \ {t} : tabs'[u] = tabs[u]
    BY <2>1, <1>t DEF Tab
  <2>3. UNCHANGED <<user, profile>> /\ tabs'[t].pc \notin OnUser
    BY <1>7, <2>2 DEF ReadProfile, OnUser
  <2>4. CASE ~ok \/ \E u \in Tabs \ {t} : tabs[u].pc \in OnProfile
    <3>1. ~wanted'.sure
      BY <1>7, <2>4 DEF ReadProfile, Clash, Meets
    <3> QED
      BY <2>2, <2>3, <3>1 DEF OneWriter
  <2>5. CASE ok /\ \A u \in Tabs \ {t} : tabs[u].pc \notin OnProfile
    <3>1. UNCHANGED wanted
      BY <1>7, <2>5 DEF ReadProfile, Clash, Meets
    <3>2. \A u \in Tabs \ {t} : tabs[u].pc \notin Rereads
      BY <2>5 DEF OnProfile, Rereads
    <3> QED
      BY <2>2, <2>3, <2>5, <3>1, <3>2 DEF OneWriter, OnUser, Rereads
  <2> QED
    BY <2>4, <2>5
\* Writing.
<1>8. ASSUME NEW t \in Tabs, NEW r \in Roles, CreateUser(t, r) PROVE OneWriter'
  <2>1. CASE user.on
    BY <1>8, <2>1, <1>2 DEF CreateUser, account
  <2>2. CASE ~user.on
    <3>1. tabs' = [tabs EXCEPT ![t] = [tabs[t] EXCEPT !.pc = "bare", !.new = TRUE]]
      BY <1>8, <2>2 DEF CreateUser
    <3>2. [tabs[t] EXCEPT !.pc = "bare", !.new = TRUE].pc \notin OnUser \cup Rereads
      BY <1>t DEF Tab, OnUser, Rereads
    <3>3. \A u \in Tabs : tabs'[u].pc \in OnUser \cup Rereads => tabs'[u] = tabs[u]
      BY <3>1, <3>2, MovesAside
    <3>4. \A u \in Tabs : tabs'[u].pc \notin OnUser
      BY <3>3, <2>2 DEF OneWriter
    <3>5. user' = [on |-> TRUE, role |-> r] /\ Wants([wanted EXCEPT !.role = r]) /\ UNCHANGED profile
      BY <1>8, <2>2 DEF CreateUser
    <3>6. wanted'.sure = wanted.sure /\ wanted'.named = wanted.named /\ (wanted.sure => wanted'.role = r)
      BY <3>5, <1>t DEF Wants
    <3> QED
      BY <3>3, <3>4, <3>5, <3>6 DEF OneWriter, OnUser, Rereads
  <2> QED
    BY <2>1, <2>2
<1>9. ASSUME NEW t \in Tabs, NEW ok \in BOOLEAN, BareProfile(t, ok) PROVE OneWriter'
  <2>1. tabs' = [tabs EXCEPT ![t] = [tabs[t] EXCEPT !.pc = "session"]] /\ UNCHANGED user
    BY <1>9 DEF BareProfile, Goes
  <2>2. [tabs[t] EXCEPT !.pc = "session"].pc \notin OnUser \cup Rereads
    BY <1>t DEF Tab, OnUser, Rereads
  <2>3. \A u \in Tabs : tabs'[u].pc \in OnUser \cup Rereads => tabs'[u] = tabs[u]
    BY <2>1, <2>2, MovesAside
  <2>4. ~profile'.on => ~profile'.named
    BY <1>9 DEF BareProfile, Bare, OneWriter
  <2>5. CASE profile.on \/ \E u \in Tabs \ {t} : tabs[u].pc \in OnProfile
    <3>1. ~wanted'.sure
      BY <1>9, <2>5 DEF BareProfile, Clash, Meets
    <3> QED
      BY <2>1, <2>3, <2>4, <3>1 DEF OneWriter
  <2>6. CASE ~profile.on /\ \A u \in Tabs \ {t} : tabs[u].pc \notin OnProfile
    <3>1. UNCHANGED wanted
      BY <1>9, <2>6 DEF BareProfile, Clash, Meets
    <3>2. \A u \in Tabs : tabs'[u].pc \notin Rereads
      BY <1>9, <2>3, <2>6 DEF BareProfile, Rereads, OnProfile
    <3> QED
      BY <2>1, <2>3, <2>4, <2>6, <3>1, <3>2 DEF OneWriter, OnUser, Rereads
  <2> QED
    BY <2>5, <2>6
<1>10. ASSUME NEW t \in Tabs, NEW ok \in BOOLEAN, Stamp(t, ok) PROVE OneWriter'
  <2>1. tabs' = [tabs EXCEPT ![t] = [tabs[t] EXCEPT !.pc = "session", !.role = AnyRole]]
    BY <1>10 DEF Stamp
  <2>2. [tabs[t] EXCEPT !.pc = "session", !.role = AnyRole].pc \notin OnUser \cup Rereads
    BY <1>t DEF Tab, OnUser, Rereads
  <2>3. \A u \in Tabs : tabs'[u].pc \in OnUser \cup Rereads => tabs'[u] = tabs[u]
    BY <2>1, <2>2, MovesAside
  <2>4. UNCHANGED <<profile, wanted>> /\ user'.on = user.on
    BY <1>10 DEF Stamp, TypeOK, AccountOK
  <2>5. wanted.sure => user' = user
    <3>1. wanted.sure => tabs[t].role = user.role
      BY <1>10 DEF Stamp, OneWriter
    <3> QED
      BY <1>10, <3>1 DEF Stamp, TypeOK, AccountOK
  <2> QED
    BY <2>3, <2>4, <2>5 DEF OneWriter, OnUser, Rereads
<1>11. ASSUME NEW t \in Tabs, NEW r \in Roles, WriteRole(t, r) PROVE OneWriter'
  <2>1. \A u \in Tabs : tabs'[u].pc \in OnUser \cup Rereads => tabs'[u] = tabs[u]
    <3>1. Idle.pc \notin OnUser \cup Rereads
      BY DEF Idle, OnUser, Rereads
    <3> QED
      BY <1>11, <3>1, MovesAside DEF WriteRole, Rests
  <2>2. tabs[t].pc = "role" /\ tabs'[t] = Idle
    BY <1>11, <1>t DEF WriteRole, Rests
  <2>3. wanted.sure => \A u \in Tabs : tabs'[u].pc \notin OnUser
    BY <2>1, <2>2 DEF OneWriter, Idle, OnUser
  <2>4. user'.on = user.on /\ user'.role = r /\ UNCHANGED profile
    BY <1>11 DEF WriteRole, TypeOK, AccountOK
  <2>5. wanted'.sure = wanted.sure /\ wanted'.named = wanted.named /\ (wanted.sure => wanted'.role = r)
    BY <1>11, <1>t DEF WriteRole, Wants
  <2> QED
    BY <2>1, <2>3, <2>4, <2>5 DEF OneWriter, OnUser, Rereads
<1>12. ASSUME NEW t \in Tabs, NEW ok \in BOOLEAN, WriteProfile(t, ok) PROVE OneWriter'
  <2>1. tabs[t].pc \in Rereads /\ UNCHANGED user
    BY <1>12 DEF WriteProfile, Rereads
  <2>2. PICK x : tabs' = [tabs EXCEPT ![t] = x] /\ x.pc \notin OnUser \cup Rereads
    <3>1. CASE tabs[t].pc = "phone"
      <4>1. tabs' = [tabs EXCEPT ![t] = [tabs[t] EXCEPT !.pc = "in", !.prof = NoProfile]]
        BY <1>12, <3>1 DEF WriteProfile
      <4>2. [tabs[t] EXCEPT !.pc = "in", !.prof = NoProfile].pc \notin OnUser \cup Rereads
        BY <1>t DEF Tab, OnUser, Rereads
      <4> QED
        BY <4>1, <4>2
    <3>2. CASE tabs[t].pc # "phone"
      <4>1. tabs' = [tabs EXCEPT ![t] = Idle]
        BY <1>12, <3>2 DEF WriteProfile, Rests
      <4>2. Idle.pc \notin OnUser \cup Rereads
        BY DEF Idle, OnUser, Rereads
      <4> QED
        BY <4>1, <4>2
    <3> QED
      BY <3>1, <3>2
  <2>3. \A u \in Tabs : tabs'[u].pc \in OnUser \cup Rereads => tabs'[u] = tabs[u]
    BY <2>2, MovesAside
  <2>4. CASE ~ok
    <3>1. UNCHANGED <<user, profile, wanted>>
      BY <1>12, <2>4 DEF WriteProfile
    <3> QED
      BY <2>3, <3>1, OneWriterKept
  <2>5. CASE ok
    <3>1. tabs'[t].pc \notin Rereads
      BY <2>2, <1>t
    <3>2. wanted.sure => \A u \in Tabs : tabs'[u].pc \notin Rereads
      BY <2>1, <2>3, <3>1 DEF OneWriter
    <3>3. /\ wanted'.sure = wanted.sure /\ wanted'.role = wanted.role
          /\ wanted.sure => wanted'.named = (wanted.named \/ tabs[t].pc = "name")
      BY <1>12, <2>5, <1>t DEF WriteProfile, Wants
    <3> DEFINE old == IF tabs[t].prof.on THEN tabs[t].prof ELSE Bare
    <3>4. profile' = [old EXCEPT !.phone = @ \/ tabs[t].pc = "phone", !.named = @ \/ tabs[t].pc = "name"]
      BY <1>12, <2>5 DEF WriteProfile
    <3>5. old \in Profile /\ old.on
      BY <1>t DEF Tab, Bare, Profile
    <3>6. wanted.sure /\ wanted.named => old.named
      BY <2>1 DEF OneWriter
    <3> HIDE DEF old
    <3>7. profile'.on /\ (wanted.sure /\ wanted'.named => profile'.named)
      BY <3>3, <3>4, <3>5, <3>6 DEF Profile
    <3> QED
      BY <2>1, <2>3, <3>2, <3>3, <3>7 DEF OneWriter, OnUser, Rereads
  <2> QED
    BY <2>4, <2>5
\* The other steps.
<1>13. ASSUME NEW t \in Tabs, Refresh(t) PROVE OneWriter'
  <2>1. UNCHANGED <<user, profile, wanted>>
    BY <1>13 DEF Refresh, StartRefresh, Find, Drop, Settle, Rotate, Recreate, Unauthorized, account
  <2>2. PICK x : tabs' = [tabs EXCEPT ![t] = x] /\ x.pc \notin OnUser \cup Rereads
    <3>1. CASE \E pc \in {"unauthorized", "found", "failed", "rotated"} : Goes(t, pc)
      <4>1. PICK pc \in {"unauthorized", "found", "failed", "rotated"} :
              tabs' = [tabs EXCEPT ![t] = [tabs[t] EXCEPT !.pc = pc]]
        BY <3>1 DEF Goes
      <4>2. [tabs[t] EXCEPT !.pc = pc].pc \notin OnUser \cup Rereads
        BY <1>t DEF Tab, OnUser, Rereads
      <4> QED
        BY <4>1, <4>2
    <3>2. CASE \E pc \in {"find", "created"} : \E k : tabs' = [tabs EXCEPT ![t].pc = pc, ![t].tok = k]
      <4>0. PICK pc \in {"find", "created"} : \E k : tabs' = [tabs EXCEPT ![t].pc = pc, ![t].tok = k]
        BY <3>2
      <4>1. PICK k : tabs' = [tabs EXCEPT ![t] = [tabs[t] EXCEPT !.pc = pc, !.tok = k]]
        BY <4>0
      <4>2. [tabs[t] EXCEPT !.pc = pc, !.tok = k].pc \notin OnUser \cup Rereads
        BY <4>0, <1>t DEF Tab, OnUser, Rereads
      <4> QED
        BY <4>1, <4>2
    <3>3. CASE Rests(t) \/ Settle(t)
      BY <3>3 DEF Rests, Settle, Idle, OnUser, Rereads
    <3> QED
      BY <1>13, <3>1, <3>2, <3>3
      DEF Refresh, StartRefresh, Find, Drop, Rotate, Recreate, Unauthorized
  <2> QED
    BY <2>1, <2>2, MovesAside, OneWriterKept
<1>14. ASSUME NEW t \in Tabs, NEW ok \in BOOLEAN, CreateSession(t, ok) PROVE OneWriter'
  <2>1. CASE ok
    <3>1. PICK pc \in {"setPhone", "needPhone"} :
            tabs' = [tabs EXCEPT ![t] = [tabs[t] EXCEPT !.pc = pc, !.tok = made + 1, !.new = FALSE]]
      BY <1>14, <2>1 DEF CreateSession
    <3>2. [tabs[t] EXCEPT !.pc = pc, !.tok = made + 1, !.new = FALSE].pc \notin OnUser \cup Rereads
      BY <1>t DEF Tab, OnUser, Rereads
    <3> QED
      BY <1>14, <3>1, <3>2, MovesAside, OneWriterKept DEF CreateSession, account
  <2>2. CASE ~ok
    BY <1>14, <2>2, <1>2 DEF CreateSession, account
  <2> QED
    BY <2>1, <2>2
<1>15. ASSUME NEW t \in Tabs,
              Register(t) \/ NeedsPhone(t) \/ \E ok \in BOOLEAN : SignedIn(t, ok)
       PROVE  OneWriter'
  BY <1>15, <1>1, <1>2 DEF Register, NeedsPhone, SignedIn, account, OnUser, Rereads
<1>16. CASE \/ UNCHANGED vars \/ RevokeOthers
            \/ \E t \in Tabs : Logout(t) \/ FindOwn(t)
            \/ \E b \in Browsers : ExpireAccess(b)
            \/ \E k \in Tokens : ExpireRefresh(k) \/ Revoke(k)
  BY <1>16, <1>3 DEF vars, RevokeOthers, Logout, FindOwn, ExpireAccess, ExpireRefresh, Revoke, account
<1> QED
  BY <1>4, <1>6, <1>7, <1>8, <1>9, <1>10, <1>11, <1>12, <1>13, <1>14, <1>15, <1>16 DEF Next, SignIn

\* What the user has changed stays: no later sign-in, and no other part of
\* the row, undoes it unless two have changed the account at once
\* (LoginUser, UpdateRole, UpdateProfile).
THEOREM AccountIsKept == Spec => []AccountKept
<1>1. Init => OneWriter
  BY DEF Init, OneWriter, Idle, OnUser, Rereads, NoProfile, Bare
<1>2. OneWriter => AccountKept
  BY DEF OneWriter, AccountKept
<1> QED
  BY <1>1, <1>2, OneWriterStep, TypeCorrect, PTL DEF Spec

-----------------------------------------------------------------------------
\* Past looking for a session.
Past == {"found", "rotated"}

\* Nothing that a sign-in has is brought back by a step that makes no token
\* and lets no tab past the look but with a token that has a row.
LEMMA OverKept ==
  ASSUME TypeOK, rows' \subseteq rows, UNCHANGED <<root, made>>,
         \A t \in Tabs : tabs'[t].pc \in Past =>
           tabs'[t].tok = tabs[t].tok /\ (tabs[t].pc \in Past \/ tabs[t].tok \in rows),
         NEW k \in Tokens, Over(k)
  PROVE  Over(k)'
  BY DEF Over, Past

\* A sign-in whose sessions are gone stays gone.
LEMMA OverStep ==
  TypeOK /\ [Next]_vars => \A k \in Tokens : Over(k) /\ root[k] = k => Over(k)'
<1> SUFFICES ASSUME TypeOK, [Next]_vars, NEW k \in Tokens, Over(k) PROVE Over(k)'
  OBVIOUS
<1>t. /\ tabs \in [Tabs -> Tab] /\ TokensOK
      /\ \A t \in Tabs : tabs[t].tok \in 0 .. made /\ (tabs[t].pc \in Past => tabs[t].tok # NoToken)
  BY DEF TypeOK, TabsOK, TokensOK, Tab, Past, Bearing
<1>k. k \in 1 .. made /\ made \in Nat
  BY <1>t, SessionsAssumption DEF Over, Tokens, TokensOK
<1>1. ASSUME rows' \subseteq rows, UNCHANGED <<root, made, tabs>> PROVE Over(k)'
  BY <1>1 DEF Over
<1>2. ASSUME NEW t \in Tabs, NEW x, tabs' = [tabs EXCEPT ![t] = x], x.pc \notin Past,
             rows' \subseteq rows, UNCHANGED <<root, made>>
      PROVE  Over(k)'
  <2>1. \A u \in Tabs : tabs'[u].pc \in Past => tabs'[u] = tabs[u]
    BY <1>2, <1>t
  <2> QED
    BY <1>2, <2>1, OverKept
<1>3. ASSUME NEW t \in Tabs, NEW pc, pc \notin Past, Goes(t, pc), UNCHANGED <<rows, root, made>>
      PROVE  Over(k)'
  <2>1. tabs' = [tabs EXCEPT ![t] = [tabs[t] EXCEPT !.pc = pc]] /\ [tabs[t] EXCEPT !.pc = pc].pc = pc
    BY <1>3, <1>t DEF Goes, Tab
  <2> QED
    BY <1>2, <1>3, <2>1
<1>4. ASSUME NEW t \in Tabs, Rests(t), UNCHANGED <<rows, root, made>> PROVE Over(k)'
  <2>1. Idle.pc \notin Past
    BY DEF Idle, Past
  <2> QED
    BY <1>2, <1>4, <2>1 DEF Rests
\* A token is made for a new sign-in, or for one that is not over.
<1>5. ASSUME NEW t \in Tabs, NEW x, tabs' = [tabs EXCEPT ![t] = x], x.pc \notin Past,
             NEW from \in 0 .. made, NewToken(from), UNCHANGED revoker,
             from # NoToken => root[from] # k
      PROVE  Over(k)'
  <2>1. /\ made' = made + 1 /\ rows' = rows \cup {made + 1} /\ rows \subseteq 1 .. made
        /\ \A l \in 1 .. made : root'[l] = root[l]
        /\ root'[made + 1] = IF from = NoToken THEN made + 1 ELSE root[from]
    BY <1>5, <1>t, TokenIsNew DEF TokensOK
  <2>2. root'[made + 1] # k
    BY <1>5, <1>k, <2>1
  <2>3. \A r \in rows' : root'[r] # k
    BY <2>1, <2>2 DEF Over
  <2>4. ASSUME NEW u \in Tabs, tabs'[u].pc \in Past PROVE root'[tabs'[u].tok] # k
    <3>1. tabs'[u] = tabs[u] /\ tabs[u].pc \in Past
      BY <1>5, <1>t, <2>4
    <3>2. tabs[u].tok \in 1 .. made
      BY <1>t, <3>1 DEF NoToken
    <3> QED
      BY <2>1, <3>1, <3>2 DEF Over, Past
  <2> QED
    BY <1>k, <2>1, <2>3, <2>4 DEF Over, Past
<1>6. ASSUME NEW t \in Tabs, NEW ok \in BOOLEAN, CreateSession(t, ok) PROVE Over(k)'
  <2>1. CASE ok
    <3>1. PICK pc \in {"setPhone", "needPhone"} :
            tabs' = [tabs EXCEPT ![t] = [tabs[t] EXCEPT !.pc = pc, !.tok = made + 1, !.new = FALSE]]
      BY <1>6, <2>1 DEF CreateSession
    <3>2. [tabs[t] EXCEPT !.pc = pc, !.tok = made + 1, !.new = FALSE].pc \notin Past
      BY <1>t DEF Tab, Past
    <3>3. NewToken(NoToken) /\ UNCHANGED revoker /\ NoToken \in 0 .. made
      BY <1>6, <2>1, <1>k DEF CreateSession, NoToken
    <3> QED
      BY <1>5, <3>1, <3>2, <3>3
  <2>2. CASE ~ok
    BY <1>6, <2>2, <1>4 DEF CreateSession, sessions
  <2> QED
    BY <2>1, <2>2
<1>7. ASSUME NEW t \in Tabs, NEW ok \in BOOLEAN, Recreate(t, ok) PROVE Over(k)'
  <2>1. CASE ok
    <3>1. tabs' = [tabs EXCEPT ![t] = [tabs[t] EXCEPT !.pc = "created", !.tok = made + 1]]
      BY <1>7, <2>1 DEF Recreate
    <3>2. [tabs[t] EXCEPT !.pc = "created", !.tok = made + 1].pc \notin Past
      BY <1>t DEF Tab, Past
    <3>3. NewToken(tabs[t].tok) /\ UNCHANGED revoker /\ tabs[t].pc = "rotated"
      BY <1>7, <2>1 DEF Recreate
    <3>4. root[tabs[t].tok] # k
      BY <3>3 DEF Over
    <3> QED
      BY <1>5, <1>t, <3>1, <3>2, <3>3, <3>4
  <2>2. CASE ~ok
    BY <1>7, <2>2, <1>3 DEF Recreate, sessions, Past
  <2> QED
    BY <2>1, <2>2
\* Only a token with a row is let past.
<1>8. ASSUME NEW t \in Tabs, Find(t) PROVE Over(k)'
  <2>1. CASE tabs[t].tok \in rows \ expired
    <3>1. tabs' = [tabs EXCEPT ![t] = [tabs[t] EXCEPT !.pc = "found"]]
      BY <1>8, <2>1 DEF Find, Goes
    <3>2. tabs'[t].tok = tabs[t].tok /\ \A u \in Tabs \ {t} : tabs'[u] = tabs[u]
      BY <1>t, <3>1 DEF Tab
    <3> QED
      BY <1>8, <2>1, <3>2, OverKept DEF Find, sessions
  <2>2. CASE tabs[t].tok \notin rows \ expired
    BY <1>8, <2>2, <1>3 DEF Find, sessions, Past
  <2> QED
    BY <2>1, <2>2
<1>9. ASSUME NEW t \in Tabs, NEW ok \in BOOLEAN, Rotate(t, ok) PROVE Over(k)'
  <2>1. tabs' = [tabs EXCEPT ![t] = [tabs[t] EXCEPT !.pc = "rotated"]] /\ tabs[t].pc \in Past
    BY <1>9 DEF Rotate, Goes, Past
  <2>2. tabs'[t].tok = tabs[t].tok /\ \A u \in Tabs \ {t} : tabs'[u] = tabs[u]
    BY <1>t, <2>1 DEF Tab
  <2>3. rows' \subseteq rows /\ UNCHANGED <<root, made>>
    BY <1>9 DEF Rotate, Delete
  <2> QED
    BY <2>1, <2>2, <2>3, OverKept
<1>10. ASSUME NEW t \in Tabs, StartRefresh(t) PROVE Over(k)'
  <2>1. CASE store[Home[t]].refresh = NoToken
    BY <1>10, <2>1, <1>3 DEF StartRefresh, sessions, Past
  <2>2. CASE store[Home[t]].refresh # NoToken
    <3> DEFINE x == [tabs[t] EXCEPT !.pc = "find", !.tok = store[Home[t]].refresh]
    <3>1. tabs' = [tabs EXCEPT ![t] = x]
      BY <1>10, <2>2 DEF StartRefresh
    <3>2. x.pc \notin Past
      BY <1>t DEF Tab, Past
    <3> HIDE DEF x
    <3> QED
      BY <1>2, <1>10, <3>1, <3>2 DEF StartRefresh, sessions
  <2> QED
    BY <2>1, <2>2
<1>11. ASSUME NEW t \in Tabs, Settle(t) PROVE Over(k)'
  <2>1. PICK pc \in {"unauthorized", "again"} : tabs' = [tabs EXCEPT ![t] = [Idle EXCEPT !.pc = pc]]
    BY <1>11 DEF Settle
  <2>2. [Idle EXCEPT !.pc = pc].pc \notin Past
    BY DEF Idle, Past
  <2> QED
    BY <1>2, <1>11, <2>1, <2>2 DEF Settle, sessions
<1>12. ASSUME NEW t \in Tabs,
              \/ \E pc \in Pc \ Past : Goes(t, pc) /\ UNCHANGED sessions
              \/ Rests(t) /\ UNCHANGED sessions
       PROVE  Over(k)'
  BY <1>12, <1>3, <1>4 DEF sessions
<1>13. ASSUME NEW t \in Tabs,
              \/ Register(t) \/ NeedsPhone(t) \/ Drop(t)
              \/ \E ok \in BOOLEAN : BareProfile(t, ok) \/ SignedIn(t, ok) \/ Unauthorized(t, ok)
              \/ \E r \in Roles : WriteRole(t, r)
              \/ \E what \in {"role", "name", "read"} : Request(t, what)
       PROVE  Over(k)'
  <2>1. {"register", "setPhone", "in", "failed", "session", "setName", "role", "unauthorized",
         "refused"} \subseteq Pc \ Past
    BY DEF Pc, Past
  <2> QED
    BY <1>13, <2>1, <1>12
    DEF Register, NeedsPhone, Drop, BareProfile, SignedIn, Unauthorized, WriteRole, Request
<1>15. ASSUME NEW t \in Tabs, Login(t) \/ \E ok \in BOOLEAN : Stamp(t, ok) PROVE Over(k)'
  <2>0. PICK pc \in {"stamp", "session"} :
          \E role : tabs' = [tabs EXCEPT ![t] = [tabs[t] EXCEPT !.pc = pc, !.role = role]]
    BY <1>15 DEF Login, Stamp
  <2>1. PICK role : tabs' = [tabs EXCEPT ![t] = [tabs[t] EXCEPT !.pc = pc, !.role = role]]
    BY <2>0
  <2>2. [tabs[t] EXCEPT !.pc = pc, !.role = role].pc \notin Past
    BY <2>0, <1>t DEF Tab, Past
  <2> QED
    BY <1>15, <2>1, <2>2, <1>2 DEF Login, Stamp, sessions
<1>14. ASSUME NEW t \in Tabs, NEW pc \in {"name", "phone", "in"}, NEW prof, UNCHANGED sessions,
              tabs' = [tabs EXCEPT ![t].pc = pc, ![t].prof = prof]
       PROVE  Over(k)'
  <2>1. tabs' = [tabs EXCEPT ![t] = [tabs[t] EXCEPT !.pc = pc, !.prof = prof]]
    BY <1>14
  <2>2. [tabs[t] EXCEPT !.pc = pc, !.prof = prof].pc \notin Past
    BY <1>t DEF Tab, Past
  <2> QED
    BY <1>14, <2>1, <2>2, <1>2 DEF sessions
<1>16. ASSUME NEW t \in Tabs, NEW ok \in BOOLEAN, ReadProfile(t, ok) \/ WriteProfile(t, ok)
       PROVE  Over(k)'
  <2>1. CASE ReadProfile(t, ok)
    BY <2>1, <1>14 DEF ReadProfile
  <2>2. CASE WriteProfile(t, ok)
    BY <2>2, <1>4, <1>14 DEF WriteProfile, sessions
  <2> QED
    BY <1>16, <2>1, <2>2
<1>17. ASSUME NEW t \in Tabs, NEW r \in Roles, CreateUser(t, r) PROVE Over(k)'
  <2>1. CASE user.on
    BY <1>17, <2>1, <1>4 DEF CreateUser, sessions
  <2>2. CASE ~user.on
    <3>1. tabs' = [tabs EXCEPT ![t] = [tabs[t] EXCEPT !.pc = "bare", !.new = TRUE]]
      BY <1>17, <2>2 DEF CreateUser
    <3>2. [tabs[t] EXCEPT !.pc = "bare", !.new = TRUE].pc \notin Past
      BY <1>t DEF Tab, Past
    <3> QED
      BY <1>17, <3>1, <3>2, <1>2 DEF CreateUser, sessions
  <2> QED
    BY <2>1, <2>2
<1>18. CASE \/ UNCHANGED vars \/ RevokeOthers
            \/ \E t \in Tabs : Logout(t) \/ FindOwn(t)
            \/ \E b \in Browsers : ExpireAccess(b)
            \/ \E l \in Tokens : ExpireRefresh(l) \/ Revoke(l)
  BY <1>18, <1>1 DEF vars, RevokeOthers, Logout, FindOwn, ExpireAccess, ExpireRefresh, Revoke,
     Delete, sessions
<1> QED
  BY <1>6, <1>7, <1>8, <1>9, <1>10, <1>11, <1>13, <1>15, <1>16, <1>17, <1>18
  DEF Next, SignIn, Refresh

\* A sign-in that is over stays over: no token, however old and in whichever
\* tab, brings a session of it back (RefreshSession, DeleteSession).
THEOREM OverStaysOver == Spec => OverIsOver
<1>1. TypeOK /\ [Next]_vars => [\A k \in Tokens : (Over(k) /\ root[k] = k) => Over(k)']_vars
  BY OverStep
<1> QED
  BY <1>1, TypeCorrect, PTL DEF Spec, OverIsOver

-----------------------------------------------------------------------------
\* What a tab and the store of its browser hold, they have from each other.
LEMMA ApartKept ==
  ASSUME Apart, UNCHANGED <<root, made>>,
         \A t \in Tabs : tabs'[t].tok \in {tabs[t].tok, NoToken, store[Home[t]].refresh},
         \A b \in Browsers :
           \/ store'[b].refresh \in {NoToken, store[b].refresh}
           \/ \E t \in Tabs : Home[t] = b /\ store'[b].refresh = tabs[t].tok
  PROVE  Apart'
<1>1. ASSUME NEW b \in Browsers, NEW k \in 1 .. made, Holds(b, k)' PROVE Holds(b, k)
  <2>1. k # NoToken
    BY DEF NoToken
  <2> QED
    BY <1>1, <2>1 DEF Holds
<1> QED
  BY <1>1 DEF Apart

\* A new token goes to one tab, and back to a sign-in that this tab has, or to none.
LEMMA ApartNew ==
  ASSUME TypeOK, Apart, UNCHANGED <<store, revoker>>, NEW t \in Tabs, NEW x, x.tok = made + 1,
         tabs' = [tabs EXCEPT ![t] = x],
         NEW from \in {NoToken, tabs[t].tok}, NewToken(from)
  PROVE  Apart'
<1>t. /\ TokensOK /\ made \in Nat /\ \A u \in Tabs : tabs[u].tok \in 0 .. made
      /\ tabs \in [Tabs -> Tab]
      /\ \A b \in Browsers : store[b].refresh \in 0 .. made /\ store'[b].refresh # made + 1
      /\ \A k \in 1 .. made : root[k] \in Nat /\ root[k] <= made
      /\ \A u \in Tabs : Home[u] \in Browsers
  <2>1. TokensOK /\ made \in Nat /\ tabs \in [Tabs -> Tab] /\ \A u \in Tabs : Home[u] \in Browsers
    <3>1. \A u \in Tabs : Home[u] \in Browsers
      BY SessionsAssumption
    <3>2. made \in Nat
      BY SessionsAssumption DEF TypeOK, TokensOK
    <3> QED
      BY <3>1, <3>2 DEF TypeOK, TabsOK
  <2>2. \A u \in Tabs : tabs[u].tok \in 0 .. made
    BY <2>1 DEF TypeOK, TabsOK, Tab
  <2>3. \A b \in Browsers : store[b].refresh \in 0 .. made
    BY <2>1 DEF TypeOK, BrowsersOK
  <2>4. \A k \in 1 .. made : root[k] \in Nat /\ root[k] <= made
    <3>1. \A k \in 1 .. made : k \in Tokens
      BY <2>1, SessionsAssumption DEF TokensOK, Tokens
    <3> QED
      BY <2>1, <3>1 DEF TokensOK, Tokens
  <2> QED
    BY <2>1, <2>2, <2>3, <2>4
<1>1. /\ made' = made + 1
      /\ \A k \in 1 .. made : root'[k] = root[k]
      /\ root'[made + 1] = IF from = NoToken THEN made + 1 ELSE root[from]
  <2>1. from \in 0 .. made
    BY <1>t DEF NoToken
  <2> QED
    BY <1>t, <2>1, TokenIsNew
<1>2. ASSUME NEW b \in Browsers, NEW k \in 1 .. made + 1, Holds(b, k)'
      PROVE  \/ k \in 1 .. made /\ Holds(b, k) /\ root'[k] = root[k] /\ root'[k] <= made
             \/ /\ k = made + 1 /\ b = Home[t]
                /\ \/ root'[k] = made + 1
                   \/ from \in 1 .. made /\ Holds(b, from) /\ root'[k] = root[from]
  <2>1. CASE k = made + 1
    <3>1. PICK u \in Tabs : Home[u] = b /\ tabs'[u].tok = made + 1
      BY <1>2, <2>1, <1>t DEF Holds
    <3>2. u = t
      BY <3>1, <1>t
    <3>3. from # NoToken => from \in 1 .. made /\ Holds(b, from)
      BY <3>1, <3>2, <1>t DEF Holds, NoToken
    <3> QED
      BY <2>1, <3>1, <3>2, <3>3, <1>1
  <2>2. CASE k # made + 1
    <3>1. k \in 1 .. made
      BY <2>2, <1>t
    <3>2. Holds(b, k)
      <4>1. \A u \in Tabs : tabs'[u].tok = k => tabs[u].tok = k
        BY <2>2, <1>t
      <4> QED
        BY <1>2, <4>1 DEF Holds
    <3> QED
      BY <3>1, <3>2, <1>t, <1>1
  <2> QED
    BY <2>1, <2>2
<1>3. ASSUME NEW b \in Browsers, NEW c \in Browsers, NEW k \in 1 .. made + 1, NEW l \in 1 .. made + 1,
             Holds(b, k)', Holds(c, l)', root'[k] = root'[l]
      PROVE  b = c
  <2>1. CASE k = made + 1 /\ l = made + 1
    BY <2>1, <1>3, <1>2, <1>t
  <2>2. CASE k = made + 1 /\ l # made + 1
    <3>1. l \in 1 .. made /\ Holds(c, l) /\ root'[l] = root[l] /\ root'[l] <= made
      BY <2>2, <1>2, <1>3
    <3>2. from \in 1 .. made /\ Holds(b, from) /\ root'[k] = root[from]
      BY <2>2, <3>1, <1>2, <1>3, <1>t
    <3> QED
      BY <3>1, <3>2, <1>3 DEF Apart
  <2>3. CASE k # made + 1 /\ l = made + 1
    <3>1. k \in 1 .. made /\ Holds(b, k) /\ root'[k] = root[k] /\ root'[k] <= made
      BY <2>3, <1>2, <1>3
    <3>2. from \in 1 .. made /\ Holds(c, from) /\ root'[l] = root[from]
      BY <2>3, <3>1, <1>2, <1>3, <1>t
    <3> QED
      BY <3>1, <3>2, <1>3 DEF Apart
  <2>4. CASE k # made + 1 /\ l # made + 1
    <3>1. k \in 1 .. made /\ Holds(b, k) /\ root'[k] = root[k]
      BY <2>4, <1>2, <1>3
    <3>2. l \in 1 .. made /\ Holds(c, l) /\ root'[l] = root[l]
      BY <2>4, <1>2, <1>3
    <3> QED
      BY <3>1, <3>2, <1>3 DEF Apart
  <2> QED
    BY <2>1, <2>2, <2>3, <2>4
<1> QED
  BY <1>1, <1>3 DEF Apart

\* A browser of which nothing that counts has changed, or which has met
\* something, is as steady as before.
LEMMA SteadyKept ==
  ASSUME TypeOK, NEW b \in Browsers, SteadyAt(b),
         \/ expects'[b] = "any"
         \/ /\ expects'[b] = expects[b] /\ store'[b].refresh = store[b].refresh
            /\ \A t \in Tabs : Home[t] = b /\ (tabs[t].pc \in Refreshing \/ tabs'[t].pc \in Refreshing)
                                => tabs'[t] = tabs[t]
            /\ \A k \in 1 .. made : Holds(b, k) =>
                 root'[k] = root[k] /\ (k \in rows \ expired => k \in rows' \ expired')
  PROVE  SteadyAt(b)'
<1>1. CASE expects'[b] = "any"
  BY <1>1 DEF SteadyAt
<1>2. CASE expects'[b] # "any"
  <2>1. Refreshes(b)' = Refreshes(b) /\ \A t \in Refreshes(b) : tabs'[t] = tabs[t] /\ Home[t] = b
    BY <1>2 DEF Refreshes
  <2>2. store[b].refresh # NoToken => store[b].refresh \in 1 .. made /\ Holds(b, store[b].refresh)
    BY DEF TypeOK, BrowsersOK, TokensOK, Holds, NoToken
  <2>3. \A t \in Refreshes(b) : tabs[t].pc # "failed" =>
          tabs[t].tok \in 1 .. made /\ Holds(b, tabs[t].tok)
    <3> SUFFICES ASSUME NEW t \in Refreshes(b), tabs[t].pc # "failed"
                 PROVE  tabs[t].tok \in 1 .. made /\ Holds(b, tabs[t].tok)
      OBVIOUS
    <3>1. t \in Tabs /\ Home[t] = b /\ tabs[t].pc \in Bearing
      BY DEF Refreshes, Refreshing, Bearing
    <3> QED
      BY <3>1 DEF TypeOK, TabsOK, TokensOK, Tab, Holds, NoToken
  <2> QED
    BY <1>2, <2>1, <2>2, <2>3 DEF SteadyAt
<1> QED
  BY <1>1, <1>2

\* Browsers never share a token.
LEMMA ApartStep == TypeOK /\ Apart /\ [Next]_vars => Apart'
<1> SUFFICES ASSUME TypeOK, Apart, [Next]_vars PROVE Apart'
  OBVIOUS
<1>t. tabs \in [Tabs -> Tab] /\ store \in [Browsers -> [access : BOOLEAN, refresh : 0 .. MaxTokens]]
  BY DEF TypeOK, TabsOK, BrowsersOK
<1>1. ASSUME UNCHANGED <<root, made, tabs>>, \A b \in Browsers : store'[b].refresh \in {NoToken, store[b].refresh}
      PROVE  Apart'
  BY <1>1, ApartKept
<1>2. ASSUME UNCHANGED <<root, made>>, NEW t \in Tabs, NEW x, tabs' = [tabs EXCEPT ![t] = x],
             x.tok \in {tabs[t].tok, NoToken, store[Home[t]].refresh},
             \A b \in Browsers :
               \/ store'[b].refresh \in {NoToken, store[b].refresh}
               \/ Home[t] = b /\ store'[b].refresh = tabs[t].tok
      PROVE  Apart'
  <2>1. \A u \in Tabs : tabs'[u].tok \in {tabs[u].tok, NoToken, store[Home[u]].refresh}
    BY <1>2, <1>t
  <2> QED
    BY <1>2, <2>1, ApartKept
<1>3. ASSUME NEW t \in Tabs, NEW pc, Goes(t, pc), UNCHANGED <<root, made, store>> PROVE Apart'
  <2>1. tabs' = [tabs EXCEPT ![t] = [tabs[t] EXCEPT !.pc = pc]] /\ [tabs[t] EXCEPT !.pc = pc].tok = tabs[t].tok
    BY <1>3, <1>t DEF Goes, Tab
  <2> QED
    BY <1>3, <2>1, <1>2
<1>4. ASSUME NEW t \in Tabs, Rests(t), UNCHANGED <<root, made>>,
             \A b \in Browsers :
               \/ store'[b].refresh \in {NoToken, store[b].refresh}
               \/ Home[t] = b /\ store'[b].refresh = tabs[t].tok
      PROVE  Apart'
  BY <1>4, <1>2 DEF Rests, Idle
<1>5. ASSUME NEW t \in Tabs, NEW ok \in BOOLEAN, SignedIn(t, ok) PROVE Apart'
  <2>1. \A b \in Browsers :
          \/ store'[b].refresh \in {NoToken, store[b].refresh}
          \/ Home[t] = b /\ store'[b].refresh = tabs[t].tok
    BY <1>5, <1>t DEF SignedIn, browser
  <2> QED
    BY <1>5, <2>1, <1>4 DEF SignedIn, sessions
<1>6. ASSUME NEW t \in Tabs, Settle(t) PROVE Apart'
  <2>1. PICK pc \in {"unauthorized", "again"} : tabs' = [tabs EXCEPT ![t] = [Idle EXCEPT !.pc = pc]]
    BY <1>6 DEF Settle
  <2>2. [Idle EXCEPT !.pc = pc].tok = NoToken
    BY DEF Idle
  <2>3. \A b \in Browsers :
          \/ store'[b].refresh \in {NoToken, store[b].refresh}
          \/ Home[t] = b /\ store'[b].refresh = tabs[t].tok
    BY <1>6, <1>t DEF Settle, NoPair
  <2> QED
    BY <1>6, <2>1, <2>2, <2>3, <1>2 DEF Settle, sessions
<1>7. ASSUME NEW t \in Tabs, NEW ok \in BOOLEAN, Unauthorized(t, ok) PROVE Apart'
  <2>1. \A b \in Browsers : store'[b].refresh \in {NoToken, store[b].refresh}
    BY <1>7, <1>t DEF Unauthorized, NoPair
  <2> QED
    BY <1>7, <2>1, <1>4 DEF Unauthorized, sessions
<1>8. ASSUME NEW t \in Tabs, NEW ok \in BOOLEAN, CreateSession(t, ok) PROVE Apart'
  <2>1. CASE ok
    <3>1. PICK pc \in {"setPhone", "needPhone"} :
            tabs' = [tabs EXCEPT ![t] = [tabs[t] EXCEPT !.pc = pc, !.tok = made + 1, !.new = FALSE]]
      BY <1>8, <2>1 DEF CreateSession
    <3>2. [tabs[t] EXCEPT !.pc = pc, !.tok = made + 1, !.new = FALSE].tok = made + 1
      BY <1>t DEF Tab
    <3> QED
      BY <1>8, <2>1, <3>1, <3>2, ApartNew DEF CreateSession, browser
  <2>2. CASE ~ok
    BY <1>8, <2>2, <1>4 DEF CreateSession, sessions, browser
  <2> QED
    BY <2>1, <2>2
<1>9. ASSUME NEW t \in Tabs, NEW ok \in BOOLEAN, Recreate(t, ok) PROVE Apart'
  <2>1. CASE ok
    <3>1. tabs' = [tabs EXCEPT ![t] = [tabs[t] EXCEPT !.pc = "created", !.tok = made + 1]]
      BY <1>9, <2>1 DEF Recreate
    <3>2. [tabs[t] EXCEPT !.pc = "created", !.tok = made + 1].tok = made + 1
      BY <1>t DEF Tab
    <3> QED
      BY <1>9, <2>1, <3>1, <3>2, ApartNew DEF Recreate
  <2>2. CASE ~ok
    BY <1>9, <2>2, <1>3 DEF Recreate, sessions
  <2> QED
    BY <2>1, <2>2
<1>10. ASSUME NEW t \in Tabs, StartRefresh(t) PROVE Apart'
  <2>1. CASE store[Home[t]].refresh = NoToken
    BY <1>10, <2>1, <1>3 DEF StartRefresh, sessions
  <2>2. CASE store[Home[t]].refresh # NoToken
    <3>1. tabs' = [tabs EXCEPT ![t] = [tabs[t] EXCEPT !.pc = "find", !.tok = store[Home[t]].refresh]]
      BY <1>10, <2>2 DEF StartRefresh
    <3>2. [tabs[t] EXCEPT !.pc = "find", !.tok = store[Home[t]].refresh].tok = store[Home[t]].refresh
      BY <1>t DEF Tab
    <3> QED
      BY <1>10, <3>1, <3>2, <1>2 DEF StartRefresh, sessions
  <2> QED
    BY <2>1, <2>2
\* The other steps move no token.
<1>12. ASSUME NEW t \in Tabs, Login(t) \/ \E ok \in BOOLEAN : Stamp(t, ok) PROVE Apart'
  <2>1. ASSUME NEW pc, NEW role, UNCHANGED <<sessions, browser>>,
               tabs' = [tabs EXCEPT ![t] = [tabs[t] EXCEPT !.pc = pc, !.role = role]]
        PROVE  Apart'
    <3>1. [tabs[t] EXCEPT !.pc = pc, !.role = role].tok = tabs[t].tok
      BY <1>t DEF Tab
    <3> QED
      BY <2>1, <3>1, <1>2 DEF sessions, browser
  <2>2. CASE Login(t)
    <3>1. tabs' = [tabs EXCEPT ![t] = [tabs[t] EXCEPT !.pc = "stamp", !.role = user.role]]
      BY <2>2 DEF Login
    <3> QED
      BY <2>1, <2>2, <3>1 DEF Login
  <2>3. ASSUME NEW ok \in BOOLEAN, Stamp(t, ok) PROVE Apart'
    <3>1. tabs' = [tabs EXCEPT ![t] = [tabs[t] EXCEPT !.pc = "session", !.role = AnyRole]]
      BY <2>3 DEF Stamp
    <3> QED
      BY <2>1, <2>3, <3>1 DEF Stamp
  <2> QED
    BY <1>12, <2>2, <2>3
<1>13. ASSUME NEW t \in Tabs, NEW ok \in BOOLEAN, ReadProfile(t, ok) \/ WriteProfile(t, ok) PROVE Apart'
  <2>1. ASSUME NEW pc, NEW prof, tabs' = [tabs EXCEPT ![t].pc = pc, ![t].prof = prof],
               UNCHANGED <<sessions, browser>>
        PROVE  Apart'
    <3>1. tabs' = [tabs EXCEPT ![t] = [tabs[t] EXCEPT !.pc = pc, !.prof = prof]]
      BY <2>1
    <3>2. [tabs[t] EXCEPT !.pc = pc, !.prof = prof].tok = tabs[t].tok
      BY <1>t DEF Tab
    <3> QED
      BY <2>1, <3>1, <3>2, <1>2 DEF sessions, browser
  <2>2. CASE ReadProfile(t, ok)
    BY <2>1, <2>2 DEF ReadProfile
  <2>3. CASE WriteProfile(t, ok)
    BY <2>1, <2>3, <1>4 DEF WriteProfile, sessions, browser
  <2> QED
    BY <1>13, <2>2, <2>3
<1>14. ASSUME NEW t \in Tabs, NEW r \in Roles, CreateUser(t, r) PROVE Apart'
  <2>1. CASE user.on
    BY <1>14, <2>1, <1>4 DEF CreateUser, sessions, browser
  <2>2. CASE ~user.on
    <3>1. tabs' = [tabs EXCEPT ![t] = [tabs[t] EXCEPT !.pc = "bare", !.new = TRUE]]
      BY <1>14, <2>2 DEF CreateUser
    <3>2. [tabs[t] EXCEPT !.pc = "bare", !.new = TRUE].tok = tabs[t].tok
      BY <1>t DEF Tab
    <3> QED
      BY <1>14, <3>1, <3>2, <1>2 DEF CreateUser, sessions, browser
  <2> QED
    BY <2>1, <2>2
<1>15. ASSUME NEW t \in Tabs,
              \/ Register(t) \/ NeedsPhone(t) \/ Drop(t) \/ Find(t)
              \/ \E ok \in BOOLEAN : BareProfile(t, ok) \/ Rotate(t, ok)
              \/ \E r \in Roles : WriteRole(t, r)
              \/ \E what \in {"role", "name", "read"} : Request(t, what)
       PROVE  Apart'
  <2>1. UNCHANGED <<root, made, store>>
    BY <1>15 DEF Register, NeedsPhone, Drop, Find, BareProfile, Rotate, WriteRole, Request, sessions, browser
  <2>2. Rests(t) \/ \E pc : Goes(t, pc)
    BY <1>15 DEF Register, NeedsPhone, Drop, Find, BareProfile, Rotate, WriteRole, Request
  <2> QED
    BY <2>1, <2>2, <1>3, <1>4
<1>16. ASSUME NEW t \in Tabs, Logout(t) PROVE Apart'
  BY <1>16, <1>t, <1>1 DEF Logout, sessions, NoPair
<1>17. ASSUME NEW b \in Browsers, ExpireAccess(b) PROVE Apart'
  <2>1. \A c \in Browsers : store'[c].refresh = store[c].refresh
    BY <1>17, <1>t DEF ExpireAccess
  <2> QED
    BY <1>17, <2>1, <1>1 DEF ExpireAccess, sessions
<1>18. CASE \/ UNCHANGED vars \/ RevokeOthers
            \/ \E t \in Tabs : FindOwn(t)
            \/ \E k \in Tokens : ExpireRefresh(k) \/ Revoke(k)
  BY <1>18, <1>1 DEF vars, RevokeOthers, FindOwn, ExpireRefresh, Revoke, sessions, browser
<1> QED
  BY <1>5, <1>6, <1>7, <1>8, <1>9, <1>10, <1>12, <1>13, <1>14, <1>15, <1>16, <1>17, <1>18
  DEF Next, SignIn, Refresh

\* Every step keeps an undisturbed browser signed in exactly when it should be.
LEMMA SteadyStep == TypeOK /\ Apart /\ Steady /\ [Next]_vars => Steady'
<1> SUFFICES ASSUME TypeOK, Apart, Steady, [Next]_vars, NEW b \in Browsers PROVE SteadyAt(b)'
  BY DEF Steady
<1>t. /\ tabs \in [Tabs -> Tab] /\ store \in [Browsers -> [access : BOOLEAN, refresh : 0 .. MaxTokens]]
      /\ expects \in [Browsers -> {"in", "out", "any"}]
      /\ \A t \in Tabs : Home[t] \in Browsers
  BY SessionsAssumption DEF TypeOK, TabsOK, BrowsersOK
<1>s. SteadyAt(b)
  BY DEF Steady
<1>m. made \in Nat /\ rows \subseteq 1 .. made /\ expired \subseteq rows /\ TokensOK
  BY SessionsAssumption DEF TypeOK, TokensOK
\* Steps of a tab that refreshes neither before nor after, and leave the rest.
<1>1. ASSUME NEW t \in Tabs, NEW x, tabs' = [tabs EXCEPT ![t] = x],
             tabs[t].pc \notin Refreshing, x.pc \notin Refreshing,
             UNCHANGED <<rows, expired, root, expects>>,
             \A c \in Browsers : store'[c].refresh = store[c].refresh
      PROVE  SteadyAt(b)'
  <2>1. \A u \in Tabs : tabs[u].pc \in Refreshing \/ tabs'[u].pc \in Refreshing => tabs'[u] = tabs[u]
    BY <1>1, <1>t
  <2> QED
    BY <1>1, <1>s, <2>1, SteadyKept
<1>2. ASSUME NEW t \in Tabs, NEW pc \in Pc \ Refreshing, Goes(t, pc), tabs[t].pc \notin Refreshing,
             UNCHANGED <<rows, expired, root, expects, store>>
      PROVE  SteadyAt(b)'
  <2>1. tabs' = [tabs EXCEPT ![t] = [tabs[t] EXCEPT !.pc = pc]] /\ [tabs[t] EXCEPT !.pc = pc].pc = pc
    BY <1>2, <1>t DEF Goes, Tab
  <2> QED
    BY <1>1, <1>2, <2>1
<1>3. ASSUME NEW t \in Tabs, Rests(t), tabs[t].pc \notin Refreshing,
             UNCHANGED <<rows, expired, root, expects, store>>
      PROVE  SteadyAt(b)'
  <2>1. Idle.pc \notin Refreshing
    BY DEF Idle, Refreshing
  <2> QED
    BY <1>1, <1>3, <2>1 DEF Rests
\* A step of a tab of another browser.
<1>4. ASSUME NEW t \in Tabs, NEW x, tabs' = [tabs EXCEPT ![t] = x], Home[t] # b,
             expects'[b] \in {expects[b], "any"}, store'[b] = store[b],
             UNCHANGED root, \A k \in rows \ expired : k = tabs[t].tok \/ k \in rows' \ expired',
             tabs[t].tok \notin rows' \ expired' => tabs[t].tok \notin rows \ expired \/ tabs[t].tok \in 1 .. made
      PROVE  SteadyAt(b)'
  <2>1. \A u \in Tabs : Home[u] = b => tabs'[u] = tabs[u]
    BY <1>4, <1>t
  <2>2. ASSUME NEW k \in 1 .. made, Holds(b, k), k \in rows \ expired PROVE k \in rows' \ expired'
    <3>1. CASE k = tabs[t].tok
      <4>1. Holds(Home[t], k)
        BY <3>1 DEF Holds
      <4> QED
        BY <1>4, <1>t, <2>2, <4>1 DEF Apart
    <3> QED
      BY <1>4, <2>2, <3>1
  <2> QED
    BY <1>4, <1>s, <2>1, <2>2, SteadyKept
\* A new token.
<1>5. ASSUME NEW t \in Tabs, NEW x, tabs' = [tabs EXCEPT ![t] = x],
             (tabs[t].pc \notin Refreshing /\ x.pc \notin Refreshing) \/ Home[t] # b,
             NEW from \in {NoToken, tabs[t].tok}, NewToken(from), UNCHANGED <<store, revoker>>,
             expects'[b] = expects[b]
      PROVE  SteadyAt(b)'
  <2>1. \A u \in Tabs : Home[u] = b /\ (tabs[u].pc \in Refreshing \/ tabs'[u].pc \in Refreshing)
                        => tabs'[u] = tabs[u]
    BY <1>5, <1>t
  <2>2. from \in 0 .. made
    BY <1>5, <1>m DEF NoToken, TypeOK, TabsOK, Tab
  <2>3. rows' = rows \cup {made + 1} /\ UNCHANGED expired /\ \A k \in 1 .. made : root'[k] = root[k]
    BY <1>5, <1>m, <2>2, TokenIsNew DEF NewToken
  <2> QED
    BY <1>5, <1>s, <2>1, <2>3, SteadyKept
\* Sessions that end, whoever has them: their browsers are told of.
<1>6. ASSUME NEW K, Disturb(Hit(K)), UNCHANGED <<root, tabs, store>>,
             \A k \in rows \ expired : k \in K \/ k \in rows' \ expired'
      PROVE  SteadyAt(b)'
  <2>1. CASE b \in Hit(K)
    BY <1>6, <2>1 DEF Disturb, SteadyAt
  <2>2. CASE b \notin Hit(K)
    <3>1. \A k \in 1 .. made : Holds(b, k) => k \notin K
      BY <2>2 DEF Hit, Holds, NoToken
    <3>2. expects'[b] = expects[b]
      BY <1>6, <2>2 DEF Disturb
    <3> QED
      BY <1>6, <1>s, <3>1, <3>2, SteadyKept
  <2> QED
    BY <2>1, <2>2
\* Signing in and out.
<1>7. ASSUME NEW t \in Tabs, NEW ok \in BOOLEAN, SignedIn(t, ok) PROVE SteadyAt(b)'
  <2>1. tabs[t].pc = "in" /\ tabs[t].pc \notin Refreshing /\ tabs[t].tok # NoToken
    BY <1>7 DEF SignedIn, Refreshing, TypeOK, TabsOK, Bearing
  <2>2. tabs' = [tabs EXCEPT ![t] = Idle] /\ UNCHANGED <<rows, expired, root>> /\ Idle.pc \notin Refreshing
    BY <1>7 DEF SignedIn, Rests, sessions, Idle, Refreshing
  <2>3. CASE ~ok
    BY <1>7, <2>1, <2>2, <2>3, <1>1 DEF SignedIn, browser
  <2>4. CASE ok /\ Home[t] # b
    <3>1. store'[b] = store[b] /\ expects'[b] = expects[b]
      BY <1>7, <2>4, <1>t DEF SignedIn
    <3> QED
      BY <1>4, <2>2, <2>4, <3>1
  <2>5. CASE ok /\ Home[t] = b
    <3>1. /\ store'[b].refresh = tabs[t].tok
          /\ expects'[b] = IF tabs[t].tok \notin rows \ expired \/ Refreshes(b) # {} THEN "any" ELSE "in"
      BY <1>7, <2>5, <1>t DEF SignedIn
    <3>2. \A u \in Tabs : tabs'[u].pc \in Refreshing => tabs'[u] = tabs[u]
      BY <2>2, <1>t
    <3>3. Refreshes(b) = {} => Refreshes(b)' = {}
      BY <3>2 DEF Refreshes
    <3> QED
      BY <2>1, <2>2, <3>1, <3>3 DEF SteadyAt
  <2> QED
    BY <2>3, <2>4, <2>5
<1>8. ASSUME NEW t \in Tabs, Logout(t) PROVE SteadyAt(b)'
  <2>1. UNCHANGED <<rows, expired, root, tabs>>
    BY <1>8 DEF Logout, sessions
  <2>2. CASE Home[t] # b
    <3>1. store'[b] = store[b] /\ expects'[b] = expects[b]
      BY <1>8, <2>2, <1>t DEF Logout
    <3> QED
      BY <1>s, <2>1, <3>1, SteadyKept
  <2>3. CASE Home[t] = b
    <3>1. /\ store'[b].refresh = NoToken
          /\ expects'[b] = IF expects[b] = "any" \/ Refreshes(b) # {} THEN "any" ELSE "out"
      BY <1>8, <2>3, <1>t DEF Logout, NoPair
    <3>2. Refreshes(b)' = Refreshes(b)
      BY <2>1 DEF Refreshes
    <3> QED
      BY <3>1, <3>2 DEF SteadyAt
  <2> QED
    BY <2>2, <2>3
\* Refreshing.
<1>9. ASSUME NEW t \in Tabs, StartRefresh(t) PROVE SteadyAt(b)'
  <2>1. tabs[t].pc \notin Refreshing /\ UNCHANGED <<rows, expired, root, store>>
    BY <1>9 DEF StartRefresh, Refreshing, sessions
  <2>2. CASE store[Home[t]].refresh = NoToken
    BY <1>9, <2>1, <2>2, <1>2 DEF StartRefresh, Refreshing, Pc
  <2>3. CASE store[Home[t]].refresh # NoToken
    <3> DEFINE x == [tabs[t] EXCEPT !.pc = "find", !.tok = store[Home[t]].refresh]
    <3>1. /\ tabs' = [tabs EXCEPT ![t] = x]
          /\ Disturb(IF Refreshes(Home[t]) # {} THEN {Home[t]} ELSE {})
      BY <1>9, <2>3 DEF StartRefresh
    <3>2. x.pc = "find" /\ x.tok = store[Home[t]].refresh
      BY <1>t DEF Tab
    <3> HIDE DEF x
    <3>3. CASE Home[t] # b
      BY <1>4, <1>t, <2>1, <3>1, <3>3 DEF Disturb
    <3>4. CASE Home[t] = b /\ Refreshes(b) # {}
      BY <3>1, <3>4 DEF Disturb, SteadyAt
    <3>5. CASE Home[t] = b /\ Refreshes(b) = {}
      <4>1. expects'[b] = expects[b]
        BY <3>1, <3>5 DEF Disturb
      <4>2. tabs'[t] = x /\ \A u \in Tabs \ {t} : tabs'[u] = tabs[u]
        BY <3>1, <1>t
      <4>3. Refreshes(b)' = {t}
        BY <3>2, <3>5, <4>2 DEF Refreshes, Refreshing
      <4> QED
        BY <1>s, <2>1, <2>3, <3>2, <3>5, <4>1, <4>2, <4>3 DEF SteadyAt
    <3> QED
      BY <3>3, <3>4, <3>5
  <2> QED
    BY <2>2, <2>3
\* The steps of a tab that goes on refreshing.
<1>10. ASSUME NEW t \in Tabs, NEW x, tabs[t].pc \in Refreshing, x.pc \in Refreshing, Home[t] = b,
              tabs' = [tabs EXCEPT ![t] = x], x.pc # "failed",
              expects'[b] = expects[b], store'[b] = store[b],
              expects[b] = "in" => root'[store[b].refresh] = root[store[b].refresh],
              expects[b] = "in" => root'[x.tok] = root[tabs[t].tok],
              x.pc \in {"find", "created"} => x.tok \in rows' \ expired'
       PROVE  SteadyAt(b)'
  <2>1. tabs'[t] = x /\ \A u \in Tabs \ {t} : tabs'[u] = tabs[u]
    BY <1>10, <1>t
  <2>2. Refreshes(b)' = Refreshes(b) /\ t \in Refreshes(b)
    BY <1>10, <2>1 DEF Refreshes
  <2> QED
    BY <1>10, <1>s, <2>1, <2>2 DEF SteadyAt
<1>11. ASSUME NEW t \in Tabs, Find(t) PROVE SteadyAt(b)'
  <2>1. PICK pc \in {"found", "failed"} :
           /\ tabs' = [tabs EXCEPT ![t] = [tabs[t] EXCEPT !.pc = pc]]
           /\ pc = "failed" => tabs[t].tok \notin rows \ expired
    BY <1>11 DEF Find, Goes
  <2>2. UNCHANGED <<rows, expired, root, store, expects>> /\ tabs[t].pc = "find"
    BY <1>11 DEF Find, sessions, browser
  <2>3. [tabs[t] EXCEPT !.pc = pc].pc = pc /\ [tabs[t] EXCEPT !.pc = pc].tok = tabs[t].tok
    BY <1>t DEF Tab
  <2>4. CASE Home[t] # b
    BY <1>4, <2>1, <2>2, <2>4
  <2>5. CASE Home[t] = b /\ pc = "found"
    <3> DEFINE x == [tabs[t] EXCEPT !.pc = pc]
    <3>1. /\ tabs' = [tabs EXCEPT ![t] = x] /\ x.pc = "found" /\ x.tok = tabs[t].tok
          /\ tabs[t].pc \in Refreshing /\ x.pc \in Refreshing
      BY <2>1, <2>2, <2>3, <2>5 DEF Refreshing
    <3> HIDE DEF x
    <3> QED
      BY <1>10, <2>2, <2>5, <3>1
  <2>6. CASE Home[t] = b /\ pc = "failed"
    <3>1. t \in Refreshes(b)
      BY <2>2, <2>6 DEF Refreshes, Refreshing
    <3>2. expects[b] = "any"
      BY <1>s, <1>t, <2>1, <2>2, <2>6, <3>1 DEF SteadyAt
    <3> QED
      BY <2>2, <3>2 DEF SteadyAt
  <2> QED
    BY <2>4, <2>5, <2>6
<1>12. ASSUME NEW t \in Tabs, NEW ok \in BOOLEAN, Rotate(t, ok) PROVE SteadyAt(b)'
  <2>1. /\ tabs' = [tabs EXCEPT ![t] = [tabs[t] EXCEPT !.pc = "rotated"]]
        /\ UNCHANGED <<root, store, expects>> /\ tabs[t].pc = "found"
        /\ \A k \in rows \ expired : k = tabs[t].tok \/ k \in rows' \ expired'
    BY <1>12 DEF Rotate, Goes, Delete, browser
  <2>2. [tabs[t] EXCEPT !.pc = "rotated"].pc = "rotated" /\ [tabs[t] EXCEPT !.pc = "rotated"].tok = tabs[t].tok
    BY <1>t DEF Tab
  <2>3. CASE Home[t] # b
    BY <1>4, <1>m, <2>1, <2>3
  <2>4. CASE Home[t] = b
    <3> DEFINE x == [tabs[t] EXCEPT !.pc = "rotated"]
    <3>1. /\ tabs' = [tabs EXCEPT ![t] = x] /\ x.pc = "rotated" /\ x.tok = tabs[t].tok
          /\ tabs[t].pc \in Refreshing /\ x.pc \in Refreshing
      BY <2>1, <2>2 DEF Refreshing
    <3> HIDE DEF x
    <3> QED
      BY <1>10, <2>1, <2>4, <3>1
  <2> QED
    BY <2>3, <2>4
<1>13. ASSUME NEW t \in Tabs, NEW ok \in BOOLEAN, Recreate(t, ok) PROVE SteadyAt(b)'
  <2>1. CASE ok
    <3> DEFINE x == [tabs[t] EXCEPT !.pc = "created", !.tok = made + 1]
    <3>1. /\ tabs' = [tabs EXCEPT ![t] = x] /\ NewToken(tabs[t].tok)
          /\ UNCHANGED <<store, revoker>> /\ tabs[t].pc = "rotated" /\ Disturb({})
      BY <1>13, <2>1 DEF Recreate
    <3>2. x.pc = "created" /\ x.tok = made + 1
      BY <1>t DEF Tab
    <3> HIDE DEF x
    <3>3. expects'[b] = expects[b]
      BY <3>1 DEF Disturb
    <3>4. tabs[t].tok \in 1 .. made
      BY <3>1, <1>m DEF TypeOK, TabsOK, Tab, Bearing, NoToken
    <3>5. /\ rows' = rows \cup {made + 1} /\ UNCHANGED expired
          /\ \A k \in 1 .. made : root'[k] = root[k]
          /\ root'[made + 1] = root[tabs[t].tok]
      <4>1. UNCHANGED expired
        BY <3>1 DEF NewToken
      <4>2. tabs[t].tok \in 0 .. made /\ tabs[t].tok # NoToken
        BY <3>4 DEF NoToken
      <4> QED
        BY <3>1, <4>1, <4>2, <1>m, TokenIsNew
    <3>6. made + 1 \in rows' \ expired'
      BY <3>5, <1>m
    <3>7. CASE Home[t] # b
      BY <1>5, <3>1, <3>3, <3>7
    <3>8. CASE Home[t] = b
      <4>1. expects[b] = "in" => store[b].refresh \in 1 .. made
        BY <1>s, <1>m DEF SteadyAt, TypeOK, BrowsersOK, NoToken
      <4> QED
        <5>1. tabs[t].pc \in Refreshing /\ x.pc \in Refreshing /\ x.pc # "failed"
          BY <3>1, <3>2 DEF Refreshing
        <5>2. root'[x.tok] = root[tabs[t].tok] /\ store'[b] = store[b] /\ x.tok \in rows' \ expired'
          BY <3>1, <3>2, <3>5, <3>6
        <5>3. expects[b] = "in" => root'[store[b].refresh] = root[store[b].refresh]
          BY <3>5, <4>1
        <5> QED
          BY <1>10, <3>1, <3>3, <3>8, <5>1, <5>2, <5>3
    <3> QED
      BY <3>7, <3>8
  <2>2. CASE ~ok
    <3>1. /\ tabs' = [tabs EXCEPT ![t] = [tabs[t] EXCEPT !.pc = "failed"]]
          /\ Disturb({Home[t]}) /\ UNCHANGED <<rows, expired, root, store>>
      BY <1>13, <2>2 DEF Recreate, Goes, sessions
    <3>2. CASE Home[t] = b
      BY <3>1, <3>2 DEF Disturb, SteadyAt
    <3>3. CASE Home[t] # b
      BY <1>4, <3>1, <3>3 DEF Disturb
    <3> QED
      BY <3>2, <3>3
  <2> QED
    BY <2>1, <2>2
<1>14. ASSUME NEW t \in Tabs, Drop(t) PROVE SteadyAt(b)'
  <2>1. /\ tabs' = [tabs EXCEPT ![t] = [tabs[t] EXCEPT !.pc = "failed"]]
        /\ Disturb({Home[t]}) /\ UNCHANGED <<rows, expired, root, store>>
    BY <1>14 DEF Drop, Goes, sessions
  <2>2. CASE Home[t] = b
    BY <2>1, <2>2 DEF Disturb, SteadyAt
  <2>3. CASE Home[t] # b
    BY <1>4, <2>1, <2>3 DEF Disturb
  <2> QED
    BY <2>2, <2>3
<1>15. ASSUME NEW t \in Tabs, Settle(t) PROVE SteadyAt(b)'
  <2>1. PICK pc \in {"unauthorized", "again"} : tabs' = [tabs EXCEPT ![t] = [Idle EXCEPT !.pc = pc]]
    BY <1>15 DEF Settle
  <2>2. /\ [Idle EXCEPT !.pc = pc].pc \notin Refreshing /\ tabs[t].pc \in {"created", "failed"}
        /\ UNCHANGED <<rows, expired, root, expects>>
    BY <1>15 DEF Settle, Idle, Refreshing, sessions
  <2>3. CASE Home[t] # b
    <3>1. store'[b] = store[b]
      BY <1>15, <1>t, <2>3 DEF Settle
    <3> QED
      BY <1>4, <2>1, <2>2, <2>3, <3>1
  <2>4. CASE Home[t] = b
    <3>1. t \in Refreshes(b)
      BY <2>2, <2>4 DEF Refreshes, Refreshing
    <3>2. CASE expects[b] = "in"
      <4>1. /\ Refreshes(b) = {t} /\ tabs[t].pc = "created" /\ tabs[t].tok \in rows \ expired
        BY <1>s, <2>2, <3>1, <3>2 DEF SteadyAt
      <4>2. store'[b].refresh = tabs[t].tok
        BY <1>15, <1>t, <2>4, <4>1 DEF Settle
      <4>3. \A u \in Tabs : tabs'[u].pc \in Refreshing => u # t /\ tabs'[u] = tabs[u]
        BY <1>t, <2>1, <2>2
      <4>4. Refreshes(b)' = {}
        BY <4>1, <4>3 DEF Refreshes
      <4>5. tabs[t].tok # NoToken
        BY <1>m, <4>1 DEF NoToken
      <4> QED
        BY <2>2, <3>2, <4>1, <4>2, <4>4, <4>5 DEF SteadyAt
    <3>3. CASE expects[b] # "in"
      BY <1>s, <2>2, <3>1, <3>3 DEF SteadyAt
    <3> QED
      BY <3>2, <3>3
  <2> QED
    BY <2>3, <2>4
<1>16. ASSUME NEW t \in Tabs, NEW ok \in BOOLEAN, Unauthorized(t, ok) PROVE SteadyAt(b)'
  <2>1. /\ tabs[t].pc \notin Refreshing /\ Rests(t) /\ UNCHANGED <<rows, expired, root>>
        /\ Disturb(IF ok /\ store[Home[t]] # NoPair THEN {Home[t]} ELSE {})
    BY <1>16 DEF Unauthorized, Refreshing, sessions
  <2>2. CASE ok /\ store[Home[t]] # NoPair /\ Home[t] = b
    BY <2>1, <2>2 DEF Disturb, SteadyAt
  <2>3. CASE ~(ok /\ store[Home[t]] # NoPair /\ Home[t] = b)
    <3>1. store'[b] = store[b]
      BY <1>16, <1>t, <2>3 DEF Unauthorized
    <3>2. expects'[b] = expects[b]
      BY <2>1, <2>3 DEF Disturb
    <3>3. \A u \in Tabs : tabs[u].pc \in Refreshing \/ tabs'[u].pc \in Refreshing => tabs'[u] = tabs[u]
      BY <2>1, <1>t DEF Rests, Idle, Refreshing
    <3> QED
      BY <1>s, <2>1, <3>1, <3>2, <3>3, SteadyKept
  <2> QED
    BY <2>2, <2>3
\* The others.
<1>17. ASSUME NEW t \in Tabs, NEW ok \in BOOLEAN, CreateSession(t, ok) PROVE SteadyAt(b)'
  <2>1. CASE ok
    <3>1. PICK pc \in {"setPhone", "needPhone"} :
            tabs' = [tabs EXCEPT ![t] = [tabs[t] EXCEPT !.pc = pc, !.tok = made + 1, !.new = FALSE]]
      BY <1>17, <2>1 DEF CreateSession
    <3>2. [tabs[t] EXCEPT !.pc = pc, !.tok = made + 1, !.new = FALSE].pc \notin Refreshing
      BY <1>t DEF Tab, Refreshing
    <3>3. tabs[t].pc \notin Refreshing /\ NewToken(NoToken) /\ UNCHANGED <<store, revoker, expects>>
      BY <1>17, <2>1 DEF CreateSession, Refreshing, browser
    <3> QED
      BY <1>5, <3>1, <3>2, <3>3
  <2>2. CASE ~ok
    BY <1>17, <2>2, <1>3 DEF CreateSession, sessions, browser, Refreshing
  <2> QED
    BY <2>1, <2>2
<1>18. ASSUME NEW t \in Tabs, Login(t) \/ \E ok \in BOOLEAN : Stamp(t, ok) PROVE SteadyAt(b)'
  <2>0. PICK pc \in {"stamp", "session"} :
          \E role : tabs' = [tabs EXCEPT ![t] = [tabs[t] EXCEPT !.pc = pc, !.role = role]]
    BY <1>18 DEF Login, Stamp
  <2>1. PICK role : tabs' = [tabs EXCEPT ![t] = [tabs[t] EXCEPT !.pc = pc, !.role = role]]
    BY <2>0
  <2>2. [tabs[t] EXCEPT !.pc = pc, !.role = role].pc \notin Refreshing
    BY <2>0, <1>t DEF Tab, Refreshing
  <2>3. tabs[t].pc \notin Refreshing
    BY <1>18 DEF Login, Stamp, Refreshing
  <2> QED
    BY <1>18, <2>1, <2>2, <2>3, <1>1 DEF Login, Stamp, sessions, browser
<1>19. ASSUME NEW t \in Tabs, NEW ok \in BOOLEAN, ReadProfile(t, ok) \/ WriteProfile(t, ok) PROVE SteadyAt(b)'
  <2>p. tabs[t].pc \notin Refreshing /\ UNCHANGED <<sessions, browser>>
    BY <1>19 DEF ReadProfile, WriteProfile, Refreshing
  <2>1. ASSUME NEW pc \in {"name", "phone", "in"}, NEW prof, tabs' = [tabs EXCEPT ![t].pc = pc, ![t].prof = prof]
        PROVE  SteadyAt(b)'
    <3>1. tabs' = [tabs EXCEPT ![t] = [tabs[t] EXCEPT !.pc = pc, !.prof = prof]]
      BY <2>1
    <3>2. [tabs[t] EXCEPT !.pc = pc, !.prof = prof].pc \notin Refreshing
      BY <1>t DEF Tab, Refreshing
    <3> QED
      BY <2>p, <3>1, <3>2, <1>1 DEF sessions, browser
  <2>2. CASE ReadProfile(t, ok)
    BY <2>1, <2>2 DEF ReadProfile
  <2>3. CASE WriteProfile(t, ok)
    BY <2>1, <2>3, <2>p, <1>3 DEF WriteProfile, sessions, browser
  <2> QED
    BY <1>19, <2>2, <2>3
<1>20. ASSUME NEW t \in Tabs, NEW r \in Roles, CreateUser(t, r) PROVE SteadyAt(b)'
  <2>p. tabs[t].pc \notin Refreshing /\ UNCHANGED <<sessions, browser>>
    BY <1>20 DEF CreateUser, Refreshing
  <2>1. CASE user.on
    BY <1>20, <2>p, <2>1, <1>3 DEF CreateUser, sessions, browser
  <2>2. CASE ~user.on
    <3>1. tabs' = [tabs EXCEPT ![t] = [tabs[t] EXCEPT !.pc = "bare", !.new = TRUE]]
      BY <1>20, <2>2 DEF CreateUser
    <3>2. [tabs[t] EXCEPT !.pc = "bare", !.new = TRUE].pc \notin Refreshing
      BY <1>t DEF Tab, Refreshing
    <3> QED
      BY <2>p, <3>1, <3>2, <1>1 DEF sessions, browser
  <2> QED
    BY <2>1, <2>2
<1>21. ASSUME NEW t \in Tabs,
              \/ Register(t) \/ NeedsPhone(t)
              \/ \E ok \in BOOLEAN : BareProfile(t, ok)
              \/ \E r \in Roles : WriteRole(t, r)
              \/ \E what \in {"role", "name", "read"} : Request(t, what)
       PROVE  SteadyAt(b)'
  <2>1. UNCHANGED <<sessions, browser>> /\ tabs[t].pc \notin Refreshing
    BY <1>21 DEF Register, NeedsPhone, BareProfile, WriteRole, Request, Refreshing
  <2>2. \/ Rests(t)
        \/ \E pc \in {"register", "setPhone", "in", "session", "setName", "role", "unauthorized", "refused"} :
             Goes(t, pc)
    BY <1>21 DEF Register, NeedsPhone, BareProfile, WriteRole, Request
  <2>3. {"register", "setPhone", "in", "session", "setName", "role", "unauthorized", "refused"}
          \subseteq Pc \ Refreshing
    BY DEF Pc, Refreshing
  <2> QED
    BY <2>1, <2>2, <2>3, <1>2, <1>3 DEF sessions, browser
<1>22. ASSUME NEW c \in Browsers, ExpireAccess(c) PROVE SteadyAt(b)'
  <2>1. store'[b].refresh = store[b].refresh
    BY <1>22, <1>t DEF ExpireAccess
  <2> QED
    BY <1>22, <1>s, <2>1, SteadyKept DEF ExpireAccess, sessions
<1>23. CASE UNCHANGED vars \/ \E t \in Tabs : FindOwn(t)
  BY <1>23, <1>s, SteadyKept DEF vars, FindOwn, sessions, browser
<1>24. ASSUME NEW k \in Tokens, ExpireRefresh(k) \/ Revoke(k) PROVE SteadyAt(b)'
  BY <1>24, <1>6 DEF ExpireRefresh, Revoke, Delete
<1>25. CASE RevokeOthers
  BY <1>25, <1>6 DEF RevokeOthers, Delete
<1> QED
  BY <1>7, <1>8, <1>9, <1>11, <1>12, <1>13, <1>14, <1>15, <1>16, <1>17, <1>18, <1>19, <1>20,
     <1>21, <1>22, <1>23, <1>24, <1>25 DEF Next, SignIn, Refresh

\* Nobody is signed out for nothing, nor left with a token that will not do
\* (refreshAccessToken, RefreshSession).
THEOREM UsersStayIn == Spec => []StaysIn
<1>1. Init => Apart /\ Steady
  <2> SUFFICES ASSUME Init PROVE Apart /\ Steady
    OBVIOUS
  <2>1. made = 0 /\ \A b \in Browsers : expects[b] = "out" /\ store[b].refresh = NoToken
    BY DEF Init, NoPair
  <2>2. \A b \in Browsers : Refreshes(b) = {}
    BY DEF Init, Refreshes, Refreshing, Idle
  <2> QED
    BY <2>1, <2>2 DEF Apart, Steady, SteadyAt
<1>2. Steady => StaysIn
  <2> SUFFICES ASSUME Steady, NEW b \in Browsers, expects[b] = "in", store[b].refresh \notin rows
               PROVE  \E t \in Refreshes(b) : root[tabs[t].tok] = root[store[b].refresh]
    BY DEF Steady, SteadyAt, StaysIn
  <2> QED
    BY DEF Steady, SteadyAt
<1> QED
  BY <1>1, <1>2, ApartStep, SteadyStep, TypeCorrect, PTL DEF Spec

=============================================================================
