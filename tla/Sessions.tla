----------------------------- MODULE Sessions -----------------------------
(***************************************************************************)
(* Signing in and staying in: the account, its sessions on the server and  *)
(* the pair of tokens that the tabs of a browser share.                    *)
(*                                                                         *)
(* An access token is believed until it expires; then a tab trades the     *)
(* refresh token for a new pair, which replaces the session's row by       *)
(* another one.  Requests of different tabs interleave with each           *)
(* statement of it, with revocations, and with what else reads and writes  *)
(* the account's two rows.                                                 *)
(*                                                                         *)
(* One account is enough: sessions of two never meet.                      *)
(***************************************************************************)
EXTENDS Integers, FiniteSets

CONSTANTS
  Browsers, Tabs,
  Home,       \* the browser of a tab
  Roles,
  MaxTokens   \* bound: refresh tokens that are made

ASSUME SessionsAssumption ==
  /\ Home \in [Tabs -> Browsers] /\ Roles # {} /\ MaxTokens \in Nat \ {0}

VARIABLES
  user,       \* the row of users: whether there is one, and its role
  profile,    \* the row of profiles, by what has been set in it
  rows,       \* user_sessions, by refresh token
  root,       \* the sign-in that a token goes back to
  made,       \* tokens made so far
  expired,    \* of the tokens with a row, those whose time is over
  store,      \* localStorage of a browser
  tabs,       \* what a tab waits for, and how far the server is with it
  revoker     \* DELETE /auth/sessions

(***************************************************************************)
(* History variables: what the user of a browser expects of it, "in" or    *)
(* "out", or "any" once something has come in between; and what the        *)
(* account should hold, as long as that is sure: no two have changed it at *)
(* once, and no read has failed unnoticed.                                 *)
(***************************************************************************)
VARIABLES expects, wanted

vars == <<user, profile, rows, root, made, expired, store, tabs, revoker, expects, wanted>>
account == <<user, profile, wanted>>
sessions == <<rows, root, made, expired>>
browser == <<store, expects>>

NoToken == 0
Tokens == 1 .. MaxTokens
NoPair == [access |-> FALSE, refresh |-> NoToken]
Bare == [on |-> TRUE, phone |-> FALSE, named |-> FALSE]
NoProfile == [Bare EXCEPT !.on = FALSE]
AnyRole == CHOOSE r \in Roles : TRUE

\* role and prof are what the server has read for the tab; new: it registers.
Idle == [pc |-> "idle", tok |-> NoToken, role |-> AnyRole, prof |-> NoProfile, new |-> FALSE]

Init ==
  /\ user = [on |-> FALSE, role |-> AnyRole] /\ profile = NoProfile
  /\ rows = {} /\ root = [k \in Tokens |-> k] /\ made = 0 /\ expired = {}
  /\ store = [b \in Browsers |-> NoPair]
  /\ tabs = [t \in Tabs |-> Idle]
  /\ revoker = NoToken
  /\ expects = [b \in Browsers |-> "out"]
  /\ wanted = [sure |-> TRUE, role |-> AnyRole, named |-> FALSE]

Goes(t, pc) == tabs' = [tabs EXCEPT ![t].pc = pc]
Rests(t) == tabs' = [tabs EXCEPT ![t] = Idle]
Refreshing == {"find", "found", "rotated", "created", "failed"}
Refreshes(b) == {t \in Tabs : Home[t] = b /\ tabs[t].pc \in Refreshing}
Delete(K) == rows' = rows \ K /\ expired' = expired \ K
Disturb(B) == expects' = [b \in Browsers |-> IF b \in B THEN "any" ELSE expects[b]]

\* The browsers, and the tabs under way, that lose what they have.
Hit(K) == {b \in Browsers :
  \/ store[b].refresh # NoToken /\ root[store[b].refresh] \in {root[k] : k \in K}
  \/ \E t \in Tabs : Home[t] = b /\ tabs[t].tok \in K}

-----------------------------------------------------------------------------
(***************************************************************************)
(* The account's rows                                                      *)
(***************************************************************************)
\* Between reading and writing: the row of users, the row of profiles.
OnUser == {"stamp", "role"}
OnProfile == {"bare", "phone", "name"}

\* Another one has read and will write: what it has not seen it undoes.
Meets(t, pcs) == \E u \in Tabs \ {t} : tabs[u].pc \in pcs

Wants(w) == wanted' = IF wanted.sure THEN w ELSE wanted
Clash(c) ==
  wanted' = IF c THEN [sure |-> FALSE, role |-> AnyRole, named |-> FALSE] ELSE wanted

\* LoginPhone looks whether the profile has the phone.
NeedsPhone(t) ==
  /\ tabs[t].pc = "needPhone"
  /\ Goes(t, IF profile.on /\ ~profile.phone THEN "setPhone" ELSE "in")
  /\ UNCHANGED <<account, sessions, browser, revoker>>

\* The use case that saves reads the whole row, changes its part and writes
\* the whole row back: all else is lost if the reading has failed.
ReadProfile(t, ok) ==
  /\ tabs[t].pc \in {"setPhone", "setName"}
  /\ tabs' = [tabs EXCEPT ![t].pc = IF @ = "setName" THEN "name" ELSE "phone",
                          ![t].prof = IF ok THEN profile ELSE NoProfile]
  /\ Clash(~ok \/ Meets(t, OnProfile))
  /\ UNCHANGED <<user, profile, sessions, browser, revoker>>

\* Mutant of WriteProfile: what was not sent is emptied.
WriteProfile_Bare(t, ok) ==
  /\ tabs[t].pc \in {"phone", "name"}
  /\ IF ok
       THEN /\ profile' = [Bare EXCEPT !.phone = tabs[t].pc = "phone", !.named = tabs[t].pc = "name"]
            /\ Wants([wanted EXCEPT !.named = @ \/ tabs[t].pc = "name"])
       ELSE UNCHANGED <<profile, wanted>>
  /\ IF tabs[t].pc = "phone" THEN tabs' = [tabs EXCEPT ![t].pc = "in", ![t].prof = NoProfile] ELSE Rests(t)
  /\ UNCHANGED <<user, sessions, browser, revoker>>

\* UpdateProfile: the phone at a sign-in, where a failure is ignored, and the
\* rest when the user saves it.
WriteProfile(t, ok) ==
  /\ tabs[t].pc \in {"phone", "name"}
  /\ IF ok
       THEN LET old == IF tabs[t].prof.on THEN tabs[t].prof ELSE Bare IN
            /\ profile' = [old EXCEPT !.phone = @ \/ tabs[t].pc = "phone", !.named = @ \/ tabs[t].pc = "name"]
            /\ Wants([wanted EXCEPT !.named = @ \/ tabs[t].pc = "name"])
       ELSE UNCHANGED <<profile, wanted>>
  /\ IF tabs[t].pc = "phone" THEN tabs' = [tabs EXCEPT ![t].pc = "in", ![t].prof = NoProfile] ELSE Rests(t)
  /\ UNCHANGED <<user, sessions, browser, revoker>>

\* UpdateRole has read the row and writes it.
WriteRole(t, r) ==
  /\ tabs[t].pc = "role"
  /\ user' = [user EXCEPT !.role = r]
  /\ Wants([wanted EXCEPT !.role = r])
  /\ Rests(t)
  /\ UNCHANGED <<profile, sessions, browser, revoker>>

-----------------------------------------------------------------------------
(***************************************************************************)
(* Signing in                                                              *)
(***************************************************************************)
\* RegisterPhone: nobody has the address and the name.
Register(t) ==
  /\ tabs[t].pc = "idle" /\ ~user.on
  /\ Goes(t, "register")
  /\ UNCHANGED <<account, sessions, browser, revoker>>

\* The row is unique: one of two registrations fails.
CreateUser(t, r) ==
  /\ tabs[t].pc = "register"
  /\ IF user.on
       THEN Rests(t) /\ UNCHANGED account
       ELSE /\ user' = [on |-> TRUE, role |-> r]
            /\ Wants([wanted EXCEPT !.role = r])
            /\ tabs' = [tabs EXCEPT ![t].pc = "bare", ![t].new = TRUE]
            /\ UNCHANGED profile
  /\ UNCHANGED <<sessions, browser, revoker>>

\* An upsert of nothing, whose failure is ignored.
BareProfile(t, ok) ==
  /\ tabs[t].pc = "bare"
  /\ profile' = IF ok THEN Bare ELSE profile
  /\ Clash(profile.on \/ Meets(t, OnProfile))
  /\ Goes(t, "session")
  /\ UNCHANGED <<user, sessions, browser, revoker>>

\* LoginPhone: the row is read, and the password takes its time.
Login(t) ==
  /\ tabs[t].pc = "idle" /\ user.on
  /\ tabs' = [tabs EXCEPT ![t].pc = "stamp", ![t].role = user.role]
  /\ Clash(Meets(t, OnUser))
  /\ UNCHANGED <<user, profile, sessions, browser, revoker>>

\* The whole row is written for the time of the sign-in; a failure is ignored.
Stamp(t, ok) ==
  /\ tabs[t].pc = "stamp"
  /\ user' = IF ok THEN [user EXCEPT !.role = tabs[t].role] ELSE user
  /\ tabs' = [tabs EXCEPT ![t].pc = "session", ![t].role = AnyRole]
  /\ UNCHANGED <<profile, wanted, sessions, browser, revoker>>

\* GeneratePair and CreateSession.
NewToken(from) ==
  /\ made < MaxTokens
  /\ made' = made + 1
  /\ rows' = rows \cup {made + 1}
  /\ root' = [root EXCEPT ![made + 1] = IF from = NoToken THEN made + 1 ELSE root[from]]
  /\ UNCHANGED expired

CreateSession(t, ok) ==
  /\ tabs[t].pc = "session"
  /\ IF ok
       THEN NewToken(NoToken) /\ tabs' = [tabs EXCEPT
              ![t].pc = IF tabs[t].new THEN "setPhone" ELSE "needPhone", ![t].tok = made + 1, ![t].new = FALSE]
       ELSE Rests(t) /\ UNCHANGED sessions
  /\ UNCHANGED <<account, browser, revoker>>

\* The answer arrives, or is lost.
SignedIn(t, ok) ==
  LET b == Home[t] IN
  /\ tabs[t].pc = "in"
  /\ IF ok
       THEN /\ store' = [store EXCEPT ![b] = [access |-> TRUE, refresh |-> tabs[t].tok]]
            /\ expects' = [expects EXCEPT ![b] =
                 IF tabs[t].tok \notin rows \ expired \/ Refreshes(b) # {} THEN "any" ELSE "in"]
       ELSE UNCHANGED browser
  /\ Rests(t)
  /\ UNCHANGED <<account, sessions, revoker>>

\* The browser forgets the pair; the server is not told.
Logout(t) ==
  LET b == Home[t] IN
  /\ tabs[t].pc = "idle" /\ store[b] # NoPair
  /\ store' = [store EXCEPT ![b] = NoPair]
  /\ expects' = [expects EXCEPT ![b] = IF @ = "any" \/ Refreshes(b) # {} THEN "any" ELSE "out"]
  /\ UNCHANGED <<account, sessions, tabs, revoker>>

-----------------------------------------------------------------------------
(***************************************************************************)
(* Staying in                                                              *)
(***************************************************************************)
ExpireAccess(b) ==
  /\ store[b].access
  /\ store' = [store EXCEPT ![b].access = FALSE]
  /\ UNCHANGED <<account, sessions, tabs, revoker, expects>>

\* Nothing but the token's own time is looked at: the row stays.
ExpireRefresh(k) ==
  /\ k \in rows \ expired
  /\ expired' = expired \cup {k}
  /\ Disturb(Hit({k}))
  /\ UNCHANGED <<account, rows, root, made, store, tabs, revoker>>

\* A request: with an access token it is served, else it is refused.
Request(t, what) ==
  /\ tabs[t].pc \in {"idle", "again"}
  /\ what # "role" \/ user.on
  /\ IF store[Home[t]].access
       THEN CASE what = "name" -> Goes(t, "setName") /\ UNCHANGED wanted
              [] what = "role" -> Goes(t, "role") /\ Clash(Meets(t, OnUser))
              [] OTHER -> Rests(t) /\ UNCHANGED wanted
       ELSE Goes(t, IF tabs[t].pc = "again" THEN "unauthorized" ELSE "refused") /\ UNCHANGED wanted
  /\ UNCHANGED <<user, profile, sessions, browser, revoker>>

\* refreshAccessToken: one at a time in a tab, and nobody asks the other tab.
StartRefresh(t) ==
  LET b == Home[t] IN
  /\ tabs[t].pc = "refused"
  /\ IF store[b].refresh = NoToken
       THEN Goes(t, "unauthorized") /\ UNCHANGED expects
       ELSE /\ tabs' = [tabs EXCEPT ![t].pc = "find", ![t].tok = store[b].refresh]
            /\ Disturb(IF Refreshes(b) # {} THEN {b} ELSE {})
  /\ UNCHANGED <<account, sessions, store, revoker>>

\* Mutant of Find: a good signature is enough.
Find_BySignature(t) ==
  /\ tabs[t].pc = "find"
  /\ Goes(t, IF tabs[t].tok \notin expired THEN "found" ELSE "failed")
  /\ UNCHANGED <<account, sessions, browser, revoker>>

\* RefreshSession: the token is good and has a row.
Find(t) ==
  /\ tabs[t].pc = "find"
  /\ Goes(t, IF tabs[t].tok \in rows \ expired THEN "found" ELSE "failed")
  /\ UNCHANGED <<account, sessions, browser, revoker>>

\* An error is ignored: the old row stays beside the new one.
Rotate(t, ok) ==
  /\ tabs[t].pc = "found"
  /\ IF ok THEN Delete({tabs[t].tok}) ELSE UNCHANGED <<rows, expired>>
  /\ Goes(t, "rotated")
  /\ UNCHANGED <<account, root, made, browser, revoker>>

Recreate(t, ok) ==
  /\ tabs[t].pc = "rotated"
  /\ IF ok
       THEN NewToken(tabs[t].tok) /\ tabs' = [tabs EXCEPT ![t].pc = "created", ![t].tok = made + 1]
       ELSE Goes(t, "failed") /\ UNCHANGED sessions
  /\ Disturb(IF ok THEN {} ELSE {Home[t]})
  /\ UNCHANGED <<account, store, revoker>>

\* The network gives up on a refresh, wherever the server is with it, which
\* stops there: its statements are the request's.
Drop(t) ==
  /\ tabs[t].pc \in {"find", "found", "rotated", "created"}
  /\ Goes(t, "failed")
  /\ Disturb({Home[t]})
  /\ UNCHANGED <<account, sessions, store, revoker>>

\* Mutant of Settle: the access token is kept, and the refresh token that was
\* used up as well.
Settle_AccessOnly(t) ==
  LET b == Home[t] IN
  /\ tabs[t].pc \in {"created", "failed"}
  /\ store' = [store EXCEPT ![b] =
       IF tabs[t].pc = "failed" THEN NoPair ELSE [access |-> TRUE, refresh |-> @.refresh]]
  /\ tabs' = [tabs EXCEPT ![t] = [Idle EXCEPT !.pc = IF tabs[t].pc = "failed" THEN "unauthorized" ELSE "again"]]
  /\ UNCHANGED <<account, sessions, revoker, expects>>

\* The new pair is stored, and the request made again; on any failure both
\* tokens go, whoever has stored them.
Settle(t) ==
  LET b == Home[t] IN
  /\ tabs[t].pc \in {"created", "failed"}
  /\ store' = [store EXCEPT ![b] =
       IF tabs[t].pc = "failed" THEN NoPair ELSE [access |-> TRUE, refresh |-> tabs[t].tok]]
  /\ tabs' = [tabs EXCEPT ![t] = [Idle EXCEPT !.pc = IF tabs[t].pc = "failed" THEN "unauthorized" ELSE "again"]]
  /\ UNCHANGED <<account, sessions, revoker, expects>>

\* The request fails.  The guard of the sign-in page then clears the tokens,
\* once more, and those that another tab has stored since.
Unauthorized(t, guard) ==
  LET b == Home[t] IN
  /\ tabs[t].pc = "unauthorized"
  /\ store' = IF guard THEN [store EXCEPT ![b] = NoPair] ELSE store
  /\ Disturb(IF guard /\ store[b] # NoPair THEN {b} ELSE {})
  /\ Rests(t)
  /\ UNCHANGED <<account, sessions, revoker>>

-----------------------------------------------------------------------------
(***************************************************************************)
(* Revoking                                                                *)
(***************************************************************************)
\* DeleteSession: a row of the user's by its id.
Revoke(k) ==
  /\ k \in rows
  /\ Delete({k})
  /\ Disturb(Hit({k}))
  /\ UNCHANGED <<account, root, made, store, tabs, revoker>>

\* DeleteAllSessionsExcept: the row of the token that the caller sends is
\* found, and then all others go.
FindOwn(t) ==
  /\ revoker = NoToken
  /\ store[Home[t]].access /\ store[Home[t]].refresh \in rows
  /\ revoker' = store[Home[t]].refresh
  /\ UNCHANGED <<account, sessions, browser, tabs>>

RevokeOthers ==
  /\ revoker # NoToken
  /\ Delete(rows \ {revoker})
  /\ Disturb(Hit(rows \ {revoker}))
  /\ revoker' = NoToken
  /\ UNCHANGED <<account, root, made, store, tabs>>

-----------------------------------------------------------------------------
SignIn(t) ==
  \/ Register(t) \/ Login(t)
  \/ \E r \in Roles : CreateUser(t, r)
  \/ \E ok \in BOOLEAN : BareProfile(t, ok) \/ Stamp(t, ok) \/ CreateSession(t, ok) \/ SignedIn(t, ok)

Refresh(t) ==
  \/ StartRefresh(t) \/ Find(t) \/ Drop(t) \/ Settle(t)
  \/ \E ok \in BOOLEAN : Rotate(t, ok) \/ Recreate(t, ok) \/ Unauthorized(t, ok)

Next ==
  \/ \E t \in Tabs :
       \/ SignIn(t) \/ Refresh(t) \/ Logout(t) \/ FindOwn(t)
       \/ NeedsPhone(t) \/ \E ok \in BOOLEAN : ReadProfile(t, ok) \/ WriteProfile(t, ok)
       \/ \E r \in Roles : WriteRole(t, r)
       \/ \E what \in {"role", "name", "read"} : Request(t, what)
  \/ \E b \in Browsers : ExpireAccess(b)
  \/ \E k \in Tokens : ExpireRefresh(k) \/ Revoke(k)
  \/ RevokeOthers

Spec == Init /\ [][Next]_vars

-----------------------------------------------------------------------------
(***************************************************************************)
(* Properties                                                              *)
(***************************************************************************)

\* A sign-in that is over stays over: when no session of it is left and no
\* refresh is past looking for one, no token, however old and in whichever
\* tab, brings it back (RefreshSession, DeleteSession).
Over(k) ==
  /\ k <= made
  /\ \A r \in rows : root[r] # k
  /\ \A t \in Tabs : tabs[t].pc \in {"found", "rotated"} => root[tabs[t].tok] # k

OverIsOver == [][\A k \in Tokens : (Over(k) /\ root[k] = k) => Over(k)']_vars

\* Nobody is signed out for nothing, nor left with a token that will not do:
\* a browser whose tabs did not refresh at once, and that met no failure, no
\* revocation and no end of its time, holds a live token exactly if its user
\* is signed in (refreshAccessToken, RefreshSession).
StaysIn ==
  \A b \in Browsers :
    /\ expects[b] = "out" => store[b].refresh = NoToken
    /\ expects[b] = "in" =>
         /\ store[b].refresh # NoToken
         /\ \/ store[b].refresh \in rows
            \/ \E t \in Refreshes(b) : root[tabs[t].tok] = root[store[b].refresh]

\* What the user has changed stays: unless two have changed the account at
\* once, no later sign-in and no other part of the row undoes it
\* (LoginUser, UpdateRole, UpdateProfile).
AccountKept ==
  wanted.sure /\ user.on =>
    /\ user.role = wanted.role
    /\ wanted.named => profile.named

=============================================================================
