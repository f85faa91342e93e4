------------------------------ MODULE Sessions ------------------------------
(***************************************************************************)
(* Sign-in sessions and the accounts behind them: the refresh tokens of    *)
(* auth/tokens.js, the handlers of api/auth.js and api/users.js that issue, *)
(* rotate and revoke them, the browser that holds one in a cookie, and the *)
(* retention pass that deletes their rows.  Every awaited statement of a    *)
(* handler is one action; requests interleave, and a request may end       *)
(* between two statements (Drop).                                          *)
(***************************************************************************)
EXTENDS Integers, FiniteSets

CONSTANTS
    Users,          \* rows of users, all of one workspace
    Browsers,       \* cookie jars; the tabs of one browser share it
    Slots,          \* requests the server carries at once
    Tokens,         \* random refresh tokens, never issued twice
    ServiceAdmin,   \* an admin service account: no row of users
    FirstAdmins,    \* active admins at the start
    FirstEditors,   \* active editors at the start; the others do not exist yet
    Visitors,       \* bound: the users that sign in
    MaxEdits,       \* bound: requests of admins
    None

ASSUME NamesAreDistinct ==
    /\ None \notin Users \cup Browsers \cup Tokens
    /\ ServiceAdmin \notin Users
    /\ FirstAdmins \subseteq Users /\ FirstEditors \subseteq Users \ FirstAdmins
    /\ Visitors \subseteq Users

VARIABLES
    user,       \* users: role and status
    row,        \* refresh_tokens; root, epoch and late are history
    cookie,     \* the daisy_rt cookie of each browser
    req,        \* what each request knows and where it stands
    epoch,      \* history: how often an account's sessions were ended
    tangled,    \* history: accounts whose exchanges overlapped or were lost
    edits,      \* bound: requests of admins so far
    crossed     \* history: two of them have overlapped

vars == <<user, row, cookie, req, epoch, tangled, edits, crossed>>

Roles == {"admin", "editor"}
Statuses == {"active", "disabled"}

Idle == [op |-> "none", at |-> "idle", browser |-> None, user |-> None, tok |-> None,
         new |-> None, seen |-> 0, role |-> None, status |-> None]

FreeRow == [st |-> "free", user |-> None, next |-> None, expired |-> FALSE,
            root |-> None, epoch |-> 0, late |-> FALSE]

InFlight(s) == req[s].op # "none"
Live(t) == row[t].st = "live"
ActiveAdmins == {u \in Users : user[u].role = "admin" /\ user[u].status = "active"}

Init ==
    /\ user = [u \in Users |->
                  [role |-> IF u \in FirstAdmins THEN "admin" ELSE "editor",
                   status |-> IF u \in FirstAdmins \cup FirstEditors
                              THEN "active" ELSE "absent"]]
    /\ row = [t \in Tokens |-> FreeRow]
    /\ cookie = [b \in Browsers |-> None]
    /\ req = [s \in Slots |-> Idle]
    /\ epoch = [u \in Users |-> 0]
    /\ tangled = {}
    /\ edits = 0
    /\ crossed = FALSE

Step(s, r) == req' = [req EXCEPT ![s] = r]
Goes(s, at) == Step(s, [req[s] EXCEPT !.at = at])

\* UPDATE refresh_tokens SET revoked_at = NOW() WHERE user_id = u AND revoked_at IS NULL
RevokeAll(u) == [t \in Tokens |->
    IF Live(t) /\ row[t].user = u THEN [row[t] EXCEPT !.st = "revoked"] ELSE row[t]]

(***************************************************************************)
(* History.  An account is tangled by two exchanges at once over its cookies *)
(* and by a lost answer.                                                    *)
(***************************************************************************)
Owner(t) == IF t = None THEN {} ELSE {row[t].user}
TangledBySending(t) ==
    {u \in Owner(t) : \E s \in Slots : InFlight(s) /\ u \in Owner(req[s].tok)}

(***************************************************************************)
(* Signing in: POST /auth/login and the SSO callbacks read the account,     *)
(* then issue a token that has no predecessor.                              *)
(***************************************************************************)
LookUp(s, b, u) ==
    /\ ~InFlight(s)
    /\ user[u].status = "active"
    /\ Step(s, [Idle EXCEPT !.op = "login", !.at = "checked", !.browser = b,
                            !.user = u, !.seen = epoch[u]])
    /\ UNCHANGED <<user, row, cookie, epoch, tangled, edits, crossed>>

\* issueRefreshToken, first statement.  A rotated token belongs to the
\* sign-in of its predecessor; it is late when the account's sessions were
\* ended after its request had looked.
NewRow(s, t) ==
    LET r == req[s]
        fresh == [FreeRow EXCEPT !.st = "live", !.user = r.user]
        behind == r.seen # epoch[r.user] IN
    IF r.tok = None
    THEN [fresh EXCEPT !.root = t, !.epoch = r.seen, !.late = behind]
    ELSE [fresh EXCEPT !.root = row[r.tok].root, !.epoch = row[r.tok].epoch,
                       !.late = behind \/ row[r.tok].late]

Insert(s, t) ==
    /\ req[s].at = "checked"
    /\ row[t].st = "free"
    /\ row' = [row EXCEPT ![t] = NewRow(s, t)]
    /\ Step(s, [req[s] EXCEPT !.new = t,
                              !.at = IF req[s].op = "refresh" THEN "inserted" ELSE "done"])
    /\ UNCHANGED <<user, cookie, epoch, tangled, edits, crossed>>

(***************************************************************************)
(* POST /auth/refresh: the page asks for a new access token with the cookie *)
(* it has now, on every 401 and on every load, without waiting for a        *)
(* refresh that another tab or request has under way.                       *)
(***************************************************************************)
Send(s, b, op) ==
    /\ op \in {"refresh", "logout"}
    /\ ~InFlight(s)
    /\ cookie[b] # None
    /\ Step(s, [Idle EXCEPT !.op = op, !.at = "sent", !.browser = b, !.tok = cookie[b]])
    /\ tangled' = tangled \cup TangledBySending(cookie[b])
    /\ UNCHANGED <<user, row, cookie, epoch, edits, crossed>>

\* consumeRefreshToken: the SELECT decides; a row that was rotated is a replay.
MutConsume(s) ==
    /\ req[s].op = "refresh" /\ req[s].at = "sent"
    /\ LET r == row[req[s].tok]
           owned == [req[s] EXCEPT !.user = r.user, !.seen = epoch[r.user]] IN
       Step(s, [owned EXCEPT !.at =
            IF r.next # None THEN "replayed" ELSE IF r.expired THEN "refused" ELSE "consumed"])
    /\ UNCHANGED <<user, row, cookie, epoch, tangled, edits, crossed>>

Consume(s) ==
    /\ req[s].op = "refresh" /\ req[s].at = "sent"
    /\ LET r == row[req[s].tok]
           owned == [req[s] EXCEPT !.user = r.user, !.seen = epoch[r.user]] IN
       Step(s, [owned EXCEPT !.at =
            IF r.next # None THEN "replayed"
            ELSE IF r.st # "live" \/ r.expired THEN "refused" ELSE "consumed"])
    /\ UNCHANGED <<user, row, cookie, epoch, tangled, edits, crossed>>

\* The replay ends every session of the account.
Burn(s) ==
    /\ req[s].at = "replayed"
    /\ row' = RevokeAll(req[s].user)
    /\ Goes(s, "refused")
    /\ UNCHANGED <<user, cookie, epoch, tangled, edits, crossed>>

CheckUser(s) ==
    /\ req[s].at = "consumed"
    /\ Goes(s, IF user[req[s].user].status = "active" THEN "checked" ELSE "refused")
    /\ UNCHANGED <<user, row, cookie, epoch, tangled, edits, crossed>>

\* issueRefreshToken, second statement: WHERE id = predecessor AND revoked_at IS NULL.
MutRotate(s) ==
    /\ req[s].at = "inserted"
    /\ row' = [row EXCEPT ![req[s].tok].next = req[s].new]
    /\ Goes(s, "done")
    /\ UNCHANGED <<user, cookie, epoch, tangled, edits, crossed>>

Rotate(s) ==
    /\ req[s].at = "inserted"
    /\ row' = IF Live(req[s].tok)
              THEN [row EXCEPT ![req[s].tok].st = "revoked", ![req[s].tok].next = req[s].new]
              ELSE row
    /\ Goes(s, "done")
    /\ UNCHANGED <<user, cookie, epoch, tangled, edits, crossed>>

\* POST /auth/logout: revokes the row of the presented token, if it is live.
Logout(s) ==
    /\ req[s].op = "logout" /\ req[s].at = "sent"
    /\ row' = IF Live(req[s].tok) THEN [row EXCEPT ![req[s].tok].st = "revoked"] ELSE row
    /\ Goes(s, "refused")
    /\ UNCHANGED <<user, cookie, epoch, tangled, edits, crossed>>

\* The answer sets or clears the cookie of the browser, whatever it holds by
\* now.
MutRespond(s) ==
    /\ req[s].at \in {"done", "refused"}
    /\ cookie' = [cookie EXCEPT ![req[s].browser] =
                      IF req[s].at = "refused" THEN None
                      ELSE IF req[s].op = "login" THEN req[s].new ELSE @]
    /\ Step(s, Idle)
    /\ UNCHANGED <<user, row, epoch, tangled, edits, crossed>>

Respond(s) ==
    /\ req[s].at \in {"done", "refused"}
    /\ cookie' = [cookie EXCEPT ![req[s].browser] =
                      IF req[s].at = "done" THEN req[s].new ELSE None]
    /\ Step(s, Idle)
    /\ UNCHANGED <<user, row, epoch, tangled, edits, crossed>>

(***************************************************************************)
(* Time: a token outlives its thirty days, and the retention pass deletes   *)
(* rows thirty days later, oldest first: a predecessor before what it was   *)
(* rotated to, and when no request has them in hand and no browser either,  *)
(* since the cookie lives as long as the token.                             *)
(***************************************************************************)
Expire(t) ==
    /\ Live(t) /\ ~row[t].expired
    /\ row' = [row EXCEPT ![t].expired = TRUE]
    /\ UNCHANGED <<user, cookie, req, epoch, tangled, edits, crossed>>

Prune(t) ==
    /\ row[t].st = "revoked" \/ (Live(t) /\ row[t].expired)
    /\ \A p \in Tokens : row[p].st = "pruned" \/ row[p].next # t
    /\ \A s \in Slots : t \notin {req[s].tok, req[s].new}
    /\ \A b \in Browsers : cookie[b] # t
    /\ row' = [row EXCEPT ![t] = [FreeRow EXCEPT !.st = "pruned"]]
    /\ UNCHANGED <<user, cookie, req, epoch, tangled, edits, crossed>>

(***************************************************************************)
(* api/users.js: an admin creates, edits, disables accounts and resets      *)
(* passwords.  PUT /:id and DELETE /:id are one handler with different      *)
(* bodies; DELETE sets the status and leaves the role.                      *)
(***************************************************************************)
Authorise(s, a) ==
    /\ ~InFlight(s)
    /\ a \in ActiveAdmins \cup {ServiceAdmin}
    /\ Step(s, [Idle EXCEPT !.op = "edit", !.at = "authorised", !.user = a])
    /\ edits < MaxEdits
    /\ edits' = edits + 1
    /\ crossed' = (crossed \/ \E o \in Slots : req[o].op = "edit")
    /\ UNCHANGED <<user, row, cookie, epoch, tangled>>

Create(s, u, role) ==
    /\ req[s].at = "authorised"
    /\ user[u].status = "absent"
    /\ user' = [user EXCEPT ![u] = [role |-> role, status |-> "active"]]
    /\ Step(s, Idle)
    /\ UNCHANGED <<row, cookie, epoch, tangled, edits, crossed>>

\* loadUser and the checks on its row.  An edit that takes an admin's power
\* goes on to count the others.
TakesPower(u, role, status) ==
    user[u].role = "admin" /\ (role = "editor" \/ status = "disabled")

LoadTarget(s, u, role, status) ==
    /\ req[s].at = "authorised"
    /\ user[u].status # "absent"
    /\ u # req[s].user
    /\ role # None \/ status # None
    /\ Step(s, [req[s] EXCEPT !.user = u, !.role = role, !.status = status,
                   !.at = IF TakesPower(u, role, status) THEN "posture" ELSE "cleared"])
    /\ UNCHANGED <<user, row, cookie, epoch, tangled, edits, crossed>>

\* countOtherActiveAdmins
MutCountOthers(s) ==
    /\ req[s].at = "posture"
    /\ IF ActiveAdmins = {} THEN Step(s, Idle) ELSE Goes(s, "cleared")
    /\ UNCHANGED <<user, row, cookie, epoch, tangled, edits, crossed>>

CountOthers(s) ==
    /\ req[s].at = "posture"
    /\ IF ActiveAdmins \ {req[s].user} = {} THEN Step(s, Idle) ELSE Goes(s, "cleared")
    /\ UNCHANGED <<user, row, cookie, epoch, tangled, edits, crossed>>

UpdateUser(s) ==
    LET r == req[s] IN
    /\ r.at = "cleared"
    /\ user' = [user EXCEPT ![r.user] =
                  [role |-> IF r.role = None THEN @.role ELSE r.role,
                   status |-> IF r.status = None THEN @.status ELSE r.status]]
    /\ IF r.status = "disabled" THEN Goes(s, "updated") ELSE Step(s, Idle)
    /\ UNCHANGED <<row, cookie, epoch, tangled, edits, crossed>>

\* POST /:id/password, one's own included: the new hash is stored, then the
\* sessions end.  The password itself is not modelled.
ResetPassword(s, u) ==
    /\ req[s].at = "authorised"
    /\ user[u].status # "absent"
    /\ Step(s, [req[s] EXCEPT !.user = u, !.at = "updated"])
    /\ UNCHANGED <<user, row, cookie, epoch, tangled, edits, crossed>>

EndSessions(s) ==
    LET u == req[s].user IN
    /\ req[s].at = "updated"
    /\ row' = RevokeAll(u)
    /\ epoch' = [epoch EXCEPT ![u] = @ + 1]
    /\ Step(s, Idle)
    /\ UNCHANGED <<user, cookie, tangled, edits, crossed>>

(***************************************************************************)
(* A request ends early: a statement fails, the connection breaks, the      *)
(* process dies.                                                           *)
(***************************************************************************)
Drop(s) ==
    /\ InFlight(s)
    /\ Step(s, Idle)
    /\ tangled' = IF req[s].at \in {"inserted", "done", "refused"}
                  THEN tangled \cup Owner(req[s].tok) ELSE tangled
    /\ UNCHANGED <<user, row, cookie, epoch, edits, crossed>>

Handler(s) ==
    \/ Consume(s) \/ Burn(s) \/ CheckUser(s) \/ Rotate(s) \/ Logout(s) \/ Respond(s)
    \/ CountOthers(s) \/ UpdateUser(s) \/ EndSessions(s)
    \/ \E t \in Tokens : Insert(s, t)

Client(s) ==
    \/ \E b \in Browsers : \E u \in Visitors : LookUp(s, b, u)
    \/ \E b \in Browsers : \E op \in {"refresh", "logout"} : Send(s, b, op)
    \/ \E a \in Users \cup {ServiceAdmin} : Authorise(s, a)
    \/ \E u \in Users : \E role \in Roles : Create(s, u, role)
    \/ \E u \in Users : \E role \in Roles \cup {None} :
          \E status \in Statuses \cup {None} : LoadTarget(s, u, role, status)
    \/ \E u \in Users : ResetPassword(s, u)

Next ==
    \/ \E s \in Slots : Handler(s) \/ Client(s) \/ Drop(s)
    \/ \E t \in Tokens : Expire(t) \/ Prune(t)

Spec == Init /\ [][Next]_vars

-----------------------------------------------------------------------------
(***************************************************************************)
(* Properties                                                              *)
(***************************************************************************)

\* Disabling an account or resetting its password ends every session opened
\* before: what outlives it is a token whose request had passed its check
\* when the sessions were ended, and what was rotated from that token.
EndedSessionsStayEnded ==
    \A t \in Tokens : Live(t) => row[t].late \/ row[t].epoch = epoch[row[t].user]

\* One sign-in has one live token, two only between the INSERT of a successor
\* and the UPDATE of its predecessor, as long as the account's exchanges do
\* not overlap and no answer is lost.
OneTokenPerSignIn ==
    \A t, o \in Tokens :
        (Live(t) /\ Live(o) /\ t # o /\ row[t].root = row[o].root
           /\ row[t].user \notin tangled)
        => \E s \in Slots : req[s].at = "inserted" /\ {t, o} = {req[s].tok, req[s].new}

\* Rotation and replay detection never sign out a user who did nothing
\* unusual: a cookie at rest names a live token until it expires or an
\* admin ends the account's sessions.
CookieStaysGood ==
    \A b \in Browsers :
        LET r == row[cookie[b]] IN
        (cookie[b] # None /\ r.user \notin tangled
           /\ \A s \in Slots : req[s].browser # b)
        => r.st = "live" \/ r.expired \/ r.epoch # epoch[r.user]

\* Safety rail of api/users.js: the workspace keeps an active admin, unless
\* two edits overlapped.
AnAdminRemains == FirstAdmins # {} => ActiveAdmins # {} \/ crossed
=============================================================================
