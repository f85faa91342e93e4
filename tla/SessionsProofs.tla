---------------------------- MODULE SessionsProofs ----------------------------
(***************************************************************************)
(* What sessions and accounts promise holds for every number of users,      *)
(* browsers, tokens and concurrent requests.                                *)
(***************************************************************************)
EXTENDS Sessions, TLAPS

-----------------------------------------------------------------------------
(***************************************************************************)
(* The inductive invariant, in named parts.                                *)
(***************************************************************************)
UserType == [role : Roles, status : Statuses \cup {"absent"}]
RowType == [st : {"free", "live", "revoked", "pruned"}, user : Users \cup {None},
            next : Tokens \cup {None}, expired : BOOLEAN, root : Tokens \cup {None},
            epoch : Nat, late : BOOLEAN]
Ops == {"none", "login", "refresh", "logout", "edit"}
Places == {"idle", "sent", "replayed", "consumed", "checked", "inserted", "done", "refused",
           "authorised", "posture", "cleared", "updated"}
ReqType == [op : Ops, at : Places, browser : Browsers \cup {None},
            user : Users \cup {ServiceAdmin, None}, tok : Tokens \cup {None},
            new : Tokens \cup {None}, seen : Nat, role : Roles \cup {None},
            status : Statuses \cup {None}]

\* Every variable keeps its type.
TypeOK ==
  /\ user \in [Users -> UserType]
  /\ row \in [Tokens -> RowType]
  /\ cookie \in [Browsers -> Tokens \cup {None}]
  /\ req \in [Slots -> ReqType]
  /\ epoch \in [Users -> Nat]
  /\ tangled \subseteq Users
  /\ edits \in Nat /\ crossed \in BOOLEAN

Issued(t) == t \in Tokens /\ row[t].st \in {"live", "revoked"}

\* An issued row names its account and its sign-in; a sign-in is of one account.
RowSound(t) ==
  Issued(t) =>
    /\ row[t].user \in Users /\ row[t].epoch <= epoch[row[t].user]
    /\ row[t].root \in Tokens /\ row[row[t].root].st # "free"
    /\ row[t].next # None => row[t].st = "revoked"
    /\ \A o \in Tokens : Issued(o) /\ row[o].root = row[t].root => row[o].user = row[t].user

\* What a request knows at each place it may stand.
RequestSound(s) ==
  /\ req[s].op = "none" => req[s] = Idle
  /\ req[s].op = "login" => /\ req[s].at \in {"checked", "done"} /\ req[s].tok = None
                            /\ req[s].user \in Users /\ req[s].seen <= epoch[req[s].user]
                            /\ req[s].browser \in Browsers
  /\ req[s].op \in {"refresh", "logout"} => Issued(req[s].tok) /\ req[s].browser \in Browsers
  /\ req[s].op = "refresh" =>
       /\ req[s].at \in {"sent", "replayed", "consumed", "checked", "inserted", "done", "refused"}
       /\ req[s].at \notin {"sent", "refused"} =>
            req[s].user = row[req[s].tok].user /\ req[s].seen <= epoch[req[s].user]
  /\ req[s].op = "logout" => req[s].at \in {"sent", "refused"}
  /\ req[s].op = "edit" => /\ req[s].at \in {"authorised", "posture", "cleared", "updated"}
                           /\ req[s].tok = None
                           /\ req[s].at # "authorised" => req[s].user \in Users
  /\ req[s].at \in {"inserted", "done"} => Issued(req[s].new)
  /\ req[s].at \notin {"inserted", "done"} => req[s].new = None

\* No two places hold one token, but a cookie and the requests sent with it.
TokensApart ==
  /\ \A b \in Browsers : cookie[b] # None =>
       /\ Issued(cookie[b])
       /\ \A c \in Browsers : cookie[c] = cookie[b] => c = b
       /\ \A s \in Slots : req[s].tok = cookie[b] => req[s].browser = b
  /\ \A s \in Slots : req[s].new # None =>
       /\ \A b \in Browsers : cookie[b] # req[s].new
       /\ \A o \in Slots : req[o].tok # req[s].new /\ (o # s => req[o].new # req[s].new)

\* An account that is not tangled has one exchange at a time.
OneExchange ==
  \A s, o \in Slots :
    s # o /\ req[s].tok # None /\ req[o].tok # None /\ row[req[s].tok].user = row[req[o].tok].user
      => row[req[s].tok].user \in tangled

Sound == TypeOK /\ (\A t \in Tokens : RowSound(t)) /\ (\A s \in Slots : RequestSound(s))
           /\ TokensApart /\ OneExchange

\* A token that is being exchanged was opened in the epoch its request has seen.
EndedInv ==
  /\ EndedSessionsStayEnded
  /\ \A s \in Slots : req[s].op = "refresh" /\ req[s].at \in {"consumed", "checked"} =>
       row[req[s].tok].late \/ row[req[s].tok].epoch = req[s].seen

\* While a token is exchanged, its sign-in has no other live one.
OnlyLive(s) ==
  req[s].op = "refresh" /\ req[s].at \in {"consumed", "checked", "inserted"}
    /\ row[req[s].tok].user \notin tangled =>
    \A o \in Tokens : Live(o) /\ row[o].root = row[req[s].tok].root => o \in {req[s].tok, req[s].new}
SingleInv == OneTokenPerSignIn /\ \A s \in Slots : OnlyLive(s)

\* A cookie is good, or the answer that replaces it is on its way.
Good(t) == row[t].st = "live" \/ row[t].expired \/ row[t].epoch # epoch[row[t].user]
CookieKept(b) ==
  cookie[b] # None /\ row[cookie[b]].user \notin tangled =>
    /\ \/ Good(cookie[b])
       \/ \E s \in Slots : req[s].tok = cookie[b] /\ req[s].at \in {"done", "refused"}
    /\ row[cookie[b]].next # None => \E s \in Slots : req[s].tok = cookie[b] /\ req[s].at = "done"
\* And so is what an answer carries; a replay is of a tangled account.
AnswerKept(s) ==
  /\ req[s].new # None =>
       /\ row[req[s].new].next = None
       /\ row[req[s].new].user \notin tangled => Good(req[s].new)
  /\ req[s].op = "refresh" /\ req[s].at = "sent" /\ row[req[s].tok].user \notin tangled
       => row[req[s].tok].next = None
  /\ req[s].at = "replayed" => req[s].user \in tangled
CookieInv == (\A b \in Browsers : CookieKept(b)) /\ (\A s \in Slots : AnswerKept(s))

\* Edits that do not overlap look at the users they change.
AdminInv ==
  /\ AnAdminRemains
  /\ ~crossed =>
       /\ \A s, o \in Slots : req[s].op = "edit" /\ req[o].op = "edit" => s = o
       /\ \A s \in Slots : req[s].at = "cleared" =>
            \/ ~TakesPower(req[s].user, req[s].role, req[s].status)
            \/ ActiveAdmins \ {req[s].user} # {}

IInv == Sound /\ EndedInv /\ SingleInv /\ CookieInv /\ AdminInv

-----------------------------------------------------------------------------
(***************************************************************************)
(* Steps that issue no token and clear no cookie.                          *)
(***************************************************************************)

\* No row changes its account, its sign-in or its epoch, nor becomes issued or free.
RowsKept ==
  \A t \in Tokens :
    /\ row'[t].user = row[t].user /\ row'[t].root = row[t].root
    /\ row'[t].epoch = row[t].epoch /\ row'[t].late = row[t].late
    /\ row'[t].st = row[t].st \/ (row[t].st = "live" /\ row'[t].st = "revoked")
    /\ row'[t].next = row[t].next \/ row'[t].st = "revoked"

OthersWait(s) == \A o \in Slots \ {s} : req'[o] = req[o]

\* The request keeps its token, or has none, or takes the cookie of its browser.
TokenKept(s) ==
  \/ req'[s].tok = req[s].tok /\ req'[s].browser = req[s].browser
      /\ req'[s].new \in {req[s].new, None}
  \/ req'[s].tok = None /\ req'[s].new = None
  \/ \E b \in Browsers :
       /\ cookie[b] # None /\ req'[s].tok = cookie[b] /\ req'[s].browser = b
       /\ req'[s].new = None /\ TangledBySending(cookie[b]) \subseteq tangled'

\* The request touches no token, or loses the one it carries.
Quiet(s) ==
  /\ OthersWait(s) /\ UNCHANGED <<row, cookie, epoch>> /\ tangled \subseteq tangled'
  /\ req'[s].tok = None /\ req'[s].new = None /\ req'[s].op # "refresh"
  /\ req[s].at \in {"inserted", "done", "refused"} => Owner(req[s].tok) \subseteq tangled'

\* Such a step keeps rows and requests sound.
LEMMA SoundStep ==
  ASSUME Sound, TypeOK', RowsKept, cookie' = cookie, \A u \in Users : epoch[u] <= epoch'[u],
         tangled \subseteq tangled', NEW s, OthersWait(s),
         s \in Slots => TokenKept(s) /\ RequestSound(s)'
  PROVE  Sound'
<1>1. \A t \in Tokens : Issued(t)' <=> Issued(t)
  BY DEF Sound, RowsKept, Issued
<1>2. ASSUME NEW t \in Tokens PROVE RowSound(t)'
  <2>1. SUFFICES ASSUME Issued(t)
                 PROVE  /\ row'[t].user \in Users /\ row'[t].epoch <= epoch'[row'[t].user]
                        /\ row'[t].root \in Tokens /\ row'[row'[t].root].st # "free"
                        /\ row'[t].next # None => row'[t].st = "revoked"
                        /\ \A o \in Tokens : Issued(o) /\ row'[o].root = row'[t].root
                                            => row'[o].user = row'[t].user
    BY <1>1 DEF RowSound
  <2>2. /\ row[t].user \in Users /\ row[t].epoch <= epoch[row[t].user]
        /\ row[t].root \in Tokens /\ row[row[t].root].st # "free"
        /\ row[t].next # None => row[t].st = "revoked"
        /\ \A o \in Tokens : Issued(o) /\ row[o].root = row[t].root => row[o].user = row[t].user
    BY <2>1 DEF Sound, RowSound
  <2>3. row'[t].user \in Users /\ row'[t].root \in Tokens /\ row'[row'[t].root].st # "free"
    BY <2>2 DEF RowsKept
  <2>4. row'[t].epoch <= epoch'[row'[t].user]
    <3>1. row[t].epoch \in Nat /\ \A u \in Users : epoch[u] \in Nat /\ epoch'[u] \in Nat
      BY DEF Sound, TypeOK, RowType
    <3>2. row'[t].epoch = row[t].epoch /\ row'[t].user = row[t].user
      BY DEF RowsKept
    <3> QED  BY <2>2, <3>1, <3>2
  <2>5. row'[t].next # None => row'[t].st = "revoked"
    BY <2>2 DEF RowsKept
  <2> QED  BY <2>2, <2>3, <2>4, <2>5 DEF RowsKept
<1>3. ASSUME NEW o \in Slots, o # s PROVE RequestSound(o)'
  <2>1. req'[o] = req[o]
    BY <1>3 DEF OthersWait
  <2>2. Idle' = Idle
    BY DEF Idle
  <2>3. RequestSound(o)
    BY DEF Sound
  <2>4. req[o].op = "login" => req[o].seen <= epoch'[req[o].user]
    BY <2>3 DEF RequestSound, Sound, TypeOK, ReqType
  <2>5. req[o].op \in {"refresh", "logout"} => req[o].tok \in Tokens /\ row[req[o].tok].user \in Users
    BY <2>3 DEF RequestSound, Sound, RowSound, Issued
  <2>6. req[o].op \in {"refresh", "logout"} =>
          /\ row[req[o].tok].st \in {"live", "revoked"} /\ row'[req[o].tok].st \in {"live", "revoked"}
          /\ row'[req[o].tok].user = row[req[o].tok].user
    BY <2>3, <2>5 DEF RowsKept, RequestSound, Issued
  <2>7. req[o].op = "refresh" /\ req[o].at \notin {"sent", "refused"} =>
            req[o].user = row'[req[o].tok].user /\ req[o].seen <= epoch'[req[o].user]
    BY <2>3, <2>5, <2>6 DEF RequestSound, Sound, TypeOK, ReqType
  <2>8. req[o].at \in {"inserted", "done"} =>
          req[o].new \in Tokens /\ row'[req[o].new].st \in {"live", "revoked"}
    BY <2>3 DEF RowsKept, RequestSound, Issued
  <2> QED  BY <2>1, <2>2, <2>3, <2>4, <2>5, <2>6, <2>7, <2>8 DEF RequestSound, Issued
<1>4. TokensApart'
  <2>1. ASSUME NEW b \in Browsers, cookie'[b] # None
        PROVE  /\ cookie'[b] \in Tokens /\ row'[cookie'[b]].st \in {"live", "revoked"}
               /\ \A c \in Browsers : cookie'[c] = cookie'[b] => c = b
    BY <2>1 DEF Sound, TokensApart, Issued, RowsKept
  <2>2. ASSUME NEW b \in Browsers, cookie'[b] # None, NEW o \in Slots, req'[o].tok = cookie'[b]
        PROVE  req'[o].browser = b
    BY <2>2 DEF Sound, TokensApart, OthersWait, TokenKept
  <2>3. ASSUME NEW o \in Slots, req'[o].new # None PROVE req'[o].new = req[o].new
    BY <2>3 DEF OthersWait, TokenKept
  <2>4. ASSUME NEW o \in Slots, req'[o].new # None
        PROVE  \A b \in Browsers : cookie'[b] # req'[o].new
    BY <2>3, <2>4 DEF Sound, TokensApart
  <2>5. ASSUME NEW o \in Slots, req'[o].new # None, NEW p \in Slots
        PROVE  req'[p].tok # req'[o].new /\ (p # o => req'[p].new # req'[o].new)
    <3>1. /\ req[p].tok # req[o].new /\ (p # o => req[p].new # req[o].new)
          /\ \A b \in Browsers : cookie[b] # req[o].new
      BY <2>3, <2>5 DEF Sound, TokensApart
    <3>2. req'[p].tok # req'[o].new
      BY <2>3, <2>5, <3>1 DEF OthersWait, TokenKept
    <3>3. p # o => req'[p].new # req'[o].new
      BY <2>3, <2>5, <3>1
    <3> QED  BY <3>2, <3>3
  <2> QED  BY <2>1, <2>2, <2>4, <2>5 DEF TokensApart, Issued
<1>5. OneExchange'
  <2>1. \A o \in Slots : req[o].tok # None => InFlight(o) /\ req[o].tok \in Tokens
    BY DEF Sound, RequestSound, InFlight, Idle, TypeOK, ReqType
  <2>2. SUFFICES ASSUME NEW o \in Slots, s \in Slots, o # s, req[o].tok # None, req'[s].tok # None,
                        row'[req'[s].tok].user = row'[req[o].tok].user
                 PROVE  row'[req[o].tok].user \in tangled'
    <3>1. ASSUME NEW o \in Slots, NEW p \in Slots, o # p, o # s, p # s,
                 req'[o].tok # None, req'[p].tok # None,
                 row'[req'[o].tok].user = row'[req'[p].tok].user
          PROVE  row'[req'[o].tok].user \in tangled'
      BY <2>1, <3>1 DEF Sound, OneExchange, OthersWait, RowsKept
    <3> QED  BY <2>2, <3>1 DEF OneExchange, OthersWait
  <2>3. row'[req[o].tok].user = row[req[o].tok].user
    BY <2>1, <2>2 DEF RowsKept
  <2>4. CASE req'[s].tok = req[s].tok
    <3>1. row'[req[s].tok].user = row[req[s].tok].user
      BY <2>1, <2>2, <2>4 DEF RowsKept
    <3>2. row[req[o].tok].user \in tangled
      BY <2>2, <2>3, <2>4, <3>1 DEF Sound, OneExchange
    <3> QED  BY <2>3, <3>2
  <2>5. CASE \E b \in Browsers : /\ cookie[b] # None /\ req'[s].tok = cookie[b]
                                 /\ TangledBySending(cookie[b]) \subseteq tangled'
    <3>1. PICK b \in Browsers : /\ cookie[b] # None /\ req'[s].tok = cookie[b]
                                /\ TangledBySending(cookie[b]) \subseteq tangled'
      BY <2>5
    <3>2. row'[cookie[b]].user = row[cookie[b]].user
      BY <3>1 DEF Sound, TypeOK, RowsKept
    <3>3. row[cookie[b]].user = row[req[o].tok].user
      BY <2>2, <2>3, <3>1, <3>2
    <3>4. row[cookie[b]].user \in TangledBySending(cookie[b])
      BY <2>1, <2>2, <3>1, <3>3 DEF TangledBySending, Owner
    <3> QED  BY <2>3, <3>1, <3>3, <3>4
  <2> QED  BY <2>2, <2>4, <2>5 DEF TokenKept
<1> QED  BY <1>2, <1>3, <1>4, <1>5 DEF Sound

\* A step of a request leaves the others as they are.
LEMMA Steps ==
  ASSUME TypeOK, NEW s \in Slots, NEW r \in ReqType, Step(s, r)
  PROVE  req' \in [Slots -> ReqType] /\ req'[s] = r /\ OthersWait(s)
BY DEF TypeOK, Step, OthersWait

\* A request that goes on keeps everything but its place.
LEMMA GoesOn ==
  ASSUME TypeOK, NEW s \in Slots, NEW at \in Places, Goes(s, at)
  PROVE  /\ req' \in [Slots -> ReqType] /\ OthersWait(s)
         /\ req'[s].at = at /\ req'[s].op = req[s].op /\ req'[s].browser = req[s].browser
         /\ req'[s].user = req[s].user /\ req'[s].tok = req[s].tok /\ req'[s].new = req[s].new
         /\ req'[s].seen = req[s].seen /\ req'[s].role = req[s].role
         /\ req'[s].status = req[s].status
<1> DEFINE r == [req[s] EXCEPT !.at = at]
<1>1. req[s] \in ReqType
  BY DEF TypeOK
<1>2. /\ r \in ReqType /\ r.at = at /\ r.op = req[s].op /\ r.browser = req[s].browser
      /\ r.user = req[s].user /\ r.tok = req[s].tok /\ r.new = req[s].new
      /\ r.seen = req[s].seen /\ r.role = req[s].role /\ r.status = req[s].status
  BY <1>1 DEF ReqType
<1>3. Step(s, r)
  BY DEF Goes
<1> HIDE DEF r
<1>4. req' \in [Slots -> ReqType] /\ req'[s] = r /\ OthersWait(s)
  BY <1>2, <1>3, Steps
<1> QED  BY <1>2, <1>4

\* A request that ends forgets all it knew.
LEMMA Finishes ==
  ASSUME TypeOK, NEW s \in Slots, Step(s, Idle)
  PROVE  /\ req' \in [Slots -> ReqType] /\ req'[s] = Idle /\ OthersWait(s)
         /\ TokenKept(s) /\ RequestSound(s)'
<1>1. Idle \in ReqType /\ Idle' = Idle
  BY DEF Idle, ReqType, Ops, Places
<1>2. req' \in [Slots -> ReqType] /\ req'[s] = Idle /\ OthersWait(s)
  BY <1>1, Steps
<1> QED  BY <1>1, <1>2 DEF TokenKept, RequestSound, Idle

\* The end of an account's sessions revokes live rows and does nothing else.
LEMMA Revocation ==
  ASSUME TypeOK, NEW u \in Users \cup {ServiceAdmin, None}
  PROVE  /\ RevokeAll(u) \in [Tokens -> RowType]
         /\ \A t \in Tokens :
              /\ RevokeAll(u)[t].st = IF Live(t) /\ row[t].user = u THEN "revoked" ELSE row[t].st
              /\ RevokeAll(u)[t].user = row[t].user /\ RevokeAll(u)[t].next = row[t].next
              /\ RevokeAll(u)[t].root = row[t].root /\ RevokeAll(u)[t].epoch = row[t].epoch
              /\ RevokeAll(u)[t].late = row[t].late /\ RevokeAll(u)[t].expired = row[t].expired
<1>1. ASSUME NEW t \in Tokens
      PROVE  LET r == [row[t] EXCEPT !.st = "revoked"] IN
             /\ r \in RowType /\ r.st = "revoked" /\ r.user = row[t].user /\ r.next = row[t].next
             /\ r.root = row[t].root /\ r.epoch = row[t].epoch /\ r.late = row[t].late
             /\ r.expired = row[t].expired
  <2>1. row[t] \in RowType
    BY DEF TypeOK
  <2> QED  BY <2>1 DEF RowType
<1>2. \A t \in Tokens : row[t] \in RowType
  BY DEF TypeOK
<1> QED  BY <1>1, <1>2 DEF RevokeAll

\* The sound state outlasts every step.
LEMMA SoundLookUp ==
  ASSUME NamesAreDistinct, Sound, NEW s \in Slots, NEW b \in Browsers, NEW u \in Visitors,
         LookUp(s, b, u)
  PROVE  Sound' /\ Quiet(s) /\ req'[s].op = "login"
<1> DEFINE r == [Idle EXCEPT !.op = "login", !.at = "checked", !.browser = b,
                             !.user = u, !.seen = epoch[u]]
<1>1. u \in Users /\ epoch[u] \in Nat
  BY DEF NamesAreDistinct, Sound, TypeOK
<1>2. /\ r \in ReqType /\ r.op = "login" /\ r.at = "checked" /\ r.browser = b /\ r.user = u
      /\ r.tok = None /\ r.new = None /\ r.seen = epoch[u]
  BY <1>1 DEF Idle, ReqType, Ops, Places
<1>3. Step(s, r) /\ UNCHANGED <<user, row, cookie, epoch, tangled, edits, crossed>>
  BY DEF LookUp
<1> HIDE DEF r
<1>4. req' \in [Slots -> ReqType] /\ req'[s] = r /\ OthersWait(s)
  BY <1>2, <1>3, Steps DEF Sound
<1>5. RequestSound(s)'
  BY <1>1, <1>2, <1>3, <1>4 DEF RequestSound
<1>6. TypeOK' /\ RowsKept /\ TokenKept(s) /\ \A v \in Users : epoch[v] <= epoch'[v]
  BY <1>2, <1>3, <1>4 DEF Sound, TypeOK, RowsKept, TokenKept
<1>7. req[s].at = "idle"
  BY DEF LookUp, InFlight, Sound, RequestSound, Idle
<1>8. Quiet(s)
  BY <1>2, <1>3, <1>4, <1>7 DEF Quiet
<1> QED  BY <1>2, <1>3, <1>4, <1>5, <1>6, <1>8, SoundStep

\* The same, where the browser presents its cookie.
LEMMA SoundSend ==
  ASSUME NamesAreDistinct, Sound, NEW s \in Slots, NEW b \in Browsers,
         NEW op \in {"refresh", "logout"}, Send(s, b, op)
  PROVE  Sound' /\ OthersWait(s) /\ req'[s].op = op /\ req'[s].at = "sent" /\ RowsKept
<1> DEFINE r == [Idle EXCEPT !.op = op, !.at = "sent", !.browser = b, !.tok = cookie[b]]
<1>1. cookie[b] \in Tokens /\ Issued(cookie[b]) /\ cookie[b] # None
  BY DEF Sound, TypeOK, TokensApart, Send
<1>2. /\ r \in ReqType /\ r.op = op /\ r.at = "sent" /\ r.browser = b /\ r.tok = cookie[b]
      /\ r.new = None
  BY <1>1 DEF Idle, ReqType, Ops, Places
<1>3. /\ Step(s, r) /\ UNCHANGED <<user, row, cookie, epoch, edits, crossed>>
      /\ tangled' = tangled \cup TangledBySending(cookie[b])
  BY DEF Send
<1> HIDE DEF r
<1>4. req' \in [Slots -> ReqType] /\ req'[s] = r /\ OthersWait(s)
  BY <1>2, <1>3, Steps DEF Sound
<1>5. RequestSound(s)'
  BY <1>1, <1>2, <1>3, <1>4 DEF RequestSound, Issued
<1>6. TangledBySending(cookie[b]) \subseteq Users
  BY <1>1 DEF TangledBySending, Owner, Sound, RowSound
<1>7. TypeOK' /\ RowsKept /\ TokenKept(s) /\ \A v \in Users : epoch[v] <= epoch'[v]
  BY <1>1, <1>2, <1>3, <1>4, <1>6 DEF Sound, TypeOK, RowsKept, TokenKept
<1> QED  BY <1>2, <1>3, <1>4, <1>5, <1>7, SoundStep

\* The same, where the server looks at the presented token.
LEMMA SoundConsume ==
  ASSUME Sound, NEW s \in Slots, Consume(s)
  PROVE  /\ Sound' /\ OthersWait(s) /\ req'[s].op = "refresh"
         /\ UNCHANGED <<user, row, cookie, epoch, tangled, edits, crossed>>
         /\ req'[s].tok = req[s].tok /\ req'[s].new = None /\ req'[s].user = row[req[s].tok].user
         /\ req'[s].seen = epoch[row[req[s].tok].user]
         /\ req'[s].at = IF row[req[s].tok].next # None THEN "replayed"
                         ELSE IF ~Live(req[s].tok) \/ row[req[s].tok].expired THEN "refused"
                         ELSE "consumed"
<1> DEFINE t == req[s].tok
           at == IF row[t].next # None THEN "replayed"
                 ELSE IF row[t].st # "live" \/ row[t].expired THEN "refused" ELSE "consumed"
           r == [req[s] EXCEPT !.user = row[t].user, !.seen = epoch[row[t].user], !.at = at]
<1>1. req[s] \in ReqType /\ req[s].op = "refresh" /\ req[s].at = "sent" /\ req[s].new = None
  BY DEF Sound, TypeOK, Consume, RequestSound
<1>2. t \in Tokens /\ Issued(t) /\ req[s].browser \in Browsers
  BY <1>1 DEF Sound, RequestSound, Issued
<1>3. row[t].user \in Users /\ epoch[row[t].user] \in Nat
  <2>1. row[t].user \in Users
    BY <1>2 DEF Sound, RowSound
  <2>2. epoch \in [Users -> Nat]
    BY DEF Sound, TypeOK
  <2> HIDE DEF t
  <2> QED  BY <2>1, <2>2
<1>4. /\ r \in ReqType /\ r.op = "refresh" /\ r.at = at /\ r.browser = req[s].browser /\ r.tok = t
      /\ r.new = None /\ r.user = row[t].user /\ r.seen = epoch[row[t].user]
      /\ at \in {"replayed", "refused", "consumed"}
  <2>1. at \in {"replayed", "refused", "consumed"} /\ at \in Places
    BY DEF Places
  <2> HIDE DEF at
  <2> DEFINE u == row[t].user
             n == epoch[row[t].user]
  <2>2. PICK c : c = [req[s] EXCEPT !.user = u, !.seen = n, !.at = at]
    OBVIOUS
  <2>3. r = c
    BY <2>2
  <2> HIDE DEF r, u, n
  <2>4. u \in Users /\ n \in Nat
    BY <1>3 DEF u, n
  <2>5. /\ c \in ReqType /\ c.user = u /\ c.seen = n /\ c.at = at
        /\ c.op = req[s].op /\ c.browser = req[s].browser /\ c.tok = req[s].tok /\ c.new = req[s].new
    <3>1. c \in ReqType
      <4>1. ASSUME NEW m \in ReqType, NEW v \in Users \cup {ServiceAdmin, None}, NEW k \in Nat,
                   NEW place \in Places
            PROVE  [m EXCEPT !.user = v, !.seen = k, !.at = place] \in ReqType
        BY DEF ReqType
      <4>2. u \in Users \cup {ServiceAdmin, None}
        BY <2>4
      <4> QED  BY <1>1, <2>1, <2>2, <2>4, <4>1, <4>2, Zenon
    <3>2. c.user = u /\ c.seen = n /\ c.at = at
      BY <1>1, <2>2 DEF ReqType
    <3>3. c.op = req[s].op /\ c.browser = req[s].browser
      BY <1>1, <2>2 DEF ReqType
    <3>4. c.tok = req[s].tok /\ c.new = req[s].new
      BY <1>1, <2>2 DEF ReqType
    <3> QED  BY <3>1, <3>2, <3>3, <3>4
  <2> QED  BY <1>1, <2>1, <2>3, <2>5 DEF u, n
<1>5. Step(s, r) /\ UNCHANGED <<user, row, cookie, epoch, tangled, edits, crossed>>
  BY DEF Consume
<1> HIDE DEF r
<1>6. req' \in [Slots -> ReqType] /\ req'[s] = r /\ OthersWait(s)
  BY <1>4, <1>5, Steps DEF Sound
<1>7. RequestSound(s)'
  BY <1>2, <1>3, <1>4, <1>5, <1>6 DEF RequestSound, Issued
<1>8. TypeOK' /\ RowsKept /\ TokenKept(s) /\ \A v \in Users : epoch[v] <= epoch'[v]
  BY <1>1, <1>4, <1>5, <1>6 DEF Sound, TypeOK, RowsKept, TokenKept
<1>9. Sound'
  BY <1>5, <1>6, <1>7, <1>8, SoundStep
<1> QED  BY <1>4, <1>5, <1>6, <1>9 DEF Live

\* The same, where the account is read again.
LEMMA SoundCheckUser ==
  ASSUME Sound, NEW s \in Slots, CheckUser(s)
  PROVE  /\ Sound' /\ OthersWait(s) /\ UNCHANGED <<user, row, cookie, epoch, tangled, edits, crossed>>
         /\ req[s].op = "refresh" /\ req[s].at = "consumed"
         /\ req'[s].at \in {"checked", "refused"} /\ req'[s].op = "refresh"
         /\ req'[s].tok = req[s].tok /\ req'[s].new = None /\ req'[s].seen = req[s].seen
<1> DEFINE at == IF user[req[s].user].status = "active" THEN "checked" ELSE "refused"
<1>1. /\ req[s].op = "refresh" /\ req[s].at = "consumed" /\ req[s].new = None /\ TypeOK
      /\ req[s].tok \in Tokens /\ Issued(req[s].tok) /\ req[s].browser \in Browsers
      /\ req[s].user = row[req[s].tok].user /\ req[s].seen <= epoch[req[s].user]
  <2>1. req[s] \in ReqType /\ RequestSound(s) /\ req[s].at = "consumed" /\ TypeOK
    BY DEF Sound, TypeOK, CheckUser
  <2>2. req[s].op = "refresh"
    BY <2>1 DEF ReqType, Ops, RequestSound, Idle
  <2> QED  BY <2>1, <2>2 DEF RequestSound, Issued
<1>2. at \in Places /\ at \in {"checked", "refused"}
  BY DEF Places
<1>3. Goes(s, at) /\ UNCHANGED <<user, row, cookie, epoch, tangled, edits, crossed>>
  BY DEF CheckUser
<1> HIDE DEF at
<1>4. /\ req' \in [Slots -> ReqType] /\ OthersWait(s)
      /\ req'[s].at = at /\ req'[s].op = req[s].op /\ req'[s].browser = req[s].browser
      /\ req'[s].user = req[s].user /\ req'[s].tok = req[s].tok /\ req'[s].new = req[s].new
      /\ req'[s].seen = req[s].seen
  BY <1>1, <1>2, <1>3, GoesOn
<1>5. RequestSound(s)'
  BY <1>1, <1>2, <1>3, <1>4 DEF RequestSound, Issued
<1>6. TypeOK' /\ RowsKept /\ TokenKept(s) /\ \A v \in Users : epoch[v] <= epoch'[v]
  BY <1>1, <1>3, <1>4 DEF TypeOK, RowsKept, TokenKept
<1> QED  BY <1>1, <1>2, <1>3, <1>4, <1>5, <1>6, SoundStep

\* The same, where a replay ends the sessions of its account.
LEMMA SoundBurn ==
  ASSUME Sound, NEW s \in Slots, Burn(s)
  PROVE  /\ Sound' /\ OthersWait(s) /\ UNCHANGED <<user, cookie, epoch, tangled, edits, crossed>>
         /\ req[s].at = "replayed" /\ row' = RevokeAll(req[s].user) /\ RowsKept
         /\ req'[s].at = "refused" /\ req'[s].tok = req[s].tok /\ req'[s].new = None
         /\ req'[s].op = "refresh"
<1>1. /\ req[s].op = "refresh" /\ req[s].at = "replayed" /\ req[s].new = None /\ TypeOK
      /\ req[s].tok \in Tokens /\ Issued(req[s].tok) /\ req[s].browser \in Browsers
      /\ req[s].user \in Users \cup {ServiceAdmin, None}
  <2>1. req[s] \in ReqType /\ RequestSound(s) /\ req[s].at = "replayed" /\ TypeOK
    BY DEF Sound, TypeOK, Burn
  <2>2. req[s].op = "refresh"
    BY <2>1 DEF ReqType, Ops, RequestSound, Idle
  <2> QED  BY <2>1, <2>2 DEF ReqType, RequestSound, Issued
<1>2. /\ Goes(s, "refused") /\ UNCHANGED <<user, cookie, epoch, tangled, edits, crossed>>
      /\ row' = RevokeAll(req[s].user)
  BY DEF Burn
<1>3. /\ req' \in [Slots -> ReqType] /\ OthersWait(s)
      /\ req'[s].at = "refused" /\ req'[s].op = req[s].op /\ req'[s].browser = req[s].browser
      /\ req'[s].tok = req[s].tok /\ req'[s].new = req[s].new
  BY <1>1, <1>2, GoesOn DEF Places
<1>4. row' \in [Tokens -> RowType] /\ RowsKept
  BY <1>1, <1>2, Revocation DEF RowsKept, Live
<1>5. Issued(req[s].tok)'
  BY <1>1, <1>3, <1>4 DEF Issued, RowsKept
<1>6. RequestSound(s)'
  BY <1>1, <1>3, <1>5 DEF RequestSound
<1>7. TypeOK' /\ TokenKept(s) /\ \A v \in Users : epoch[v] <= epoch'[v]
  BY <1>1, <1>2, <1>3, <1>4 DEF TypeOK, TokenKept
<1> QED  BY <1>1, <1>2, <1>3, <1>4, <1>6, <1>7, SoundStep

\* The same, where the predecessor of a new token is marked rotated.
LEMMA SoundRotate ==
  ASSUME NamesAreDistinct, Sound, NEW s \in Slots, Rotate(s)
  PROVE  /\ Sound' /\ OthersWait(s) /\ UNCHANGED <<user, cookie, epoch, tangled, edits, crossed>>
         /\ req[s].op = "refresh" /\ req[s].at = "inserted" /\ req'[s].at = "done" /\ RowsKept
         /\ req'[s].op = "refresh"
         /\ req'[s].tok = req[s].tok /\ req'[s].new = req[s].new /\ req[s].tok # req[s].new
         /\ req[s].tok \in Tokens /\ req[s].new \in Tokens
         /\ row'[req[s].tok].st = "revoked" /\ \A t \in Tokens \ {req[s].tok} : row'[t] = row[t]
<1>1. /\ req[s].op = "refresh" /\ req[s].at = "inserted" /\ Issued(req[s].new) /\ TypeOK
      /\ req[s].tok \in Tokens /\ Issued(req[s].tok) /\ req[s].browser \in Browsers
      /\ req[s].user = row[req[s].tok].user /\ req[s].seen <= epoch[req[s].user]
  <2>1. req[s] \in ReqType /\ RequestSound(s) /\ req[s].at = "inserted" /\ TypeOK
    BY DEF Sound, TypeOK, Rotate
  <2>2. req[s].op = "refresh"
    BY <2>1 DEF ReqType, Ops, RequestSound, Idle
  <2> QED  BY <2>1, <2>2 DEF RequestSound, Issued
<1>2. Goes(s, "done") /\ UNCHANGED <<user, cookie, epoch, tangled, edits, crossed>>
  BY DEF Rotate
<1>3. /\ req' \in [Slots -> ReqType] /\ OthersWait(s)
      /\ req'[s].at = "done" /\ req'[s].op = req[s].op /\ req'[s].browser = req[s].browser
      /\ req'[s].user = req[s].user /\ req'[s].tok = req[s].tok /\ req'[s].new = req[s].new
      /\ req'[s].seen = req[s].seen
  BY <1>1, <1>2, GoesOn DEF Places
<1> DEFINE t == req[s].tok
           n == [row[t] EXCEPT !.st = "revoked", !.next = req[s].new]
<1>4. req[s].new \in Tokens /\ req[s].new # None /\ t # req[s].new
  BY <1>1 DEF Issued, NamesAreDistinct, Sound, TokensApart
<1>5. /\ n \in RowType /\ n.st = "revoked" /\ n.user = row[t].user /\ n.root = row[t].root
      /\ n.epoch = row[t].epoch /\ n.late = row[t].late /\ n.expired = row[t].expired
  <2>1. row[t] \in RowType
    BY <1>1 DEF TypeOK
  <2> QED  BY <1>4, <2>1 DEF RowType
<1>6. row' = IF Live(t) THEN [row EXCEPT ![t] = n] ELSE row
  BY DEF Rotate
<1> HIDE DEF n
<1>7. /\ row' \in [Tokens -> RowType] /\ RowsKept /\ row'[t].st = "revoked"
      /\ \A o \in Tokens \ {t} : row'[o] = row[o]
  BY <1>1, <1>5, <1>6 DEF TypeOK, RowsKept, Live, Issued
<1>8. Issued(req[s].tok)' /\ Issued(req[s].new)' /\ row'[t].user = row[t].user
  BY <1>1, <1>3, <1>4, <1>7 DEF Issued, RowsKept
<1>9. RequestSound(s)'
  BY <1>1, <1>2, <1>3, <1>8 DEF RequestSound
<1>10. TypeOK' /\ TokenKept(s) /\ \A v \in Users : epoch[v] <= epoch'[v]
  BY <1>1, <1>2, <1>3, <1>7 DEF TypeOK, TokenKept
<1>11. Sound'
  BY <1>2, <1>3, <1>7, <1>9, <1>10, SoundStep
<1> QED  BY <1>1, <1>2, <1>3, <1>4, <1>7, <1>11

\* The same, where a sign-out revokes the presented token.
LEMMA SoundLogout ==
  ASSUME Sound, NEW s \in Slots, Logout(s)
  PROVE  /\ Sound' /\ OthersWait(s) /\ UNCHANGED <<user, cookie, epoch, tangled, edits, crossed>>
         /\ req[s].op = "logout" /\ req[s].at = "sent" /\ req'[s].at = "refused" /\ RowsKept
         /\ req'[s].op = "logout" /\ req'[s].tok = req[s].tok /\ req'[s].new = None
         /\ req[s].tok \in Tokens /\ row'[req[s].tok].next = row[req[s].tok].next
         /\ \A t \in Tokens \ {req[s].tok} : row'[t] = row[t]
<1>1. /\ req[s].op = "logout" /\ req[s].at = "sent" /\ req[s].new = None /\ TypeOK
      /\ req[s].tok \in Tokens /\ Issued(req[s].tok) /\ req[s].browser \in Browsers
  BY DEF Sound, Logout, RequestSound, Issued
<1>2. Goes(s, "refused") /\ UNCHANGED <<user, cookie, epoch, tangled, edits, crossed>>
  BY DEF Logout
<1>3. /\ req' \in [Slots -> ReqType] /\ OthersWait(s)
      /\ req'[s].at = "refused" /\ req'[s].op = req[s].op /\ req'[s].browser = req[s].browser
      /\ req'[s].tok = req[s].tok /\ req'[s].new = req[s].new
  BY <1>1, <1>2, GoesOn DEF Places
<1> DEFINE t == req[s].tok
           n == [row[t] EXCEPT !.st = "revoked"]
<1>4. /\ n \in RowType /\ n.st = "revoked" /\ n.user = row[t].user /\ n.root = row[t].root
      /\ n.epoch = row[t].epoch /\ n.late = row[t].late /\ n.next = row[t].next
  BY <1>1 DEF TypeOK, RowType
<1>5. row' = IF Live(t) THEN [row EXCEPT ![t] = n] ELSE row
  BY DEF Logout
<1> HIDE DEF n
<1>6. /\ row' \in [Tokens -> RowType] /\ RowsKept /\ row'[t].next = row[t].next
      /\ \A o \in Tokens \ {t} : row'[o] = row[o]
  BY <1>1, <1>4, <1>5 DEF TypeOK, RowsKept, Live
<1>7. Issued(req[s].tok)'
  BY <1>1, <1>3, <1>6 DEF Issued, RowsKept
<1>8. RequestSound(s)'
  BY <1>1, <1>3, <1>7 DEF RequestSound
<1>9. TypeOK' /\ TokenKept(s) /\ \A v \in Users : epoch[v] <= epoch'[v]
  BY <1>1, <1>2, <1>3, <1>6 DEF TypeOK, TokenKept
<1>10. Sound'
  BY <1>2, <1>3, <1>6, <1>8, <1>9, SoundStep
<1> QED  BY <1>1, <1>2, <1>3, <1>6, <1>10

\* A request of an admin carries no token.
LEMMA EditRequest ==
  ASSUME NamesAreDistinct, Sound, NEW s \in Slots,
         req[s].at \in {"authorised", "posture", "cleared", "updated"}
  PROVE  /\ TypeOK /\ req[s] \in ReqType /\ req[s].op = "edit" /\ req[s].tok = None /\ req[s].new = None
         /\ req[s].at # "authorised" => req[s].user \in Users
<1>1. req[s] \in ReqType /\ RequestSound(s) /\ TypeOK
  BY DEF Sound, TypeOK
<1>2. req[s].op = "edit"
  BY <1>1 DEF ReqType, Ops, RequestSound, Idle
<1> QED  BY <1>1, <1>2 DEF RequestSound

\* The same, where it moves on within the check of the account, or ends.
LEMMA SoundEdit ==
  ASSUME NamesAreDistinct, Sound, NEW s \in Slots,
         req[s].at \in {"authorised", "posture", "cleared", "updated"},
         NEW r \in ReqType, Step(s, r), user' \in [Users -> UserType],
         UNCHANGED <<row, cookie, epoch, tangled, edits, crossed>>,
         \/ r = Idle
         \/ /\ r.op = "edit" /\ r.at \in {"authorised", "posture", "cleared", "updated"}
            /\ r.tok = None /\ r.new = None /\ (r.at # "authorised" => r.user \in Users)
  PROVE  Sound' /\ Quiet(s) /\ req'[s] = r /\ OthersWait(s)
<1>1. TypeOK
  BY DEF Sound
<1>2. req' \in [Slots -> ReqType] /\ req'[s] = r /\ OthersWait(s)
  BY <1>1, Steps
<1>3. Idle.tok = None /\ Idle.new = None /\ Idle.op = "none" /\ Idle.at = "idle" /\ Idle' = Idle
  BY DEF Idle
<1>4. RequestSound(s)'
  BY <1>2, <1>3 DEF RequestSound
<1>5. TypeOK' /\ RowsKept /\ TokenKept(s) /\ \A v \in Users : epoch[v] <= epoch'[v]
  BY <1>1, <1>2, <1>3 DEF TypeOK, RowsKept, TokenKept
<1>6. Quiet(s)
  BY <1>2, <1>3 DEF Quiet
<1> QED  BY <1>2, <1>4, <1>5, <1>6, SoundStep

\* An edit that creates an account ends with the INSERT (POST /users).
LEMMA SoundCreate ==
  ASSUME NamesAreDistinct, Sound, NEW s \in Slots, NEW u \in Users, NEW role \in Roles,
         Create(s, u, role)
  PROVE  Sound' /\ Quiet(s) /\ req'[s] = Idle
<1>1. Idle \in ReqType
  BY DEF Idle, ReqType, Ops, Places
<1>2. user' \in [Users -> UserType]
  BY DEF Create, Sound, TypeOK, UserType, Statuses
<1> QED  BY <1>1, <1>2, SoundEdit DEF Create

\* loadUser and the checks on its row say where an edit goes on.
LEMMA SoundLoadTarget ==
  ASSUME NamesAreDistinct, Sound, NEW s \in Slots, NEW u \in Users, NEW role \in Roles \cup {None},
         NEW status \in Statuses \cup {None}, LoadTarget(s, u, role, status)
  PROVE  /\ Sound' /\ Quiet(s) /\ req'[s].user = u /\ req'[s].role = role /\ req'[s].status = status
         /\ req'[s].op = "edit"
         /\ req'[s].at = IF TakesPower(u, role, status) THEN "posture" ELSE "cleared"
<1> DEFINE at == IF TakesPower(u, role, status) THEN "posture" ELSE "cleared"
           r == [req[s] EXCEPT !.user = u, !.role = role, !.status = status, !.at = at]
<1>1. /\ TypeOK /\ req[s] \in ReqType /\ req[s].op = "edit" /\ req[s].tok = None /\ req[s].new = None
      /\ req[s].at = "authorised"
  BY EditRequest DEF LoadTarget
<1>2. at \in Places /\ at \in {"posture", "cleared"}
  BY DEF Places
<1>3. Step(s, r) /\ UNCHANGED <<user, row, cookie, epoch, tangled, edits, crossed>>
  BY DEF LoadTarget
<1> HIDE DEF at
<1>4. /\ r \in ReqType /\ r.op = "edit" /\ r.at = at /\ r.user = u /\ r.role = role
      /\ r.status = status /\ r.tok = None /\ r.new = None
  BY <1>1, <1>2 DEF ReqType
<1> HIDE DEF r
<1>5. user' \in [Users -> UserType]
  BY <1>1, <1>3 DEF TypeOK
<1>6. Sound' /\ Quiet(s) /\ req'[s] = r
  BY <1>1, <1>2, <1>3, <1>4, <1>5, SoundEdit
<1> QED  BY <1>4, <1>6 DEF at

\* countOtherActiveAdmins clears an edit only when it sees another active admin.
LEMMA SoundCountOthers ==
  ASSUME NamesAreDistinct, Sound, NEW s \in Slots, CountOthers(s)
  PROVE  /\ Sound' /\ Quiet(s) /\ req[s].op = "edit"
         /\ \/ req'[s] = Idle
            \/ /\ req'[s].op = "edit" /\ req'[s].user = req[s].user
               /\ ActiveAdmins \ {req[s].user} # {}
<1>1. /\ TypeOK /\ req[s] \in ReqType /\ req[s].op = "edit" /\ req[s].tok = None /\ req[s].new = None
      /\ req[s].at = "posture" /\ req[s].user \in Users
  BY EditRequest DEF CountOthers
<1> DEFINE r == [req[s] EXCEPT !.at = "cleared"]
<1>2. /\ r \in ReqType /\ r.op = "edit" /\ r.at = "cleared" /\ r.user = req[s].user
      /\ r.tok = None /\ r.new = None
  BY <1>1 DEF ReqType, Places
<1>3. Idle \in ReqType
  BY DEF Idle, ReqType, Ops, Places
<1>4. /\ \/ Step(s, Idle)
         \/ Step(s, r) /\ ActiveAdmins \ {req[s].user} # {}
      /\ UNCHANGED <<user, row, cookie, epoch, tangled, edits, crossed>>
  BY DEF CountOthers, Goes
<1> HIDE DEF r
<1>5. user' \in [Users -> UserType]
  BY <1>1, <1>4 DEF TypeOK
<1>6. CASE Step(s, Idle)
  BY <1>1, <1>3, <1>4, <1>5, <1>6, SoundEdit
<1>7. CASE Step(s, r) /\ ActiveAdmins \ {req[s].user} # {}
  BY <1>1, <1>2, <1>4, <1>5, <1>7, SoundEdit
<1> QED  BY <1>4, <1>6, <1>7

\* The UPDATE ends the request, or leaves it to end the account's sessions.
LEMMA SoundUpdateUser ==
  ASSUME NamesAreDistinct, Sound, NEW s \in Slots, UpdateUser(s)
  PROVE  /\ Sound' /\ Quiet(s) /\ req[s].op = "edit" /\ req[s].user \in Users
         /\ req'[s] = Idle \/ (req'[s].op = "edit" /\ req'[s].at = "updated")
<1>1. /\ TypeOK /\ req[s] \in ReqType /\ req[s].op = "edit" /\ req[s].tok = None /\ req[s].new = None
      /\ req[s].at = "cleared" /\ req[s].user \in Users
  BY EditRequest DEF UpdateUser
<1> DEFINE r == [req[s] EXCEPT !.at = "updated"]
           u == [role |-> IF req[s].role = None THEN user[req[s].user].role ELSE req[s].role,
                 status |-> IF req[s].status = None THEN user[req[s].user].status
                            ELSE req[s].status]
<1>2. /\ r \in ReqType /\ r.op = "edit" /\ r.at = "updated" /\ r.user = req[s].user
      /\ r.tok = None /\ r.new = None
  BY <1>1 DEF ReqType, Places
<1>3. Idle \in ReqType
  BY DEF Idle, ReqType, Ops, Places
<1>4. /\ user' = [user EXCEPT ![req[s].user] = u]
      /\ Step(s, Idle) \/ Step(s, r)
      /\ UNCHANGED <<row, cookie, epoch, tangled, edits, crossed>>
  BY DEF UpdateUser, Goes
<1>5. u \in UserType
  <2>1. user[req[s].user] \in UserType /\ req[s].role \in Roles \cup {None}
        /\ req[s].status \in Statuses \cup {None}
    BY <1>1 DEF TypeOK, ReqType
  <2> QED  BY <2>1 DEF UserType
<1> HIDE DEF r, u
<1>6. user' \in [Users -> UserType]
  BY <1>1, <1>4, <1>5 DEF TypeOK
<1>7. CASE Step(s, Idle)
  BY <1>1, <1>3, <1>4, <1>6, <1>7, SoundEdit
<1>8. CASE Step(s, r)
  BY <1>1, <1>2, <1>4, <1>6, <1>8, SoundEdit
<1> QED  BY <1>4, <1>7, <1>8

\* A reset goes on to end the account's sessions.
LEMMA SoundResetPassword ==
  ASSUME NamesAreDistinct, Sound, NEW s \in Slots, NEW u \in Users, ResetPassword(s, u)
  PROVE  Sound' /\ Quiet(s) /\ req[s].op = "edit" /\ req'[s].op = "edit" /\ req'[s].at = "updated"
<1>1. /\ TypeOK /\ req[s] \in ReqType /\ req[s].op = "edit" /\ req[s].tok = None /\ req[s].new = None
      /\ req[s].at = "authorised"
  BY EditRequest DEF ResetPassword
<1> DEFINE r == [req[s] EXCEPT !.user = u, !.at = "updated"]
<1>2. /\ r \in ReqType /\ r.op = "edit" /\ r.at = "updated" /\ r.user = u
      /\ r.tok = None /\ r.new = None
  BY <1>1 DEF ReqType, Places
<1>3. Step(s, r) /\ UNCHANGED <<user, row, cookie, epoch, tangled, edits, crossed>>
  BY DEF ResetPassword
<1> HIDE DEF r
<1>4. user' \in [Users -> UserType]
  BY <1>1, <1>3 DEF TypeOK
<1> QED  BY <1>1, <1>2, <1>3, <1>4, SoundEdit

\* A request of an admin is let in, and crosses the ones under way.
LEMMA SoundAuthorise ==
  ASSUME NamesAreDistinct, Sound, NEW s \in Slots, NEW a \in Users \cup {ServiceAdmin},
         Authorise(s, a)
  PROVE  /\ Sound' /\ Quiet(s) /\ req'[s].op = "edit" /\ req'[s].at = "authorised"
         /\ user' = user /\ crossed' = (crossed \/ \E o \in Slots : req[o].op = "edit")
<1> DEFINE r == [Idle EXCEPT !.op = "edit", !.at = "authorised", !.user = a]
<1>1. /\ r \in ReqType /\ r.op = "edit" /\ r.at = "authorised" /\ r.tok = None /\ r.new = None
  BY DEF Idle, ReqType, Ops, Places
<1>2. /\ Step(s, r) /\ UNCHANGED <<user, row, cookie, epoch, tangled>> /\ edits' = edits + 1
      /\ crossed' = (crossed \/ \E o \in Slots : req[o].op = "edit") /\ req[s].op = "none"
  BY DEF Authorise, InFlight
<1> HIDE DEF r
<1>3. TypeOK /\ req' \in [Slots -> ReqType] /\ req'[s] = r /\ OthersWait(s)
  BY <1>1, <1>2, Steps DEF Sound
<1>4. RequestSound(s)'
  BY <1>1, <1>3 DEF RequestSound
<1>5. crossed' \in BOOLEAN
  BY <1>2, <1>3, Zenon DEF TypeOK
<1>6. TypeOK' /\ RowsKept /\ TokenKept(s) /\ \A v \in Users : epoch[v] <= epoch'[v]
  BY <1>1, <1>2, <1>3, <1>5 DEF TypeOK, RowsKept, TokenKept
<1>7. req[s].at = "idle"
  BY <1>2 DEF Sound, RequestSound, Idle
<1>8. Quiet(s)
  BY <1>1, <1>2, <1>3, <1>7 DEF Quiet
<1> QED  BY <1>1, <1>2, <1>3, <1>4, <1>6, <1>8, SoundStep

\* A request that ends early tangles the account whose answer it loses.
LEMMA SoundDrop ==
  ASSUME NamesAreDistinct, Sound, NEW s \in Slots, Drop(s)
  PROVE  Sound' /\ Quiet(s) /\ req'[s] = Idle /\ UNCHANGED <<user, crossed>>
<1>1. TypeOK /\ Step(s, Idle) /\ UNCHANGED <<user, row, cookie, epoch, edits, crossed>>
  BY DEF Sound, Drop
<1>2. /\ req' \in [Slots -> ReqType] /\ req'[s] = Idle /\ OthersWait(s) /\ TokenKept(s)
      /\ RequestSound(s)'
  BY <1>1, Finishes
<1>3. /\ tangled \subseteq tangled' /\ tangled' \subseteq tangled \cup Owner(req[s].tok)
      /\ req[s].at \in {"inserted", "done", "refused"} => Owner(req[s].tok) \subseteq tangled'
  BY DEF Drop
<1>4. Owner(req[s].tok) \subseteq Users
  <2>1. req[s] \in ReqType /\ RequestSound(s)
    BY DEF Sound, TypeOK
  <2>2. req[s].tok # None => req[s].op \in {"refresh", "logout"}
    BY <2>1 DEF ReqType, Ops, RequestSound, Idle
  <2>3. req[s].tok # None => row[req[s].tok].user \in Users
    BY <2>1, <2>2 DEF RequestSound, Sound, RowSound, Issued
  <2> QED  BY <2>3 DEF Owner
<1>5. TypeOK' /\ RowsKept /\ \A v \in Users : epoch[v] <= epoch'[v]
  BY <1>1, <1>2, <1>3, <1>4 DEF TypeOK, RowsKept
<1>6. Quiet(s)
  BY <1>1, <1>2, <1>3 DEF Quiet, Idle
<1> QED  BY <1>1, <1>2, <1>3, <1>5, <1>6, SoundStep

\* endSessions: the live rows of the account are revoked, its epoch goes up.
LEMMA SoundEndSessions ==
  ASSUME NamesAreDistinct, Sound, NEW s \in Slots, EndSessions(s)
  PROVE  /\ Sound' /\ OthersWait(s) /\ UNCHANGED <<user, cookie, tangled, edits, crossed>> /\ RowsKept
         /\ req[s].tok = None /\ req[s].at = "updated" /\ req'[s] = Idle /\ req[s].user \in Users
         /\ row' = RevokeAll(req[s].user)
         /\ epoch' = [epoch EXCEPT ![req[s].user] = epoch[req[s].user] + 1]
<1>1. /\ TypeOK /\ req[s].tok = None /\ req[s].at = "updated" /\ req[s].user \in Users
  BY EditRequest DEF EndSessions
<1>2. /\ Step(s, Idle) /\ UNCHANGED <<user, cookie, tangled, edits, crossed>>
      /\ row' = RevokeAll(req[s].user)
      /\ epoch' = [epoch EXCEPT ![req[s].user] = epoch[req[s].user] + 1]
  BY DEF EndSessions
<1>3. /\ req' \in [Slots -> ReqType] /\ req'[s] = Idle /\ OthersWait(s) /\ TokenKept(s)
      /\ RequestSound(s)'
  BY <1>1, <1>2, Finishes
<1>4. row' \in [Tokens -> RowType] /\ RowsKept
  BY <1>1, <1>2, Revocation DEF RowsKept, Live
<1>5. TypeOK' /\ \A v \in Users : epoch[v] <= epoch'[v]
  BY <1>1, <1>2, <1>3, <1>4 DEF TypeOK
<1>6. Sound'
  BY <1>2, <1>3, <1>4, <1>5, SoundStep
<1> QED  BY <1>1, <1>2, <1>3, <1>4, <1>6

\* A token that expires keeps the rest of its row.
LEMMA SoundExpire ==
  ASSUME Sound, NEW t \in Tokens, Expire(t)
  PROVE  /\ Sound' /\ RowsKept /\ UNCHANGED <<user, cookie, req, epoch, tangled, edits, crossed>>
         /\ \A o \in Tokens : /\ row'[o].st = row[o].st /\ row'[o].next = row[o].next
                              /\ row[o].expired => row'[o].expired
<1>1. TypeOK /\ UNCHANGED <<user, cookie, req, epoch, tangled, edits, crossed>>
  BY DEF Sound, Expire
<1> DEFINE n == [row[t] EXCEPT !.expired = TRUE]
<1>2. /\ n \in RowType /\ n.st = row[t].st /\ n.user = row[t].user /\ n.root = row[t].root
      /\ n.epoch = row[t].epoch /\ n.late = row[t].late /\ n.next = row[t].next
      /\ n.expired = TRUE
  <2>1. row[t] \in RowType
    BY <1>1 DEF TypeOK
  <2> QED  BY <2>1 DEF RowType
<1>3. row' = [row EXCEPT ![t] = n]
  BY DEF Expire
<1> HIDE DEF n
<1>4. /\ row' \in [Tokens -> RowType] /\ RowsKept
      /\ \A o \in Tokens : /\ row'[o].st = row[o].st /\ row'[o].next = row[o].next
                           /\ row[o].expired => row'[o].expired
  BY <1>1, <1>2, <1>3 DEF TypeOK, RowsKept
<1>5. TypeOK' /\ \A v \in Users : epoch[v] <= epoch'[v]
  BY <1>1, <1>4 DEF TypeOK
<1>6. PICK s : s \notin Slots
  BY NoSetContainsEverything
<1>7. OthersWait(s)
  BY <1>1 DEF OthersWait
<1>8. Sound'
  BY <1>1, <1>4, <1>5, <1>6, <1>7, SoundStep
<1> QED  BY <1>1, <1>4, <1>8

-----------------------------------------------------------------------------
(***************************************************************************)
(* The steps that issue a token, hand it to a browser, delete its row.      *)
(***************************************************************************)

\* The row of a new token: a sign-in of its own, or that of its predecessor.
LEMMA Issuing ==
  ASSUME NamesAreDistinct, Sound, NEW s \in Slots, NEW t \in Tokens, Insert(s, t)
  PROVE  /\ TypeOK /\ row'[t] \in RowType /\ row' = [row EXCEPT ![t] = row'[t]]
         /\ row[t].st = "free" /\ row'[t].st = "live" /\ row'[t].next = None
         /\ req[s].user \in Users /\ row'[t].user = req[s].user /\ req[s].at = "checked"
         /\ req[s].new = None /\ req[s].browser \in Browsers
         /\ \/ /\ req[s].op = "login" /\ req[s].tok = None /\ row'[t].root = t
               /\ row'[t].epoch = req[s].seen /\ row'[t].late = (req[s].seen # epoch[req[s].user])
               /\ req[s].seen <= epoch[req[s].user]
            \/ /\ req[s].op = "refresh" /\ Issued(req[s].tok)
               /\ row[req[s].tok].user = req[s].user
               /\ row'[t].root = row[req[s].tok].root /\ row'[t].epoch = row[req[s].tok].epoch
               /\ row'[t].late = (req[s].seen # epoch[req[s].user] \/ row[req[s].tok].late)
               /\ req[s].seen <= epoch[req[s].user]
<1>1. /\ req[s] \in ReqType /\ RequestSound(s) /\ req[s].at = "checked" /\ TypeOK
      /\ row[t].st = "free" /\ row' = [row EXCEPT ![t] = NewRow(s, t)]
  BY DEF Sound, TypeOK, Insert
<1>2. req[s].op \in {"login", "refresh"}
  BY <1>1 DEF ReqType, Ops, RequestSound, Idle
<1>3. req[s].new = None /\ req[s].user \in Users /\ req[s].browser \in Browsers /\ req[s].seen \in Nat
  <2>1. CASE req[s].op = "login"
    BY <1>1, <2>1 DEF RequestSound, ReqType
  <2>2. CASE req[s].op = "refresh"
    <3>1. /\ Issued(req[s].tok) /\ req[s].user = row[req[s].tok].user /\ req[s].new = None
          /\ req[s].browser \in Browsers /\ req[s].seen \in Nat
      BY <1>1, <2>2 DEF RequestSound, ReqType
    <3> QED  BY <3>1 DEF Sound, RowSound, Issued
  <2> QED  BY <1>2, <2>1, <2>2
<1>4. row'[t] = NewRow(s, t)
  BY <1>1 DEF TypeOK
<1> DEFINE fresh == [FreeRow EXCEPT !.st = "live", !.user = req[s].user]
           behind == req[s].seen # epoch[req[s].user]
<1>5. /\ fresh \in RowType /\ fresh.st = "live" /\ fresh.user = req[s].user /\ fresh.next = None
  BY <1>3 DEF FreeRow, RowType
<1>6. PICK late \in BOOLEAN : late = behind
  OBVIOUS
<1> HIDE DEF fresh
<1>7. CASE req[s].op = "login"
  <2> DEFINE n == [fresh EXCEPT !.root = t, !.epoch = req[s].seen, !.late = late]
  <2>1. req[s].tok = None /\ req[s].seen <= epoch[req[s].user]
    BY <1>1, <1>7 DEF RequestSound
  <2>2. NewRow(s, t) = n
    BY <1>6, <2>1 DEF NewRow, fresh
  <2>3. /\ n \in RowType /\ n.st = "live" /\ n.user = req[s].user /\ n.next = None
        /\ n.root = t /\ n.epoch = req[s].seen /\ n.late = late
    BY <1>3, <1>5 DEF RowType
  <2> HIDE DEF n
  <2> QED  BY <1>1, <1>3, <1>4, <1>6, <1>7, <2>1, <2>2, <2>3
<1>8. CASE req[s].op = "refresh"
  <2>1. /\ Issued(req[s].tok) /\ req[s].tok \in Tokens /\ req[s].tok # None
        /\ row[req[s].tok].user = req[s].user /\ req[s].seen <= epoch[req[s].user]
    BY <1>1, <1>8 DEF RequestSound, Issued, NamesAreDistinct
  <2>2. row[req[s].tok] \in RowType
    BY <1>1, <2>1 DEF TypeOK
  <2>3. PICK l \in BOOLEAN : l = (behind \/ row[req[s].tok].late)
    BY <1>6
  <2> DEFINE n == [fresh EXCEPT !.root = row[req[s].tok].root, !.epoch = row[req[s].tok].epoch,
                                !.late = l]
  <2>4. NewRow(s, t) = n
    BY <2>1, <2>3 DEF NewRow, fresh
  <2>5. /\ n \in RowType /\ n.st = "live" /\ n.user = req[s].user /\ n.next = None
        /\ n.root = row[req[s].tok].root /\ n.epoch = row[req[s].tok].epoch /\ n.late = l
    BY <1>3, <1>5, <2>2 DEF RowType
  <2> HIDE DEF n
  <2> QED  BY <1>1, <1>3, <1>4, <1>8, <2>1, <2>3, <2>4, <2>5
<1> QED  BY <1>2, <1>7, <1>8

\* The request has the new token in hand.
LEMMA IssuingRequest ==
  ASSUME NamesAreDistinct, Sound, NEW s \in Slots, NEW t \in Tokens, Insert(s, t)
  PROVE  /\ req' \in [Slots -> ReqType] /\ OthersWait(s)
         /\ req'[s].at = IF req[s].op = "refresh" THEN "inserted" ELSE "done"
         /\ req'[s].new = t /\ req'[s].op = req[s].op /\ req'[s].browser = req[s].browser
         /\ req'[s].user = req[s].user /\ req'[s].tok = req[s].tok /\ req'[s].seen = req[s].seen
         /\ UNCHANGED <<user, cookie, epoch, tangled, edits, crossed>>
<1> DEFINE at == IF req[s].op = "refresh" THEN "inserted" ELSE "done"
           r == [req[s] EXCEPT !.new = t, !.at = at]
<1>1. TypeOK /\ req[s] \in ReqType /\ at \in Places
  BY DEF Sound, TypeOK, Places
<1>2. Step(s, r) /\ UNCHANGED <<user, cookie, epoch, tangled, edits, crossed>>
  BY DEF Insert
<1> HIDE DEF at
<1>3. /\ r \in ReqType /\ r.at = at /\ r.new = t /\ r.op = req[s].op /\ r.browser = req[s].browser
      /\ r.user = req[s].user /\ r.tok = req[s].tok /\ r.seen = req[s].seen
  BY <1>1 DEF ReqType
<1> HIDE DEF r
<1>4. req' \in [Slots -> ReqType] /\ req'[s] = r /\ OthersWait(s)
  BY <1>1, <1>2, <1>3, Steps
<1> QED  BY <1>2, <1>3, <1>4 DEF at

\* No token in use is free.
LEMMA InUse ==
  ASSUME NamesAreDistinct, Sound, NEW t \in Tokens, row[t].st = "free"
  PROVE  /\ \A b \in Browsers : cookie[b] # t
         /\ \A s \in Slots : req[s].tok # t /\ req[s].new # t
         /\ \A o \in Tokens : Issued(o) => row[o].root # t
<1>1. ASSUME NEW s \in Slots PROVE req[s].tok # t /\ req[s].new # t
  <2>1. req[s] \in ReqType /\ RequestSound(s)
    BY DEF Sound, TypeOK
  <2>2. req[s].tok # None => Issued(req[s].tok)
    BY <2>1 DEF ReqType, Ops, RequestSound, Idle
  <2>3. req[s].new # None => Issued(req[s].new)
    BY <2>1 DEF RequestSound
  <2> QED  BY <2>2, <2>3 DEF Issued, NamesAreDistinct
<1>2. \A b \in Browsers : cookie[b] # t
  BY DEF Sound, TokensApart, Issued, NamesAreDistinct
<1>3. \A o \in Tokens : Issued(o) => row[o].root # t
  BY DEF Sound, RowSound
<1> QED  BY <1>1, <1>2, <1>3

\* issueRefreshToken, first statement: the new row and its request are sound.
LEMMA SoundInsert ==
  ASSUME NamesAreDistinct, Sound, NEW s \in Slots, NEW t \in Tokens, Insert(s, t)
  PROVE  Sound'
<1>1. /\ TypeOK /\ row'[t] \in RowType /\ row' = [row EXCEPT ![t] = row'[t]]
      /\ row[t].st = "free" /\ row'[t].st = "live" /\ row'[t].next = None
      /\ req[s].user \in Users /\ row'[t].user = req[s].user /\ req[s].at = "checked"
      /\ req[s].new = None /\ req[s].browser \in Browsers
      /\ \/ /\ req[s].op = "login" /\ req[s].tok = None /\ row'[t].root = t
            /\ row'[t].epoch = req[s].seen /\ req[s].seen <= epoch[req[s].user]
         \/ /\ req[s].op = "refresh" /\ Issued(req[s].tok)
            /\ row[req[s].tok].user = req[s].user
            /\ row'[t].root = row[req[s].tok].root /\ row'[t].epoch = row[req[s].tok].epoch
            /\ req[s].seen <= epoch[req[s].user]
  BY Issuing
<1>2. /\ req' \in [Slots -> ReqType] /\ OthersWait(s)
      /\ req'[s].at = IF req[s].op = "refresh" THEN "inserted" ELSE "done"
      /\ req'[s].new = t /\ req'[s].op = req[s].op /\ req'[s].browser = req[s].browser
      /\ req'[s].user = req[s].user /\ req'[s].tok = req[s].tok /\ req'[s].seen = req[s].seen
      /\ UNCHANGED <<user, cookie, epoch, tangled, edits, crossed>>
  BY IssuingRequest
<1>3. /\ \A b \in Browsers : cookie[b] # t
      /\ \A o \in Slots : req[o].tok # t /\ req[o].new # t
      /\ \A o \in Tokens : Issued(o) => row[o].root # t
  BY <1>1, InUse
<1>4. row' \in [Tokens -> RowType] /\ \A o \in Tokens \ {t} : row'[o] = row[o]
  BY <1>1 DEF TypeOK
<1>5. TypeOK'
  BY <1>1, <1>2, <1>4 DEF TypeOK
<1>6. row'[t].root \in Tokens /\ (req[s].op = "refresh" => row[row'[t].root].st # "free")
      /\ (row'[t].root # t => req[s].op = "refresh")
  BY <1>1 DEF Sound, RowSound, Issued
<1>7. ASSUME NEW o \in Tokens, o # t PROVE RowSound(o)'
  <2>1. row'[o] = row[o]
    BY <1>4, <1>7
  <2>2. SUFFICES ASSUME Issued(o)
                 PROVE  /\ row[o].user \in Users /\ row[o].epoch <= epoch[row[o].user]
                        /\ row[o].root \in Tokens /\ row'[row[o].root].st # "free"
                        /\ row[o].next # None => row[o].st = "revoked"
                        /\ \A p \in Tokens : row'[p].st \in {"live", "revoked"}
                             /\ row'[p].root = row[o].root => row'[p].user = row[o].user
    BY <1>2, <2>1 DEF RowSound, Issued
  <2>3. /\ row[o].user \in Users /\ row[o].epoch <= epoch[row[o].user]
        /\ row[o].root \in Tokens /\ row[row[o].root].st # "free"
        /\ row[o].next # None => row[o].st = "revoked"
        /\ \A p \in Tokens : Issued(p) /\ row[p].root = row[o].root => row[p].user = row[o].user
    BY <2>2 DEF Sound, RowSound
  <2>4. row'[row[o].root].st # "free"
    BY <1>3, <1>4, <2>2, <2>3
  <2>5. ASSUME NEW p \in Tokens, row'[p].st \in {"live", "revoked"}, row'[p].root = row[o].root
        PROVE  row'[p].user = row[o].user
    <3>1. CASE p # t
      BY <1>4, <2>3, <2>5, <3>1 DEF Issued
    <3>2. CASE p = t
      <4>1. row[o].root # t
        BY <1>3, <2>2
      <4>2. Issued(req[s].tok) /\ row[req[s].tok].user = req[s].user /\ row'[t].root = row[req[s].tok].root
        BY <1>1, <2>5, <3>2, <4>1
      <4> QED  BY <1>1, <2>3, <2>5, <3>2, <4>2 DEF Issued
    <3> QED  BY <3>1, <3>2
  <2> QED  BY <2>3, <2>4, <2>5
<1>8. RowSound(t)'
  <2>1. row'[t].epoch <= epoch[row'[t].user]
    BY <1>1 DEF Sound, RowSound, Issued
  <2>2. row'[row'[t].root].st # "free"
    BY <1>1, <1>4, <1>6
  <2>3. ASSUME NEW p \in Tokens, row'[p].st \in {"live", "revoked"}, row'[p].root = row'[t].root, p # t
        PROVE  row'[p].user = row'[t].user
    <3>1. Issued(p) /\ row'[p] = row[p]
      BY <1>4, <2>3 DEF Issued
    <3>2. Issued(req[s].tok) /\ row[req[s].tok].user = req[s].user /\ row'[t].root = row[req[s].tok].root
      BY <1>1, <1>3, <2>3, <3>1
    <3> QED  BY <1>1, <2>3, <3>1, <3>2 DEF Sound, RowSound, Issued
  <2> QED  BY <1>1, <1>2, <1>6, <2>1, <2>2, <2>3 DEF RowSound, Issued
<1>9. \A o \in Tokens : Issued(o) => row'[o] = row[o]
  BY <1>1, <1>4 DEF Issued
<1>10. ASSUME NEW o \in Slots, o # s PROVE RequestSound(o)'
  <2>1. req'[o] = req[o] /\ RequestSound(o) /\ Idle' = Idle
    BY <1>2, <1>10 DEF OthersWait, Sound, Idle
  <2>2. req[o].op \in {"refresh", "logout"} =>
          /\ req[o].tok \in Tokens /\ row'[req[o].tok].st \in {"live", "revoked"}
          /\ row'[req[o].tok].user = row[req[o].tok].user
    BY <1>9, <2>1 DEF RequestSound, Issued
  <2>3. req[o].at \in {"inserted", "done"} =>
          req[o].new \in Tokens /\ row'[req[o].new].st \in {"live", "revoked"}
    BY <1>9, <2>1 DEF RequestSound, Issued
  <2> QED  BY <1>2, <2>1, <2>2, <2>3 DEF RequestSound, Issued
<1>11. RequestSound(s)'
  <2>1. req[s].op = "refresh" => /\ req[s].tok \in Tokens /\ row'[req[s].tok].st \in {"live", "revoked"}
                                 /\ row'[req[s].tok].user = req[s].user
    BY <1>1, <1>9 DEF Issued
  <2> QED  BY <1>1, <1>2, <2>1 DEF RequestSound, Issued
<1>12. TokensApart'
  <2>1. ASSUME NEW b \in Browsers, cookie[b] # None
        PROVE  /\ cookie[b] \in Tokens /\ row'[cookie[b]].st \in {"live", "revoked"}
               /\ \A c \in Browsers : cookie[c] = cookie[b] => c = b
               /\ \A o \in Slots : req'[o].tok = cookie[b] => req'[o].browser = b
    BY <1>2, <1>9, <2>1 DEF Sound, TokensApart, Issued, OthersWait
  <2>2. ASSUME NEW o \in Slots, req'[o].new # None
        PROVE  /\ \A b \in Browsers : cookie[b] # req'[o].new
               /\ \A p \in Slots : req'[p].tok # req'[o].new /\ (p # o => req'[p].new # req'[o].new)
    BY <1>2, <1>3, <2>2 DEF Sound, TokensApart, OthersWait
  <2> QED  BY <1>2, <2>1, <2>2 DEF TokensApart, Issued
<1>13. OneExchange'
  <2>1. \A o \in Slots : req'[o].tok = req[o].tok
    BY <1>2 DEF OthersWait
  <2>2. \A o \in Slots : req[o].tok # None => row'[req[o].tok] = row[req[o].tok]
    BY <1>1, <1>3, <1>4 DEF TypeOK, ReqType
  <2> QED  BY <1>2, <2>1, <2>2 DEF Sound, OneExchange
<1> QED  BY <1>5, <1>7, <1>8, <1>10, <1>11, <1>12, <1>13 DEF Sound

\* An answer that carries a token hands it to the browser, and only there.
LEMMA SoundRespond ==
  ASSUME NamesAreDistinct, Sound, NEW s \in Slots, Respond(s)
  PROVE  /\ Sound' /\ OthersWait(s) /\ req'[s] = Idle /\ req[s].browser \in Browsers
         /\ UNCHANGED <<user, row, epoch, tangled, edits, crossed>>
         /\ req[s].at \in {"done", "refused"} /\ (req[s].at = "done" => req[s].new # None)
         /\ cookie'[req[s].browser] = IF req[s].at = "done" THEN req[s].new ELSE None
         /\ \A c \in Browsers \ {req[s].browser} : cookie'[c] = cookie[c]
<1> DEFINE b == req[s].browser
           t == req[s].new
<1>1. /\ req[s] \in ReqType /\ RequestSound(s) /\ TypeOK /\ req[s].at \in {"done", "refused"}
      /\ cookie' = [cookie EXCEPT ![b] = IF req[s].at = "done" THEN t ELSE None]
      /\ Step(s, Idle) /\ UNCHANGED <<user, row, epoch, tangled, edits, crossed>>
  BY DEF Sound, TypeOK, Respond
<1>2. b \in Browsers
  <2>1. req[s].op \in {"login", "refresh", "logout"}
    BY <1>1 DEF ReqType, Ops, RequestSound, Idle
  <2> QED  BY <1>1, <2>1 DEF RequestSound
<1>3. /\ req[s].at = "done" => Issued(t) /\ t \in Tokens /\ t # None
      /\ t # None => req[s].at = "done"
  BY <1>1 DEF RequestSound, Issued, NamesAreDistinct
<1>4. /\ req' \in [Slots -> ReqType] /\ req'[s] = Idle /\ OthersWait(s) /\ RequestSound(s)'
  BY <1>1, Finishes
<1>5. /\ cookie'[b] = IF req[s].at = "done" THEN t ELSE None
      /\ \A c \in Browsers \ {b} : cookie'[c] = cookie[c]
  BY <1>1, <1>2 DEF TypeOK
<1>6. TypeOK'
  BY <1>1, <1>3, <1>4 DEF TypeOK
<1>7. \A o \in Tokens : RowSound(o)'
  BY <1>1 DEF Sound, RowSound, Issued
<1>8. \A o \in Slots : RequestSound(o)'
  <2>1. Idle' = Idle
    BY DEF Idle
  <2>2. ASSUME NEW o \in Slots, o # s PROVE RequestSound(o)'
    BY <1>1, <1>4, <2>1, <2>2 DEF Sound, RequestSound, Issued, OthersWait
  <2> QED  BY <1>4, <2>2
<1>9. TokensApart'
  <2>1. ASSUME NEW c \in Browsers, c # b, cookie[c] # None
        PROVE  /\ Issued(cookie[c])
               /\ \A d \in Browsers : cookie'[d] = cookie[c] => d = c
               /\ \A o \in Slots : req'[o].tok = cookie[c] => req'[o].browser = c
    BY <1>3, <1>4, <1>5, <2>1 DEF Sound, TokensApart, OthersWait, Idle
  <2>2. ASSUME cookie'[b] # None
        PROVE  /\ Issued(t) /\ cookie'[b] = t
               /\ \A d \in Browsers : cookie'[d] = t => d = b
               /\ \A o \in Slots : req'[o].tok # t
    BY <1>3, <1>4, <1>5, <2>2 DEF Sound, TokensApart, OthersWait, Idle
  <2>3. ASSUME NEW c \in Browsers, cookie'[c] # None
        PROVE  /\ Issued(cookie'[c])
               /\ \A d \in Browsers : cookie'[d] = cookie'[c] => d = c
               /\ \A o \in Slots : req'[o].tok = cookie'[c] => req'[o].browser = c
    BY <1>5, <2>1, <2>2, <2>3
  <2>4. ASSUME NEW o \in Slots, req'[o].new # None
        PROVE  /\ \A c \in Browsers : cookie'[c] # req'[o].new
               /\ \A p \in Slots : req'[p].tok # req'[o].new /\ (p # o => req'[p].new # req'[o].new)
    <3>1. o # s /\ req'[o] = req[o]
      BY <1>4, <2>4 DEF OthersWait, Idle
    <3>2. /\ \A c \in Browsers : cookie[c] # req[o].new
          /\ \A p \in Slots : req[p].tok # req[o].new /\ (p # o => req[p].new # req[o].new)
      BY <2>4, <3>1 DEF Sound, TokensApart
    <3>3. \A c \in Browsers : cookie'[c] # req[o].new
      BY <1>5, <2>4, <3>1, <3>2
    <3> QED  BY <1>4, <2>4, <3>1, <3>2, <3>3 DEF OthersWait, Idle
  <2> QED  BY <1>1, <2>3, <2>4 DEF TokensApart, Issued
<1>10. OneExchange'
  BY <1>1, <1>4 DEF Sound, OneExchange, OthersWait, Idle
<1> QED  BY <1>1, <1>2, <1>3, <1>4, <1>5, <1>6, <1>7, <1>8, <1>9, <1>10 DEF Sound

\* Retention deletes a row that no request and no browser has.
LEMMA SoundPrune ==
  ASSUME NamesAreDistinct, Sound, NEW t \in Tokens, Prune(t)
  PROVE  /\ Sound' /\ UNCHANGED <<user, cookie, req, epoch, tangled, edits, crossed>>
         /\ row'[t].st = "pruned" /\ \A o \in Tokens \ {t} : row'[o] = row[o]
         /\ \A s \in Slots : req[s].tok # t /\ req[s].new # t
         /\ \A b \in Browsers : cookie[b] # t
<1> DEFINE n == [FreeRow EXCEPT !.st = "pruned"]
<1>1. /\ TypeOK /\ UNCHANGED <<user, cookie, req, epoch, tangled, edits, crossed>>
      /\ \A s \in Slots : req[s].tok # t /\ req[s].new # t
      /\ \A b \in Browsers : cookie[b] # t
      /\ row' = [row EXCEPT ![t] = n]
  BY DEF Sound, Prune
<1>2. n \in RowType /\ n.st = "pruned"
  BY DEF FreeRow, RowType
<1> HIDE DEF n
<1>3. /\ row' \in [Tokens -> RowType] /\ row'[t].st = "pruned" /\ \A o \in Tokens \ {t} : row'[o] = row[o]
  BY <1>1, <1>2 DEF TypeOK
<1>4. TypeOK'
  BY <1>1, <1>3 DEF TypeOK
<1>5. ASSUME NEW o \in Tokens PROVE RowSound(o)'
  BY <1>1, <1>3 DEF Sound, RowSound, Issued
<1>6. ASSUME NEW o \in Slots PROVE RequestSound(o)'
  <2>1. RequestSound(o) /\ Idle' = Idle
    BY DEF Sound, Idle
  <2>2. req[o].op \in {"refresh", "logout"} =>
          /\ req[o].tok \in Tokens /\ row'[req[o].tok] = row[req[o].tok]
    BY <1>1, <1>3, <2>1 DEF RequestSound, Issued
  <2>3. req[o].at \in {"inserted", "done"} =>
          req[o].new \in Tokens /\ row'[req[o].new] = row[req[o].new]
    BY <1>1, <1>3, <2>1 DEF RequestSound, Issued
  <2> QED  BY <1>1, <2>1, <2>2, <2>3 DEF RequestSound, Issued
<1>7. TokensApart'
  BY <1>1, <1>3 DEF Sound, TokensApart, Issued
<1>8. OneExchange'
  <2>1. \A o \in Slots : req[o].tok # None => row'[req[o].tok] = row[req[o].tok]
    BY <1>1, <1>3 DEF TypeOK, ReqType
  <2> QED  BY <1>1, <2>1 DEF Sound, OneExchange
<1> QED  BY <1>1, <1>3, <1>4, <1>5, <1>6, <1>7, <1>8 DEF Sound

-----------------------------------------------------------------------------
(***************************************************************************)
(* Ended sessions.                                                         *)
(***************************************************************************)

\* A step that ends no session and issues no token keeps EndedInv, if what the
\* request takes up is of the epoch it has seen.
LEMMA EndedStep ==
  ASSUME Sound, EndedInv, RowsKept, epoch' = epoch, NEW s, OthersWait(s),
         s \in Slots /\ req'[s].op = "refresh" /\ req'[s].at \in {"consumed", "checked"} =>
           req'[s].tok \in Tokens
             /\ (row[req'[s].tok].late \/ row[req'[s].tok].epoch = req'[s].seen)
  PROVE  EndedInv'
<1>1. EndedSessionsStayEnded'
  BY DEF EndedInv, EndedSessionsStayEnded, RowsKept, Live
<1>2. ASSUME NEW o \in Slots, req'[o].op = "refresh", req'[o].at \in {"consumed", "checked"}
      PROVE  row'[req'[o].tok].late \/ row'[req'[o].tok].epoch = req'[o].seen
  <2>1. CASE o = s
    BY <1>2, <2>1 DEF RowsKept
  <2>2. CASE o # s
    <3>1. req'[o] = req[o]
      BY <2>2 DEF OthersWait
    <3>2. req[o].tok \in Tokens
      BY <1>2, <3>1 DEF Sound, RequestSound, Issued
    <3> QED  BY <1>2, <3>1, <3>2 DEF EndedInv, RowsKept
  <2> QED  BY <2>1, <2>2
<1> QED  BY <1>1, <1>2 DEF EndedInv

\* A token that may be exchanged is of the epoch its request has seen.
LEMMA EndedConsume ==
  ASSUME Sound, EndedInv, NEW s \in Slots, Consume(s)
  PROVE  EndedInv'
<1>1. /\ OthersWait(s) /\ row' = row /\ epoch' = epoch /\ req'[s].tok = req[s].tok
      /\ req'[s].seen = epoch[row[req[s].tok].user]
      /\ req'[s].at = "consumed" => Live(req[s].tok)
      /\ req'[s].at # "checked"
  BY SoundConsume
<1>2. req[s].tok \in Tokens
  BY DEF Consume, Sound, RequestSound, Issued
<1>3. RowsKept
  BY <1>1 DEF RowsKept
<1>4. req'[s].at = "consumed" => row[req[s].tok].late \/ row[req[s].tok].epoch = req'[s].seen
  BY <1>1, <1>2 DEF EndedInv, EndedSessionsStayEnded
<1> QED  BY <1>1, <1>2, <1>3, <1>4, EndedStep

\* The look at the account changes nothing that EndedInv is about.
LEMMA EndedCheckUser ==
  ASSUME Sound, EndedInv, NEW s \in Slots, CheckUser(s)
  PROVE  EndedInv'
<1>1. /\ OthersWait(s) /\ row' = row /\ epoch' = epoch /\ req'[s].tok = req[s].tok
      /\ req'[s].seen = req[s].seen /\ req[s].op = "refresh" /\ req[s].at = "consumed"
  BY SoundCheckUser
<1>2. req[s].tok \in Tokens
  BY <1>1 DEF Sound, RequestSound, Issued
<1>3. RowsKept
  BY <1>1 DEF RowsKept
<1>4. row[req[s].tok].late \/ row[req[s].tok].epoch = req'[s].seen
  BY <1>1 DEF EndedInv
<1> QED  BY <1>1, <1>2, <1>3, <1>4, EndedStep

\* A token issued behind the end of its account's sessions is late.
LEMMA EndedInsert ==
  ASSUME NamesAreDistinct, Sound, EndedInv, NEW s \in Slots, NEW t \in Tokens, Insert(s, t)
  PROVE  EndedInv'
<1>1. /\ row'[t].user = req[s].user /\ row' = [row EXCEPT ![t] = row'[t]] /\ TypeOK
      /\ row[t].st = "free" /\ req[s].at = "checked"
      /\ \/ /\ row'[t].epoch = req[s].seen /\ row'[t].late = (req[s].seen # epoch[req[s].user])
         \/ /\ req[s].op = "refresh" /\ row'[t].epoch = row[req[s].tok].epoch
            /\ row'[t].late = (req[s].seen # epoch[req[s].user] \/ row[req[s].tok].late)
  BY Issuing
<1>2. /\ OthersWait(s) /\ epoch' = epoch /\ req'[s].at \in {"inserted", "done"}
  BY IssuingRequest
<1>3. \A o \in Tokens \ {t} : row'[o] = row[o]
  BY <1>1 DEF TypeOK
<1>4. \A o \in Slots : req[o].tok # t
  BY <1>1, InUse
<1>5. req[s].op = "refresh" => row[req[s].tok].late \/ row[req[s].tok].epoch = req[s].seen
  BY <1>1 DEF EndedInv
<1>6. row'[t].late \/ row'[t].epoch = epoch[req[s].user]
  <2>1. CASE row'[t].epoch = req[s].seen /\ row'[t].late = (req[s].seen # epoch[req[s].user])
    <3>1. CASE req[s].seen = epoch[req[s].user]
      BY <2>1, <3>1
    <3>2. CASE req[s].seen # epoch[req[s].user]
      BY <2>1, <3>2, Zenon
    <3> QED  BY <3>1, <3>2
  <2>2. CASE /\ req[s].op = "refresh" /\ row'[t].epoch = row[req[s].tok].epoch
             /\ row'[t].late = (req[s].seen # epoch[req[s].user] \/ row[req[s].tok].late)
    <3>1. CASE req[s].seen # epoch[req[s].user] \/ row[req[s].tok].late
      BY <2>2, <3>1, Zenon
    <3>2. CASE req[s].seen = epoch[req[s].user] /\ ~row[req[s].tok].late
      <4>1. row[req[s].tok].epoch = req[s].seen
        BY <1>5, <2>2, <3>2, Zenon
      <4> QED  BY <2>2, <3>2, <4>1, Zenon
    <3> QED  BY <3>1, <3>2
  <2> QED  BY <1>1, <2>1, <2>2
<1>7. EndedSessionsStayEnded'
  BY <1>1, <1>2, <1>3, <1>6 DEF EndedInv, EndedSessionsStayEnded, Live
<1>8. ASSUME NEW o \in Slots, req'[o].op = "refresh", req'[o].at \in {"consumed", "checked"}
      PROVE  row'[req'[o].tok].late \/ row'[req'[o].tok].epoch = req'[o].seen
  <2>1. o # s /\ req'[o] = req[o]
    BY <1>2, <1>8 DEF OthersWait
  <2>2. req[o].tok \in Tokens \ {t}
    BY <1>4, <1>8, <2>1 DEF Sound, RequestSound, Issued
  <2> QED  BY <1>3, <1>8, <2>1, <2>2 DEF EndedInv
<1> QED  BY <1>7, <1>8 DEF EndedInv

\* Nor does retention: no request has the row in hand.
LEMMA EndedPrune ==
  ASSUME NamesAreDistinct, Sound, EndedInv, NEW t \in Tokens, Prune(t)
  PROVE  EndedInv'
<1>1. /\ epoch' = epoch /\ req' = req /\ row'[t].st = "pruned"
      /\ \A o \in Tokens \ {t} : row'[o] = row[o]
      /\ \A s \in Slots : req[s].tok # t
  BY SoundPrune
<1>2. EndedSessionsStayEnded'
  BY <1>1 DEF EndedInv, EndedSessionsStayEnded, Live
<1>3. ASSUME NEW o \in Slots, req[o].op = "refresh", req[o].at \in {"consumed", "checked"}
      PROVE  row'[req[o].tok].late \/ row'[req[o].tok].epoch = req[o].seen
  <2>1. req[o].tok \in Tokens \ {t}
    BY <1>1, <1>3 DEF Sound, RequestSound, Issued
  <2> QED  BY <1>1, <1>3, <2>1 DEF EndedInv
<1> QED  BY <1>1, <1>2, <1>3 DEF EndedInv

\* The end of an account's sessions leaves it no live token.
LEMMA EndedEndSessions ==
  ASSUME NamesAreDistinct, Sound, EndedInv, NEW s \in Slots, EndSessions(s)
  PROVE  EndedInv'
<1> DEFINE u == req[s].user
<1>1. /\ TypeOK /\ RowsKept /\ OthersWait(s) /\ req'[s] = Idle /\ u \in Users
      /\ row' = RevokeAll(u) /\ epoch' = [epoch EXCEPT ![u] = epoch[u] + 1]
  BY SoundEndSessions DEF Sound
<1>2. ASSUME NEW t \in Tokens, row'[t].st = "live"
      PROVE  row'[t].late \/ row'[t].epoch = epoch'[row'[t].user]
  <2>1. Live(t) /\ row[t].user # u
    BY <1>1, <1>2, Revocation DEF Live
  <2>2. row[t].late \/ row[t].epoch = epoch[row[t].user]
    BY <2>1 DEF EndedInv, EndedSessionsStayEnded
  <2>3. row[t].user \in Users
    BY <2>1 DEF Sound, RowSound, Issued, Live
  <2>4. epoch'[row[t].user] = epoch[row[t].user]
    BY <1>1, <2>1, <2>3 DEF TypeOK
  <2> QED  BY <1>1, <2>2, <2>4 DEF RowsKept
<1>3. ASSUME NEW o \in Slots, req'[o].op = "refresh", req'[o].at \in {"consumed", "checked"}
      PROVE  row'[req'[o].tok].late \/ row'[req'[o].tok].epoch = req'[o].seen
  <2>1. o # s /\ req'[o] = req[o]
    BY <1>1, <1>3 DEF OthersWait, Idle
  <2>2. req[o].tok \in Tokens
    BY <1>3, <2>1 DEF Sound, RequestSound, Issued
  <2> QED  BY <1>1, <1>3, <2>1, <2>2 DEF EndedInv, RowsKept
<1> QED  BY <1>2, <1>3 DEF EndedInv, EndedSessionsStayEnded, Live

-----------------------------------------------------------------------------
(***************************************************************************)
(* One token per sign-in.                                                  *)
(***************************************************************************)

\* A step that issues no token keeps SingleInv, if a predecessor it lets go is
\* no longer live.
LEMMA SingleStep ==
  ASSUME NamesAreDistinct, Sound, SingleInv, RowsKept, tangled \subseteq tangled',
         NEW s, OthersWait(s),
         s \in Slots => /\ req[s].at = "inserted" => row'[req[s].tok].st # "live"
                        /\ OnlyLive(s)'
  PROVE  SingleInv'
<1>1. ASSUME NEW t \in Tokens, NEW o \in Tokens, row'[t].st = "live", row'[o].st = "live", t # o,
             row'[t].root = row'[o].root, row'[t].user \notin tangled'
      PROVE  \E w \in Slots : req'[w].at = "inserted" /\ {t, o} = {req'[w].tok, req'[w].new}
  <2>1. Live(t) /\ Live(o) /\ row[t].root = row[o].root /\ row[t].user \notin tangled
    BY <1>1 DEF RowsKept, Live
  <2>2. PICK w \in Slots : req[w].at = "inserted" /\ {t, o} = {req[w].tok, req[w].new}
    BY <1>1, <2>1 DEF SingleInv, OneTokenPerSignIn
  <2>3. w # s
    BY <1>1, <2>2
  <2> QED  BY <2>2, <2>3 DEF OthersWait
<1>2. ASSUME NEW o \in Slots, o # s PROVE OnlyLive(o)'
  <2>1. req'[o] = req[o]
    BY <1>2 DEF OthersWait
  <2>2. SUFFICES ASSUME req[o].op = "refresh", req[o].at \in {"consumed", "checked", "inserted"},
                        row'[req[o].tok].user \notin tangled',
                        NEW p \in Tokens, row'[p].st = "live", row'[p].root = row'[req[o].tok].root
                 PROVE  p \in {req[o].tok, req[o].new}
    BY <2>1 DEF OnlyLive, Live
  <2>3. req[o].tok \in Tokens
    BY <2>2 DEF Sound, RequestSound, Issued
  <2>4. Live(p) /\ row[p].root = row[req[o].tok].root /\ row[req[o].tok].user \notin tangled
    BY <2>2, <2>3 DEF RowsKept, Live
  <2> QED  BY <2>2, <2>4 DEF SingleInv, OnlyLive
<1>3. \A o \in Slots : OnlyLive(o)'
  BY <1>2
<1> QED  BY <1>1, <1>3 DEF SingleInv, OneTokenPerSignIn, Live

\* A token that may be exchanged is the only live one of its sign-in.
LEMMA SingleConsume ==
  ASSUME NamesAreDistinct, Sound, SingleInv, NEW s \in Slots, Consume(s)
  PROVE  SingleInv'
<1>1. /\ OthersWait(s) /\ row' = row /\ tangled' = tangled /\ req'[s].tok = req[s].tok
      /\ req'[s].new = None
      /\ req'[s].at = "consumed" => Live(req[s].tok)
      /\ req'[s].at \in {"replayed", "refused", "consumed"}
  BY SoundConsume
<1>2. req[s].tok \in Tokens /\ req[s].at = "sent"
  BY DEF Consume, Sound, RequestSound, Issued
<1>3. RowsKept
  BY <1>1 DEF RowsKept
<1>4. OnlyLive(s)'
  <2>1. SUFFICES ASSUME Live(req[s].tok), row[req[s].tok].user \notin tangled, NEW o \in Tokens,
                        Live(o), row[o].root = row[req[s].tok].root, o # req[s].tok
                 PROVE  FALSE
    BY <1>1, <1>2 DEF OnlyLive, Live
  <2>2. PICK w \in Slots : req[w].at = "inserted" /\ {req[s].tok, o} = {req[w].tok, req[w].new}
    BY <1>2, <2>1 DEF SingleInv, OneTokenPerSignIn
  <2>3. req[w].new # None
    BY <2>2, <1>2, <2>1 DEF NamesAreDistinct
  <2>4. req[s].tok # req[w].new
    BY <2>3 DEF Sound, TokensApart
  <2>5. req[w].tok = req[s].tok /\ w # s /\ req[s].tok # None
    BY <1>2, <2>2, <2>4 DEF NamesAreDistinct
  <2> QED  BY <2>1, <2>5 DEF Sound, OneExchange
<1> QED  BY <1>1, <1>2, <1>3, <1>4, SingleStep

\* The look at the account leaves the token the only live one.
LEMMA SingleCheckUser ==
  ASSUME NamesAreDistinct, Sound, SingleInv, NEW s \in Slots, CheckUser(s)
  PROVE  SingleInv'
<1>1. /\ OthersWait(s) /\ row' = row /\ tangled' = tangled /\ req'[s].tok = req[s].tok
      /\ req'[s].new = None /\ req[s].op = "refresh" /\ req[s].at = "consumed" /\ req[s].new = None
  BY SoundCheckUser DEF Sound, RequestSound
<1>2. RowsKept
  BY <1>1 DEF RowsKept
<1>3. OnlyLive(s)'
  BY <1>1 DEF SingleInv, OnlyLive, Live
<1> QED  BY <1>1, <1>2, <1>3, SingleStep

\* Until its predecessor is revoked, a new token shares the sign-in with it alone.
LEMMA SingleInsert ==
  ASSUME NamesAreDistinct, Sound, SingleInv, NEW s \in Slots, NEW t \in Tokens, Insert(s, t)
  PROVE  SingleInv'
<1>1. /\ row'[t].user = req[s].user /\ row' = [row EXCEPT ![t] = row'[t]] /\ TypeOK
      /\ row[t].st = "free" /\ req[s].at = "checked" /\ req[s].new = None
      /\ \/ /\ req[s].op = "login" /\ row'[t].root = t
         \/ /\ req[s].op = "refresh" /\ Issued(req[s].tok) /\ row'[t].root = row[req[s].tok].root
            /\ row[req[s].tok].user = req[s].user
  BY Issuing
<1>2. /\ OthersWait(s) /\ tangled' = tangled /\ req'[s].op = req[s].op /\ req'[s].tok = req[s].tok
      /\ req'[s].new = t /\ req'[s].at = IF req[s].op = "refresh" THEN "inserted" ELSE "done"
  BY IssuingRequest
<1>3. /\ \A o \in Tokens \ {t} : row'[o] = row[o]
      /\ \A o \in Slots : req[o].tok # t /\ req[o].new # t
      /\ \A o \in Tokens : Issued(o) => row[o].root # t
  BY <1>1, InUse DEF TypeOK
<1>4. ASSUME NEW o \in Tokens, o # t, row'[o].st = "live", row'[o].root = row'[t].root,
             row'[t].user \notin tangled
      PROVE  req[s].op = "refresh" /\ o = req[s].tok
  <2>1. Live(o) /\ Issued(o) /\ row[o].root = row'[t].root
    BY <1>3, <1>4 DEF Live, Issued
  <2>2. /\ req[s].op = "refresh" /\ row[o].root = row[req[s].tok].root
        /\ row[req[s].tok].user = req[s].user
    BY <1>1, <1>3, <2>1
  <2> QED  BY <1>1, <1>4, <2>1, <2>2 DEF SingleInv, OnlyLive, NamesAreDistinct
<1>5. ASSUME NEW o \in Tokens, NEW p \in Tokens, o # p, row'[o].st = "live", row'[p].st = "live",
             row'[o].root = row'[p].root, row'[o].user \notin tangled
      PROVE  \E w \in Slots : req'[w].at = "inserted" /\ {o, p} = {req'[w].tok, req'[w].new}
  <2>1. row'[o].user = row'[p].user
    BY <1>5, SoundInsert DEF Sound, RowSound, Issued
  <2>2. CASE o = t
    BY <1>2, <1>4, <1>5, <2>1, <2>2
  <2>3. CASE p = t
    BY <1>2, <1>4, <1>5, <2>1, <2>3
  <2>4. CASE o # t /\ p # t
    <3>1. PICK w \in Slots : req[w].at = "inserted" /\ {o, p} = {req[w].tok, req[w].new}
      BY <1>3, <1>5, <2>4 DEF SingleInv, OneTokenPerSignIn, Live
    <3>2. w # s
      BY <1>1, <3>1
    <3> QED  BY <1>2, <3>1, <3>2 DEF OthersWait
  <2> QED  BY <2>2, <2>3, <2>4
<1>6. ASSUME NEW o \in Slots PROVE OnlyLive(o)'
  <2>1. CASE o = s
    BY <1>1, <1>2, <1>3, <1>4, <2>1 DEF OnlyLive, Live, Issued
  <2>2. CASE o # s
    <3>1. req'[o] = req[o]
      BY <1>2, <2>2 DEF OthersWait
    <3>2. SUFFICES ASSUME req[o].op = "refresh", req[o].at \in {"consumed", "checked", "inserted"},
                          row'[req[o].tok].user \notin tangled,
                          NEW p \in Tokens, row'[p].st = "live", row'[p].root = row'[req[o].tok].root
                   PROVE  p \in {req[o].tok, req[o].new}
      BY <1>2, <3>1 DEF OnlyLive, Live
    <3>3. Issued(req[o].tok) /\ req[o].tok \in Tokens \ {t} /\ row'[req[o].tok] = row[req[o].tok]
      BY <1>3, <3>2 DEF Sound, RequestSound, Issued
    <3>4. CASE p # t
      BY <1>3, <3>2, <3>3, <3>4 DEF SingleInv, OnlyLive, Live
    <3>5. CASE p = t
      <4>1. /\ req[s].op = "refresh" /\ Issued(req[s].tok) /\ row[req[o].tok].root = row[req[s].tok].root
        BY <1>1, <1>3, <3>2, <3>3, <3>5
      <4>2. row[req[o].tok].user = row[req[s].tok].user
        BY <3>3, <4>1 DEF Sound, RowSound, Issued
      <4>3. req[o].tok # None /\ req[s].tok # None
        BY <3>3, <4>1 DEF Issued, NamesAreDistinct
      <4> QED  BY <2>2, <3>2, <3>3, <4>2, <4>3 DEF Sound, OneExchange
    <3> QED  BY <3>4, <3>5
  <2> QED  BY <2>1, <2>2
<1> QED  BY <1>2, <1>5, <1>6 DEF SingleInv, OneTokenPerSignIn, Live

\* Retention adds no live token, and takes none from a request.
LEMMA SinglePrune ==
  ASSUME NamesAreDistinct, Sound, SingleInv, NEW t \in Tokens, Prune(t)
  PROVE  SingleInv'
<1>1. /\ tangled' = tangled /\ req' = req /\ row'[t].st = "pruned"
      /\ \A o \in Tokens \ {t} : row'[o] = row[o]
      /\ \A s \in Slots : req[s].tok # t
  BY SoundPrune
<1>2. OneTokenPerSignIn'
  BY <1>1 DEF SingleInv, OneTokenPerSignIn, Live
<1>3. ASSUME NEW o \in Slots PROVE OnlyLive(o)'
  <2>1. req[o].op = "refresh" => req[o].tok \in Tokens \ {t}
    BY <1>1 DEF Sound, RequestSound, Issued
  <2> QED  BY <1>1, <2>1 DEF SingleInv, OnlyLive, Live
<1> QED  BY <1>2, <1>3 DEF SingleInv

-----------------------------------------------------------------------------
(***************************************************************************)
(* Cookies.                                                                *)
(***************************************************************************)

\* What a browser or an answer holds is a token of an account.
LEMMA Held ==
  ASSUME NamesAreDistinct, Sound
  PROVE  /\ \A b \in Browsers : cookie[b] # None =>
              cookie[b] \in Tokens /\ Issued(cookie[b]) /\ row[cookie[b]].user \in Users
         /\ \A s \in Slots : req[s].new # None =>
              /\ req[s].new \in Tokens /\ Issued(req[s].new) /\ row[req[s].new].user \in Users
              /\ req[s].at \in {"inserted", "done"}
         /\ \A s \in Slots : req[s].tok # None =>
              /\ req[s].tok \in Tokens /\ Issued(req[s].tok) /\ row[req[s].tok].user \in Users
              /\ req[s].op \in {"refresh", "logout"}
<1>1. \A b \in Browsers : cookie[b] # None =>
        cookie[b] \in Tokens /\ Issued(cookie[b]) /\ row[cookie[b]].user \in Users
  BY DEF Sound, TokensApart, Issued, RowSound
<1>2. ASSUME NEW s \in Slots, req[s].new # None
      PROVE  /\ req[s].new \in Tokens /\ Issued(req[s].new) /\ row[req[s].new].user \in Users
             /\ req[s].at \in {"inserted", "done"}
  BY <1>2 DEF Sound, RequestSound, Issued, RowSound
<1>3. ASSUME NEW s \in Slots, req[s].tok # None
      PROVE  /\ req[s].tok \in Tokens /\ Issued(req[s].tok) /\ row[req[s].tok].user \in Users
             /\ req[s].op \in {"refresh", "logout"}
  <2>1. req[s] \in ReqType /\ RequestSound(s)
    BY DEF Sound, TypeOK
  <2>2. req[s].op \in {"refresh", "logout"}
    BY <1>3, <2>1 DEF ReqType, Ops, RequestSound, Idle
  <2> QED  BY <2>1, <2>2 DEF RequestSound, Sound, RowSound, Issued
<1> QED  BY <1>1, <1>2, <1>3

\* A request that goes on and leaves rows and cookies alone keeps CookieInv.
LEMMA CookieStep ==
  ASSUME CookieInv, UNCHANGED <<row, cookie, epoch>>, tangled \subseteq tangled',
         NEW s \in Slots, OthersWait(s), req[s].at \notin {"done", "refused"}, AnswerKept(s)'
  PROVE  CookieInv'
<1>1. ASSUME NEW b \in Browsers PROVE CookieKept(b)'
  <2>1. SUFFICES ASSUME cookie[b] # None, row[cookie[b]].user \notin tangled
                 PROVE  /\ \/ Good(cookie[b])
                           \/ \E w \in Slots : req'[w].tok = cookie[b] /\ req'[w].at \in {"done", "refused"}
                        /\ row[cookie[b]].next # None =>
                             \E w \in Slots : req'[w].tok = cookie[b] /\ req'[w].at = "done"
    BY DEF CookieKept, Good
  <2>2. CookieKept(b)
    BY DEF CookieInv
  <2> QED  BY <2>1, <2>2 DEF CookieKept, OthersWait
<1>2. ASSUME NEW o \in Slots, o # s PROVE AnswerKept(o)'
  <2>1. AnswerKept(o) /\ req'[o] = req[o]
    BY <1>2 DEF CookieInv, OthersWait
  <2> QED  BY <2>1 DEF AnswerKept, Good
<1> QED  BY <1>1, <1>2 DEF CookieInv

\* A browser that presents an untangled account's cookie presents a token not rotated.
LEMMA CookieSend ==
  ASSUME NamesAreDistinct, Sound, CookieInv, NEW s \in Slots, NEW b \in Browsers,
         NEW op \in {"refresh", "logout"}, Send(s, b, op)
  PROVE  CookieInv'
<1> DEFINE r == [Idle EXCEPT !.op = op, !.at = "sent", !.browser = b, !.tok = cookie[b]]
<1>1. cookie[b] # None /\ cookie[b] \in Tokens
  BY DEF Sound, TypeOK, Send
<1>2. r \in ReqType /\ r.op = op /\ r.at = "sent" /\ r.tok = cookie[b] /\ r.new = None
  BY <1>1 DEF Idle, ReqType, Ops, Places
<1>3. /\ Step(s, r) /\ UNCHANGED <<row, cookie, epoch>> /\ ~InFlight(s)
      /\ tangled' = tangled \cup TangledBySending(cookie[b])
  BY DEF Send
<1> HIDE DEF r
<1>4. req'[s] = r /\ OthersWait(s)
  BY <1>2, <1>3, Steps DEF Sound
<1>5. ASSUME row[cookie[b]].user \notin tangled' PROVE row[cookie[b]].next = None
  <2>1. SUFFICES ASSUME row[cookie[b]].next # None PROVE FALSE
    OBVIOUS
  <2>2. PICK w \in Slots : req[w].tok = cookie[b] /\ req[w].at = "done"
    BY <1>1, <1>3, <1>5, <2>1 DEF CookieInv, CookieKept
  <2>3. InFlight(w)
    BY <2>2 DEF InFlight, Sound, RequestSound, Idle
  <2>4. row[cookie[b]].user \in TangledBySending(cookie[b])
    BY <1>1, <2>2, <2>3 DEF TangledBySending, Owner
  <2> QED  BY <1>3, <1>5, <2>4
<1>6. AnswerKept(s)'
  BY <1>2, <1>3, <1>4, <1>5 DEF AnswerKept
<1>7. req[s].at = "idle"
  BY <1>3 DEF InFlight, Sound, RequestSound, Idle
<1> QED  BY <1>3, <1>4, <1>6, <1>7, CookieStep

\* A replay is of an account whose exchanges overlapped or were lost.
LEMMA CookieConsume ==
  ASSUME NamesAreDistinct, Sound, CookieInv, NEW s \in Slots, Consume(s)
  PROVE  CookieInv'
<1>1. /\ OthersWait(s) /\ UNCHANGED <<row, cookie, epoch, tangled>>
      /\ req'[s].new = None /\ req'[s].user = row[req[s].tok].user
      /\ req'[s].at = IF row[req[s].tok].next # None THEN "replayed"
                      ELSE IF ~Live(req[s].tok) \/ row[req[s].tok].expired THEN "refused"
                      ELSE "consumed"
  BY SoundConsume
<1>2. req[s].op = "refresh" /\ req[s].at = "sent"
  BY DEF Consume
<1>3. row[req[s].tok].user \notin tangled => row[req[s].tok].next = None
  BY <1>2 DEF CookieInv, AnswerKept
<1>4. AnswerKept(s)'
  BY <1>1, <1>3 DEF AnswerKept
<1> QED  BY <1>1, <1>2, <1>4, CookieStep

\* The look at the account carries no token.
LEMMA CookieCheckUser ==
  ASSUME NamesAreDistinct, Sound, CookieInv, NEW s \in Slots, CheckUser(s)
  PROVE  CookieInv'
<1>1. /\ OthersWait(s) /\ UNCHANGED <<row, cookie, epoch, tangled>>
      /\ req'[s].new = None /\ req'[s].at \in {"checked", "refused"} /\ req[s].at = "consumed"
  BY SoundCheckUser
<1>2. AnswerKept(s)'
  BY <1>1 DEF AnswerKept
<1> QED  BY <1>1, <1>2, CookieStep

\* The sessions that a replay ends are those of a tangled account.
LEMMA CookieBurn ==
  ASSUME NamesAreDistinct, Sound, CookieInv, NEW s \in Slots, Burn(s)
  PROVE  CookieInv'
<1>1. /\ TypeOK /\ OthersWait(s) /\ UNCHANGED <<cookie, epoch, tangled>>
      /\ req[s].at = "replayed" /\ row' = RevokeAll(req[s].user) /\ RowsKept
      /\ req'[s].at = "refused" /\ req'[s].new = None
  BY SoundBurn DEF Sound
<1>2. req[s].user \in tangled /\ req[s].user \in Users \cup {ServiceAdmin, None}
  BY <1>1 DEF CookieInv, AnswerKept, TypeOK, ReqType
<1>3. ASSUME NEW t \in Tokens, row[t].user \notin tangled PROVE row'[t] = row[t]
  BY <1>1, <1>2, <1>3 DEF RevokeAll
<1>4. \A t \in Tokens : row'[t].user = row[t].user
  BY <1>1 DEF RowsKept
<1>5. ASSUME NEW b \in Browsers PROVE CookieKept(b)'
  <2>1. SUFFICES ASSUME cookie[b] # None, row'[cookie[b]].user \notin tangled
                 PROVE  /\ \/ Good(cookie[b])'
                           \/ \E w \in Slots : req'[w].tok = cookie[b] /\ req'[w].at \in {"done", "refused"}
                        /\ row'[cookie[b]].next # None =>
                             \E w \in Slots : req'[w].tok = cookie[b] /\ req'[w].at = "done"
    BY <1>1 DEF CookieKept
  <2>2. cookie[b] \in Tokens
    BY <2>1, Held
  <2>3. row'[cookie[b]] = row[cookie[b]]
    BY <1>3, <1>4, <2>1, <2>2
  <2>4. CookieKept(b)
    BY DEF CookieInv
  <2> QED  BY <1>1, <2>1, <2>3, <2>4 DEF CookieKept, OthersWait, Good
<1>6. ASSUME NEW o \in Slots, o # s PROVE AnswerKept(o)'
  <2>1. AnswerKept(o) /\ req'[o] = req[o]
    BY <1>1, <1>6 DEF CookieInv, OthersWait
  <2>2. /\ req[o].new # None => req[o].new \in Tokens /\ row[req[o].new].st \in {"live", "revoked"}
        /\ req[o].op = "refresh" => req[o].tok \in Tokens
    BY Held DEF Sound, RequestSound, Issued
  <2>3. \A t \in Tokens : row'[t].next = row[t].next
    BY <1>1, <1>2, Revocation
  <2> QED  BY <1>1, <1>3, <1>4, <2>1, <2>2, <2>3 DEF AnswerKept, Good
<1>7. AnswerKept(s)'
  BY <1>1 DEF AnswerKept
<1> QED  BY <1>5, <1>6, <1>7 DEF CookieInv

\* The answer that replaces a rotated cookie is on its way.
LEMMA CookieRotate ==
  ASSUME NamesAreDistinct, Sound, CookieInv, NEW s \in Slots, Rotate(s)
  PROVE  CookieInv'
<1> DEFINE t == req[s].tok
<1>1. /\ OthersWait(s) /\ UNCHANGED <<cookie, epoch, tangled>> /\ t \in Tokens
      /\ req[s].at = "inserted" /\ req'[s].at = "done" /\ RowsKept
      /\ req'[s].tok = t /\ req'[s].new = req[s].new /\ t # req[s].new
      /\ \A o \in Tokens \ {t} : row'[o] = row[o]
  BY SoundRotate
<1>2. ASSUME NEW b \in Browsers PROVE CookieKept(b)'
  <2>1. CASE cookie[b] = t
    BY <1>1, <2>1 DEF CookieKept
  <2>2. CASE cookie[b] # t
    <3>1. CookieKept(b)
      BY DEF CookieInv
    <3>2. cookie[b] # None => cookie[b] \in Tokens /\ row'[cookie[b]] = row[cookie[b]]
      BY <1>1, <2>2, Held
    <3> QED  BY <1>1, <3>1, <3>2 DEF CookieKept, OthersWait, Good
  <2> QED  BY <2>1, <2>2
<1>3. ASSUME NEW o \in Slots PROVE AnswerKept(o)'
  <2>1. AnswerKept(o)
    BY DEF CookieInv
  <2>2. ASSUME req[o].new # None PROVE row'[req[o].new] = row[req[o].new]
    BY <1>1, <2>2, Held DEF Sound, TokensApart
  <2>3. CASE o = s
    BY <1>1, <2>1, <2>2, <2>3 DEF AnswerKept, Good
  <2>4. CASE o # s
    <3>1. req'[o] = req[o]
      BY <1>1, <2>4 DEF OthersWait
    <3>2. ASSUME req[o].op = "refresh", row'[req[o].tok].user \notin tangled, req[o].tok = t
          PROVE  FALSE
      BY <1>1, <2>4, <3>2 DEF Sound, OneExchange, RowsKept, NamesAreDistinct
    <3>3. req[o].op = "refresh" => req[o].tok \in Tokens
      BY DEF Sound, RequestSound, Issued
    <3>4. req[o].op = "refresh" /\ row'[req[o].tok].user \notin tangled =>
            row'[req[o].tok] = row[req[o].tok]
      BY <1>1, <3>2, <3>3
    <3> QED  BY <1>1, <2>1, <2>2, <3>1, <3>4 DEF AnswerKept, Good
  <2> QED  BY <2>3, <2>4
<1> QED  BY <1>2, <1>3 DEF CookieInv

\* So is the answer that clears the cookie of a browser that signed out.
LEMMA CookieLogout ==
  ASSUME NamesAreDistinct, Sound, CookieInv, NEW s \in Slots, Logout(s)
  PROVE  CookieInv'
<1> DEFINE t == req[s].tok
<1>1. /\ OthersWait(s) /\ UNCHANGED <<cookie, epoch, tangled>> /\ t \in Tokens
      /\ req[s].at = "sent" /\ req'[s].at = "refused" /\ RowsKept
      /\ req'[s].tok = t /\ req'[s].new = None /\ row'[t].next = row[t].next
      /\ req'[s].op = "logout"
      /\ \A o \in Tokens \ {t} : row'[o] = row[o]
  BY SoundLogout
<1>2. ASSUME NEW b \in Browsers PROVE CookieKept(b)'
  <2>1. CookieKept(b)
    BY DEF CookieInv
  <2>2. CASE cookie[b] = t
    BY <1>1, <2>1, <2>2 DEF CookieKept, RowsKept, OthersWait
  <2>3. CASE cookie[b] # t
    <3>1. cookie[b] # None => cookie[b] \in Tokens /\ row'[cookie[b]] = row[cookie[b]]
      BY <1>1, <2>3, Held
    <3> QED  BY <1>1, <2>1, <3>1 DEF CookieKept, OthersWait, Good
  <2> QED  BY <2>2, <2>3
<1>3. ASSUME NEW o \in Slots, o # s PROVE AnswerKept(o)'
  <2>1. AnswerKept(o) /\ req'[o] = req[o]
    BY <1>1, <1>3 DEF CookieInv, OthersWait
  <2>2. ASSUME req[o].new # None PROVE row'[req[o].new] = row[req[o].new]
    BY <1>1, <2>2, Held DEF Sound, TokensApart
  <2>3. req[o].op = "refresh" => req[o].tok \in Tokens
    BY DEF Sound, RequestSound, Issued
  <2>4. \A p \in Tokens : row'[p].next = row[p].next /\ row'[p].user = row[p].user
    BY <1>1 DEF RowsKept
  <2> QED  BY <1>1, <2>1, <2>2, <2>3, <2>4 DEF AnswerKept, Good
<1>4. AnswerKept(s)'
  BY <1>1 DEF AnswerKept
<1> QED  BY <1>2, <1>3, <1>4 DEF CookieInv

\* What an admin ended, or expired, is good as it is.
LEMMA CookieGood ==
  ASSUME NamesAreDistinct, Sound, CookieInv, RowsKept, UNCHANGED <<cookie, tangled>>,
         \A t \in Tokens : /\ row'[t].next = row[t].next
                           /\ Issued(t) /\ Good(t) => Good(t)',
         NEW s, OthersWait(s),
         s \in Slots => /\ AnswerKept(s)' /\ req[s].at \notin {"done", "refused"}
  PROVE  CookieInv'
<1>1. ASSUME NEW b \in Browsers PROVE CookieKept(b)'
  <2>1. CookieKept(b) /\ (cookie[b] # None => cookie[b] \in Tokens /\ Issued(cookie[b]))
    BY Held DEF CookieInv
  <2>2. SUFFICES ASSUME cookie[b] # None, row'[cookie[b]].user \notin tangled
                 PROVE  /\ \/ Good(cookie[b])'
                           \/ \E w \in Slots : req'[w].tok = cookie[b] /\ req'[w].at \in {"done", "refused"}
                        /\ row'[cookie[b]].next # None =>
                             \E w \in Slots : req'[w].tok = cookie[b] /\ req'[w].at = "done"
    BY DEF CookieKept
  <2>3. row[cookie[b]].user \notin tangled /\ row'[cookie[b]].next = row[cookie[b]].next
    BY <2>1, <2>2 DEF RowsKept
  <2>4. Good(cookie[b]) => Good(cookie[b])'
    <3>1. PICK t \in Tokens : t = cookie[b] /\ Issued(t)
      BY <2>1, <2>2
    <3>2. Good(t) => Good(t)'
      BY <3>1
    <3> QED  BY <3>1, <3>2 DEF Good
  <2>5. \A w \in Slots : req[w].at \in {"done", "refused"} => req'[w] = req[w]
    BY DEF OthersWait
  <2> QED  BY <2>1, <2>2, <2>3, <2>4, <2>5 DEF CookieKept
<1>2. ASSUME NEW o \in Slots, o # s PROVE AnswerKept(o)'
  <2>1. AnswerKept(o) /\ req'[o] = req[o]
    BY <1>2 DEF CookieInv, OthersWait
  <2>2. /\ req[o].new # None => req[o].new \in Tokens /\ Issued(req[o].new)
        /\ req[o].op = "refresh" => req[o].tok \in Tokens
    BY Held DEF Sound, RequestSound, Issued
  <2>3. ASSUME req[o].new # None, Good(req[o].new)
        PROVE  row'[req[o].new].st = "live" \/ row'[req[o].new].expired
                 \/ row'[req[o].new].epoch # epoch'[row'[req[o].new].user]
    <3>1. PICK t \in Tokens : t = req[o].new /\ Issued(t)
      BY <2>2, <2>3
    <3>2. Good(t)'
      BY <2>3, <3>1
    <3> QED  BY <3>1, <3>2 DEF Good
  <2> QED  BY <2>1, <2>2, <2>3 DEF AnswerKept, Good, RowsKept
<1> QED  BY <1>1, <1>2 DEF CookieInv

\* A cookie whose sessions an admin ended is good in the sense of CookieStaysGood.
LEMMA CookieEndSessions ==
  ASSUME NamesAreDistinct, Sound, CookieInv, NEW s \in Slots, EndSessions(s)
  PROVE  CookieInv'
<1> DEFINE u == req[s].user
<1>1. /\ TypeOK /\ RowsKept /\ OthersWait(s) /\ req'[s] = Idle /\ u \in Users
      /\ req[s].at = "updated" /\ UNCHANGED <<cookie, tangled>>
      /\ row' = RevokeAll(u) /\ epoch' = [epoch EXCEPT ![u] = epoch[u] + 1]
  BY SoundEndSessions DEF Sound
<1>2. \A t \in Tokens : /\ row'[t].next = row[t].next /\ row'[t].expired = row[t].expired
                        /\ row[t].user # u => row'[t].st = row[t].st
  BY <1>1, Revocation
<1>3. ASSUME NEW t \in Tokens, Issued(t), Good(t) PROVE Good(t)'
  <2>1. row[t].user \in Users /\ row[t].epoch \in Nat /\ row[t].epoch <= epoch[row[t].user]
    BY <1>1, <1>3 DEF Sound, RowSound, TypeOK, RowType
  <2>2. row'[t].user = row[t].user /\ row'[t].epoch = row[t].epoch
    BY <1>1 DEF RowsKept
  <2>3. CASE row[t].user = u
    <3>1. epoch[u] \in Nat /\ epoch'[u] = epoch[u] + 1
      BY <1>1 DEF TypeOK
    <3> QED  BY <2>1, <2>2, <2>3, <3>1 DEF Good
  <2>4. CASE row[t].user # u
    <3>1. epoch'[row[t].user] = epoch[row[t].user]
      BY <1>1, <2>1, <2>4 DEF TypeOK
    <3> QED  BY <1>2, <1>3, <2>2, <2>4, <3>1 DEF Good
  <2> QED  BY <2>3, <2>4
<1>4. AnswerKept(s)'
  BY <1>1 DEF AnswerKept, Idle
<1> QED  BY <1>1, <1>2, <1>3, <1>4, CookieGood

\* So is one that expires.
LEMMA CookieExpire ==
  ASSUME NamesAreDistinct, Sound, CookieInv, NEW t \in Tokens, Expire(t)
  PROVE  CookieInv'
<1>1. /\ RowsKept /\ UNCHANGED <<cookie, req, epoch, tangled>>
      /\ \A o \in Tokens : /\ row'[o].st = row[o].st /\ row'[o].next = row[o].next
                           /\ row[o].expired => row'[o].expired
  BY SoundExpire
<1>2. \A o \in Tokens : Good(o) => Good(o)'
  BY <1>1 DEF Good, RowsKept
<1>3. PICK s : s \notin Slots
  BY NoSetContainsEverything
<1>4. OthersWait(s)
  BY <1>1 DEF OthersWait
<1> QED  BY <1>1, <1>2, <1>3, <1>4, CookieGood

\* Retention leaves what browsers and answers hold.
LEMMA CookiePrune ==
  ASSUME NamesAreDistinct, Sound, CookieInv, NEW t \in Tokens, Prune(t)
  PROVE  CookieInv'
<1>1. /\ UNCHANGED <<cookie, req, epoch, tangled>> /\ \A o \in Tokens \ {t} : row'[o] = row[o]
      /\ \A s \in Slots : req[s].tok # t /\ req[s].new # t
      /\ \A b \in Browsers : cookie[b] # t
  BY SoundPrune
<1>2. ASSUME NEW b \in Browsers PROVE CookieKept(b)'
  <2>1. CookieKept(b) /\ (cookie[b] # None => row'[cookie[b]] = row[cookie[b]])
    BY <1>1, Held DEF CookieInv
  <2> QED  BY <1>1, <2>1 DEF CookieKept, Good
<1>3. ASSUME NEW s \in Slots PROVE AnswerKept(s)'
  <2>1. /\ AnswerKept(s) /\ (req[s].new # None => row'[req[s].new] = row[req[s].new])
        /\ req[s].op = "refresh" => req[s].tok \in Tokens
    BY <1>1, Held DEF CookieInv, Sound, RequestSound, Issued
  <2>2. req[s].op = "refresh" => row'[req[s].tok] = row[req[s].tok]
    BY <1>1, <2>1
  <2> QED  BY <1>1, <2>1, <2>2 DEF AnswerKept, Good
<1> QED  BY <1>2, <1>3 DEF CookieInv

\* A token is good when it is issued.
LEMMA CookieInsert ==
  ASSUME NamesAreDistinct, Sound, CookieInv, NEW s \in Slots, NEW t \in Tokens, Insert(s, t)
  PROVE  CookieInv'
<1>1. /\ TypeOK /\ row' = [row EXCEPT ![t] = row'[t]] /\ row[t].st = "free" /\ req[s].at = "checked"
      /\ row'[t].st = "live" /\ row'[t].next = None
  BY Issuing DEF Sound
<1>2. /\ OthersWait(s) /\ UNCHANGED <<cookie, epoch, tangled>> /\ req'[s].new = t
      /\ req'[s].at \in {"inserted", "done"}
  BY IssuingRequest
<1>3. /\ \A o \in Tokens \ {t} : row'[o] = row[o]
      /\ \A o \in Slots : req[o].tok # t /\ req[o].new # t
      /\ \A b \in Browsers : cookie[b] # t
  BY <1>1, InUse DEF TypeOK
<1>4. ASSUME NEW b \in Browsers PROVE CookieKept(b)'
  <2>1. CookieKept(b) /\ (cookie[b] # None => row'[cookie[b]] = row[cookie[b]])
    BY <1>3, Held DEF CookieInv
  <2> QED  BY <1>1, <1>2, <2>1 DEF CookieKept, OthersWait, Good
<1>5. ASSUME NEW o \in Slots, o # s PROVE AnswerKept(o)'
  <2>1. /\ AnswerKept(o) /\ (req[o].new # None => row'[req[o].new] = row[req[o].new])
        /\ req[o].op = "refresh" => req[o].tok \in Tokens
    BY <1>3, Held DEF CookieInv, Sound, RequestSound, Issued
  <2>2. req'[o] = req[o] /\ (req[o].op = "refresh" => row'[req[o].tok] = row[req[o].tok])
    BY <1>2, <1>3, <1>5, <2>1 DEF OthersWait
  <2> QED  BY <1>2, <2>1, <2>2 DEF AnswerKept, Good
<1>6. AnswerKept(s)'
  BY <1>1, <1>2 DEF AnswerKept, Good
<1> QED  BY <1>4, <1>5, <1>6 DEF CookieInv

\* The browser takes a good token for the one it had.
LEMMA CookieRespond ==
  ASSUME NamesAreDistinct, Sound, CookieInv, NEW s \in Slots, Respond(s)
  PROVE  CookieInv'
<1>0. PICK b \in Browsers : b = req[s].browser
  BY SoundRespond
<1>1. /\ OthersWait(s) /\ req'[s] = Idle
      /\ UNCHANGED <<user, row, epoch, tangled, edits, crossed>>
      /\ req[s].at = "done" => req[s].new # None
      /\ cookie'[b] = IF req[s].at = "done" THEN req[s].new ELSE None
      /\ \A c \in Browsers \ {b} : cookie'[c] = cookie[c]
  BY <1>0, SoundRespond
<1>2. AnswerKept(s)
  BY DEF CookieInv
<1>3. CookieKept(b)'
  BY <1>1, <1>2 DEF CookieKept, AnswerKept, Good
<1>4. ASSUME NEW c \in Browsers, c # b PROVE CookieKept(c)'
  <2>1. CookieKept(c) /\ cookie'[c] = cookie[c]
    BY <1>1, <1>4 DEF CookieInv
  <2>2. cookie[c] # None => req[s].tok # cookie[c]
    BY <1>0, <1>4 DEF Sound, TokensApart
  <2> QED  BY <1>1, <2>1, <2>2 DEF CookieKept, OthersWait, Good
<1>5. ASSUME NEW o \in Slots, o # s PROVE AnswerKept(o)'
  <2>1. AnswerKept(o) /\ req'[o] = req[o]
    BY <1>1, <1>5 DEF CookieInv, OthersWait
  <2> QED  BY <1>1, <2>1 DEF AnswerKept, Good
<1>6. AnswerKept(s)'
  BY <1>1 DEF AnswerKept, Idle
<1> QED  BY <1>3, <1>4, <1>5, <1>6 DEF CookieInv

-----------------------------------------------------------------------------
(***************************************************************************)
(* Steps that touch no token.                                              *)
(***************************************************************************)

\* They keep all three invariants of the tokens.
LEMMA QuietStep ==
  ASSUME NamesAreDistinct, Sound, Sound', EndedInv, SingleInv, CookieInv, NEW s \in Slots, Quiet(s)
  PROVE  EndedInv' /\ SingleInv' /\ CookieInv'
<1>1. /\ OthersWait(s) /\ UNCHANGED <<row, cookie, epoch>> /\ tangled \subseteq tangled'
      /\ req'[s].tok = None /\ req'[s].new = None /\ req'[s].op # "refresh"
      /\ req[s].at \in {"inserted", "done", "refused"} => Owner(req[s].tok) \subseteq tangled'
  BY DEF Quiet
<1>2. RowsKept
  BY <1>1 DEF RowsKept
<1>3. EndedInv'
  BY <1>1, <1>2, EndedStep
<1>4. SingleInv'
  <2>1. ASSUME NEW t \in Tokens, NEW o \in Tokens, Live(t), Live(o), t # o,
               row[t].root = row[o].root, row[t].user \notin tangled'
        PROVE  \E w \in Slots : req'[w].at = "inserted" /\ {t, o} = {req'[w].tok, req'[w].new}
    <3>1. PICK w \in Slots : req[w].at = "inserted" /\ {t, o} = {req[w].tok, req[w].new}
      BY <1>1, <2>1 DEF SingleInv, OneTokenPerSignIn
    <3>2. CASE w = s
      <4>1. Issued(t) /\ Issued(o) /\ req[s].tok \in {t, o} /\ req[s].tok # None
        BY <2>1, <3>1, <3>2 DEF Live, Issued, NamesAreDistinct
      <4>2. row[t].user = row[o].user
        BY <2>1, <4>1 DEF Sound, RowSound
      <4> QED  BY <1>1, <2>1, <3>1, <3>2, <4>1, <4>2 DEF Owner
    <3>3. CASE w # s
      BY <1>1, <3>1, <3>3 DEF OthersWait
    <3> QED  BY <3>2, <3>3
  <2>2. ASSUME NEW o \in Slots PROVE OnlyLive(o)'
    <3>1. CASE o = s
      BY <1>1, <3>1 DEF OnlyLive
    <3>2. CASE o # s
      BY <1>1, <3>2 DEF SingleInv, OnlyLive, OthersWait, Live
    <3> QED  BY <3>1, <3>2
  <2> QED  BY <1>1, <2>1, <2>2 DEF SingleInv, OneTokenPerSignIn, Live
<1>5. ASSUME NEW b \in Browsers PROVE CookieKept(b)'
  <2>1. CookieKept(b)
    BY DEF CookieInv
  <2>2. SUFFICES ASSUME cookie[b] # None, row[cookie[b]].user \notin tangled'
                 PROVE  /\ \/ Good(cookie[b])
                           \/ \E w \in Slots : req'[w].tok = cookie[b] /\ req'[w].at \in {"done", "refused"}
                        /\ row[cookie[b]].next # None =>
                             \E w \in Slots : req'[w].tok = cookie[b] /\ req'[w].at = "done"
    BY <1>1 DEF CookieKept, Good
  <2>3. \A w \in Slots : req[w].tok = cookie[b] /\ req[w].at \in {"done", "refused"} => w # s
    BY <1>1, <2>2 DEF Owner
  <2> QED  BY <1>1, <2>1, <2>2, <2>3 DEF CookieKept, OthersWait
<1>6. ASSUME NEW o \in Slots PROVE AnswerKept(o)'
  <2>1. CASE o = s
    <3>1. req'[s].at # "replayed"
      <4>1. RequestSound(s)' /\ req'[s] \in ReqType
        BY DEF Sound, TypeOK
      <4> QED  BY <1>1, <4>1 DEF RequestSound, ReqType, Ops, Idle
    <3> QED  BY <1>1, <2>1, <3>1 DEF AnswerKept
  <2>2. CASE o # s
    BY <1>1, <2>2 DEF CookieInv, AnswerKept, OthersWait, Good
  <2> QED  BY <2>1, <2>2
<1> QED  BY <1>3, <1>4, <1>5, <1>6 DEF CookieInv

-----------------------------------------------------------------------------
(***************************************************************************)
(* The last admin.                                                         *)
(***************************************************************************)

\* A step that changes no account and lets in no other edit keeps AdminInv, if
\* an edit is cleared for what it has seen.
LEMMA AdminStep ==
  ASSUME Sound', AdminInv, UNCHANGED <<user, crossed>>, NEW s, OthersWait(s),
         s \in Slots =>
           \/ req'[s].op # "edit"
           \/ /\ req[s].op = "edit"
              /\ req'[s].at = "cleared" =>
                   \/ ~TakesPower(req'[s].user, req'[s].role, req'[s].status)
                   \/ ActiveAdmins \ {req'[s].user} # {}
  PROVE  AdminInv'
<1>1. AnAdminRemains'
  BY DEF AdminInv, AnAdminRemains, ActiveAdmins
<1>2. ASSUME ~crossed', NEW o \in Slots, NEW p \in Slots, req'[o].op = "edit", req'[p].op = "edit"
      PROVE  o = p
  BY <1>2 DEF AdminInv, OthersWait
<1>3. ASSUME ~crossed', NEW o \in Slots, req'[o].at = "cleared"
      PROVE  \/ ~TakesPower(req'[o].user, req'[o].role, req'[o].status)
             \/ ActiveAdmins \ {req'[o].user} # {}
  <2>1. req'[o].op = "edit"
    <3>1. req'[o] \in ReqType /\ RequestSound(o)'
      BY DEF Sound, TypeOK
    <3> QED  BY <1>3, <3>1 DEF ReqType, Ops, RequestSound, Idle
  <2>2. CASE o = s
    BY <1>3, <2>1, <2>2
  <2>3. CASE o # s
    BY <1>3, <2>3 DEF AdminInv, OthersWait
  <2> QED  BY <2>2, <2>3
<1> QED  BY <1>1, <1>2, <1>3 DEF AdminInv, TakesPower, ActiveAdmins

\* The first edit under way, or one that crosses another.
LEMMA AdminAuthorise ==
  ASSUME NamesAreDistinct, Sound, AdminInv, NEW s \in Slots, NEW a \in Users \cup {ServiceAdmin},
         Authorise(s, a)
  PROVE  AdminInv'
<1>1. /\ OthersWait(s) /\ user' = user /\ req'[s].at = "authorised"
      /\ crossed' = (crossed \/ \E o \in Slots : req[o].op = "edit")
  BY SoundAuthorise DEF Quiet
<1>2. crossed => crossed'
  BY <1>1, Zenon
<1>3. ~crossed' => \A o \in Slots : req[o].op # "edit"
  BY <1>1, Zenon
<1>4. AnAdminRemains'
  BY <1>1, <1>2 DEF AdminInv, AnAdminRemains, ActiveAdmins
<1>5. ASSUME ~crossed', NEW o \in Slots, NEW p \in Slots, req'[o].op = "edit", req'[p].op = "edit"
      PROVE  o = p
  BY <1>1, <1>3, <1>5 DEF OthersWait
<1>6. ASSUME ~crossed', NEW o \in Slots, req'[o].at = "cleared"
      PROVE  FALSE
  <2>1. o # s /\ req[o].at = "cleared" /\ req[o].op # "edit"
    BY <1>1, <1>3, <1>6 DEF OthersWait
  <2> QED  BY <2>1, EditRequest
<1> QED  BY <1>4, <1>5, <1>6 DEF AdminInv

\* A new account takes nobody's power.
LEMMA AdminCreate ==
  ASSUME NamesAreDistinct, Sound, AdminInv, NEW s \in Slots, NEW u \in Users, NEW role \in Roles,
         Create(s, u, role)
  PROVE  AdminInv'
<1>1. OthersWait(s) /\ req'[s] = Idle
  BY SoundCreate DEF Quiet
<1>2. /\ req[s].at = "authorised" /\ user[u].status = "absent" /\ crossed' = crossed
      /\ \A v \in Users \ {u} : user'[v] = user[v]
  BY DEF Create, Sound, TypeOK
<1>3. ActiveAdmins \subseteq ActiveAdmins'
  BY <1>2 DEF ActiveAdmins
<1>4. req[s].op = "edit"
  BY <1>2, EditRequest
<1>5. ASSUME ~crossed, NEW o \in Slots, req'[o].at = "cleared" PROVE FALSE
  <2>1. o # s /\ req[o].at = "cleared"
    BY <1>1, <1>5 DEF OthersWait, Idle
  <2>2. req[o].op = "edit"
    BY <2>1, EditRequest
  <2> QED  BY <1>4, <1>5, <2>1, <2>2 DEF AdminInv
<1>6. ASSUME ~crossed, NEW o \in Slots, NEW p \in Slots, req'[o].op = "edit", req'[p].op = "edit"
      PROVE  o = p
  BY <1>1, <1>6 DEF AdminInv, OthersWait, Idle
<1>7. AnAdminRemains'
  BY <1>2, <1>3 DEF AdminInv, AnAdminRemains
<1> QED  BY <1>2, <1>5, <1>6, <1>7 DEF AdminInv

\* The row that is written is the row that was checked, and no other admin
\* has lost power since: two edits that touch it would overlap.
LEMMA AdminUpdateUser ==
  ASSUME NamesAreDistinct, Sound, AdminInv, NEW s \in Slots, UpdateUser(s)
  PROVE  AdminInv'
<1>1. /\ OthersWait(s) /\ req[s].op = "edit" /\ req[s].user \in Users
      /\ req'[s] = Idle \/ (req'[s].op = "edit" /\ req'[s].at = "updated")
  BY SoundUpdateUser DEF Quiet
<1>2. PICK u \in Users : u = req[s].user
  BY <1>1
<1>3. /\ req[s].at = "cleared" /\ crossed' = crossed
      /\ \A v \in Users \ {u} : user'[v] = user[v]
      /\ user'[u].role = IF req[s].role = None THEN user[u].role ELSE req[s].role
      /\ user'[u].status = IF req[s].status = None THEN user[u].status ELSE req[s].status
  BY <1>2 DEF UpdateUser, Sound, TypeOK
<1>4. ASSUME ~crossed, FirstAdmins # {} PROVE ActiveAdmins' # {}
  <2>1. ActiveAdmins # {}
    BY <1>4 DEF AdminInv, AnAdminRemains
  <2>2. CASE ActiveAdmins \ {u} # {}
    BY <1>3, <2>2 DEF ActiveAdmins
  <2>3. CASE ~TakesPower(u, req[s].role, req[s].status) /\ u \in ActiveAdmins
    <3>1. req[s].role \in Roles \cup {None} /\ req[s].status \in Statuses \cup {None}
      BY DEF Sound, TypeOK, ReqType
    <3>2. user'[u].role = "admin" /\ user'[u].status = "active"
      BY <1>3, <2>3, <3>1 DEF TakesPower, ActiveAdmins, Roles, Statuses
    <3> QED  BY <3>2 DEF ActiveAdmins
  <2> QED  BY <1>2, <1>3, <1>4, <2>1, <2>2, <2>3 DEF AdminInv
<1>5. ASSUME ~crossed, NEW o \in Slots, req'[o].at = "cleared" PROVE FALSE
  <2>1. o # s /\ req[o].at = "cleared"
    BY <1>1, <1>5 DEF OthersWait, Idle
  <2>2. req[o].op = "edit"
    BY <2>1, EditRequest
  <2> QED  BY <1>1, <1>5, <2>1, <2>2 DEF AdminInv
<1>6. ASSUME ~crossed, NEW o \in Slots, NEW p \in Slots, req'[o].op = "edit", req'[p].op = "edit"
      PROVE  o = p
  BY <1>1, <1>6 DEF AdminInv, OthersWait, Idle
<1>7. AnAdminRemains'
  BY <1>3, <1>4 DEF AnAdminRemains
<1> QED  BY <1>3, <1>5, <1>6, <1>7 DEF AdminInv

-----------------------------------------------------------------------------
(***************************************************************************)
(* The invariant.                                                          *)
(***************************************************************************)

\* It holds at the start.
LEMMA InitIInv == NamesAreDistinct /\ Init => IInv
<1> SUFFICES ASSUME NamesAreDistinct, Init PROVE IInv
  OBVIOUS
<1> USE DEF Init
<1>1. user \in [Users -> UserType]
  BY DEF UserType, Roles, Statuses
<1>2. FreeRow \in RowType /\ FreeRow.st = "free"
  BY DEF FreeRow, RowType
<1>3. /\ Idle \in ReqType /\ Idle.op = "none" /\ Idle.at = "idle" /\ Idle.tok = None
      /\ Idle.new = None
  BY DEF Idle, ReqType, Ops, Places
<1>4. TypeOK
  BY <1>1, <1>2, <1>3 DEF TypeOK
<1>5. \A t \in Tokens : row[t].st = "free"
  BY <1>2
<1>6. \A s \in Slots : req[s].op = "none" /\ req[s].at = "idle" /\ req[s].tok = None
                       /\ req[s].new = None /\ req[s] = Idle
  BY <1>3
<1>7. Sound
  BY <1>4, <1>5, <1>6 DEF Sound, RowSound, RequestSound, TokensApart, OneExchange, Issued
<1>8. EndedInv /\ SingleInv
  BY <1>5, <1>6 DEF EndedInv, EndedSessionsStayEnded, SingleInv, OneTokenPerSignIn, OnlyLive, Live
<1>9. CookieInv
  BY <1>6 DEF CookieInv, CookieKept, AnswerKept
<1>10. AnAdminRemains
  BY DEF AnAdminRemains, ActiveAdmins, NamesAreDistinct
<1>11. AdminInv
  BY <1>6, <1>10 DEF AdminInv
<1> QED  BY <1>7, <1>8, <1>9, <1>11 DEF IInv

\* Every step keeps it.
LEMMA NextIInv == NamesAreDistinct /\ IInv /\ [Next]_vars => IInv'
<1> SUFFICES ASSUME NamesAreDistinct, IInv, [Next]_vars PROVE IInv'
  OBVIOUS
<1>1. Sound /\ EndedInv /\ SingleInv /\ CookieInv /\ AdminInv
  BY DEF IInv
<1>2. ASSUME NEW s \in Slots, NEW b \in Browsers, NEW u \in Visitors, LookUp(s, b, u) PROVE IInv'
  <2>1. Sound' /\ Quiet(s) /\ req'[s].op = "login" /\ OthersWait(s)
    BY <1>1, <1>2, SoundLookUp DEF Quiet
  <2>2. AdminInv'
    BY <1>1, <1>2, <2>1, AdminStep DEF LookUp
  <2> QED  BY <1>1, <2>1, <2>2, QuietStep DEF IInv
<1>3. ASSUME NEW s \in Slots, NEW b \in Browsers, NEW op \in {"refresh", "logout"}, Send(s, b, op)
      PROVE  IInv'
  <2>1. /\ Sound' /\ OthersWait(s) /\ req'[s].op = op /\ req'[s].at = "sent" /\ RowsKept
        /\ epoch' = epoch /\ tangled \subseteq tangled' /\ UNCHANGED <<user, crossed>>
    <3>1. Sound' /\ OthersWait(s) /\ req'[s].op = op /\ req'[s].at = "sent" /\ RowsKept
      BY <1>1, <1>3, SoundSend
    <3>2. epoch' = epoch /\ UNCHANGED <<user, crossed>>
      BY <1>3, Zenon DEF Send
    <3>3. tangled' = tangled \cup TangledBySending(cookie[b])
      BY <1>3, Zenon DEF Send
    <3> QED  BY <3>1, <3>2, <3>3
  <2>2. EndedInv'
    BY <1>1, <2>1, EndedStep
  <2>3. SingleInv'
    <3>1. req[s].at # "inserted"
      BY <1>1, <1>3 DEF Send, InFlight, Sound, RequestSound, Idle
    <3> QED  BY <1>1, <2>1, <3>1, SingleStep DEF OnlyLive
  <2>4. AdminInv'
    BY <1>1, <2>1, AdminStep
  <2>5. CookieInv'
    BY <1>1, <1>3, CookieSend
  <2>6. Sound'
    BY <2>1
  <2> QED  BY <2>2, <2>3, <2>4, <2>5, <2>6 DEF IInv
<1>4. ASSUME NEW s \in Slots, Consume(s) PROVE IInv'
  <2>1. Sound' /\ OthersWait(s) /\ UNCHANGED <<user, crossed>> /\ req'[s].op = "refresh"
    BY <1>1, <1>4, SoundConsume
  <2>2. AdminInv'
    BY <1>1, <2>1, AdminStep
  <2> QED  BY <1>1, <1>4, <2>1, <2>2, EndedConsume, SingleConsume, CookieConsume DEF IInv
<1>5. ASSUME NEW s \in Slots, CheckUser(s) PROVE IInv'
  <2>1. Sound' /\ OthersWait(s) /\ UNCHANGED <<user, crossed>> /\ req'[s].op = "refresh"
    BY <1>1, <1>5, SoundCheckUser
  <2>2. AdminInv'
    BY <1>1, <2>1, AdminStep
  <2> QED  BY <1>1, <1>5, <2>1, <2>2, EndedCheckUser, SingleCheckUser, CookieCheckUser DEF IInv
<1>6. ASSUME NEW s \in Slots, Burn(s) PROVE IInv'
  <2>1. /\ Sound' /\ OthersWait(s) /\ UNCHANGED <<user, crossed, epoch, tangled>> /\ RowsKept
        /\ req'[s].op = "refresh" /\ req'[s].at = "refused" /\ req[s].at = "replayed"
    BY <1>1, <1>6, SoundBurn
  <2>2. EndedInv'
    BY <1>1, <2>1, EndedStep
  <2>3. SingleInv'
    BY <1>1, <2>1, SingleStep DEF OnlyLive
  <2>4. AdminInv'
    BY <1>1, <2>1, AdminStep
  <2> QED  BY <1>1, <1>6, <2>1, <2>2, <2>3, <2>4, CookieBurn DEF IInv
<1>7. ASSUME NEW s \in Slots, Rotate(s) PROVE IInv'
  <2>1. /\ Sound' /\ OthersWait(s) /\ UNCHANGED <<user, crossed, epoch, tangled>> /\ RowsKept
        /\ req'[s].op = "refresh" /\ req'[s].at = "done" /\ row'[req[s].tok].st = "revoked"
    BY <1>1, <1>7, SoundRotate
  <2>2. EndedInv'
    BY <1>1, <2>1, EndedStep
  <2>3. SingleInv'
    BY <1>1, <2>1, SingleStep DEF OnlyLive
  <2>4. AdminInv'
    BY <1>1, <2>1, AdminStep
  <2> QED  BY <1>1, <1>7, <2>1, <2>2, <2>3, <2>4, CookieRotate DEF IInv
<1>8. ASSUME NEW s \in Slots, Logout(s) PROVE IInv'
  <2>1. /\ Sound' /\ OthersWait(s) /\ UNCHANGED <<user, crossed, epoch, tangled>> /\ RowsKept
        /\ req'[s].op = "logout" /\ req[s].at = "sent"
    BY <1>1, <1>8, SoundLogout
  <2>2. EndedInv'
    BY <1>1, <2>1, EndedStep
  <2>3. SingleInv'
    BY <1>1, <2>1, SingleStep DEF OnlyLive
  <2>4. AdminInv'
    BY <1>1, <2>1, AdminStep
  <2> QED  BY <1>1, <1>8, <2>1, <2>2, <2>3, <2>4, CookieLogout DEF IInv
<1>9. ASSUME NEW s \in Slots, Respond(s) PROVE IInv'
  <2>1. /\ Sound' /\ OthersWait(s) /\ UNCHANGED <<user, row, crossed, epoch, tangled>>
        /\ req'[s] = Idle /\ req[s].at \in {"done", "refused"}
    BY <1>1, <1>9, SoundRespond
  <2>2. RowsKept /\ req'[s].op = "none"
    BY <2>1 DEF RowsKept, Idle
  <2>3. EndedInv'
    BY <1>1, <2>1, <2>2, EndedStep
  <2>4. SingleInv'
    BY <1>1, <2>1, <2>2, SingleStep DEF OnlyLive
  <2>5. AdminInv'
    BY <1>1, <2>1, <2>2, AdminStep
  <2> QED  BY <1>1, <1>9, <2>1, <2>3, <2>4, <2>5, CookieRespond DEF IInv
<1>10. ASSUME NEW s \in Slots, NEW t \in Tokens, Insert(s, t) PROVE IInv'
  <2>1. /\ Sound' /\ OthersWait(s) /\ UNCHANGED <<user, crossed>> /\ req'[s].op \in {"login", "refresh"}
    BY <1>1, <1>10, SoundInsert, Issuing, IssuingRequest
  <2>2. AdminInv'
    BY <1>1, <2>1, AdminStep
  <2> QED  BY <1>1, <1>10, <2>1, <2>2, EndedInsert, SingleInsert, CookieInsert DEF IInv
<1>11. ASSUME NEW s \in Slots, EndSessions(s) PROVE IInv'
  <2>1. /\ Sound' /\ OthersWait(s) /\ UNCHANGED <<user, crossed, tangled>> /\ RowsKept
        /\ req'[s] = Idle /\ req[s].at = "updated"
    BY <1>1, <1>11, SoundEndSessions
  <2>2. req'[s].op = "none"
    BY <2>1 DEF Idle
  <2>3. SingleInv'
    BY <1>1, <2>1, <2>2, SingleStep DEF OnlyLive
  <2>4. AdminInv'
    BY <1>1, <2>1, <2>2, AdminStep
  <2> QED  BY <1>1, <1>11, <2>1, <2>3, <2>4, EndedEndSessions, CookieEndSessions DEF IInv
<1>12. ASSUME NEW s \in Slots, NEW a \in Users \cup {ServiceAdmin}, Authorise(s, a) PROVE IInv'
  <2>1. Sound' /\ Quiet(s)
    BY <1>1, <1>12, SoundAuthorise
  <2> QED  BY <1>1, <1>12, <2>1, QuietStep, AdminAuthorise DEF IInv
<1>13. ASSUME NEW s \in Slots, NEW u \in Users, NEW role \in Roles, Create(s, u, role) PROVE IInv'
  <2>1. Sound' /\ Quiet(s)
    BY <1>1, <1>13, SoundCreate
  <2> QED  BY <1>1, <1>13, <2>1, QuietStep, AdminCreate DEF IInv
<1>14. ASSUME NEW s \in Slots, NEW u \in Users, NEW role \in Roles \cup {None},
              NEW status \in Statuses \cup {None}, LoadTarget(s, u, role, status)
       PROVE  IInv'
  <2>1. /\ Sound' /\ Quiet(s) /\ req'[s].user = u /\ req'[s].role = role /\ req'[s].status = status
        /\ req'[s].at = IF TakesPower(u, role, status) THEN "posture" ELSE "cleared"
    BY <1>1, <1>14, SoundLoadTarget
  <2>2. UNCHANGED <<user, crossed>> /\ req[s].op = "edit"
    BY <1>1, <1>14, EditRequest DEF LoadTarget
  <2>3. AdminInv'
    BY <1>1, <2>1, <2>2, AdminStep DEF Quiet
  <2> QED  BY <1>1, <2>1, <2>3, QuietStep DEF IInv
<1>15. ASSUME NEW s \in Slots, CountOthers(s) PROVE IInv'
  <2>1. /\ Sound' /\ Quiet(s) /\ req[s].op = "edit"
        /\ \/ req'[s] = Idle
           \/ /\ req'[s].op = "edit" /\ req'[s].user = req[s].user
              /\ ActiveAdmins \ {req[s].user} # {}
    BY <1>1, <1>15, SoundCountOthers
  <2>2. UNCHANGED <<user, crossed>>
    BY <1>15 DEF CountOthers
  <2>3. AdminInv'
    BY <1>1, <2>1, <2>2, AdminStep DEF Quiet, Idle
  <2> QED  BY <1>1, <2>1, <2>3, QuietStep DEF IInv
<1>16. ASSUME NEW s \in Slots, UpdateUser(s) PROVE IInv'
  <2>1. Sound' /\ Quiet(s)
    BY <1>1, <1>16, SoundUpdateUser
  <2> QED  BY <1>1, <1>16, <2>1, QuietStep, AdminUpdateUser DEF IInv
<1>17. ASSUME NEW s \in Slots, NEW u \in Users, ResetPassword(s, u) PROVE IInv'
  <2>1. Sound' /\ Quiet(s) /\ req[s].op = "edit" /\ req'[s].at = "updated"
    BY <1>1, <1>17, SoundResetPassword
  <2>2. UNCHANGED <<user, crossed>>
    BY <1>17 DEF ResetPassword
  <2>3. AdminInv'
    BY <1>1, <2>1, <2>2, AdminStep DEF Quiet
  <2> QED  BY <1>1, <2>1, <2>3, QuietStep DEF IInv
<1>18. ASSUME NEW s \in Slots, Drop(s) PROVE IInv'
  <2>1. Sound' /\ Quiet(s) /\ req'[s] = Idle /\ UNCHANGED <<user, crossed>>
    BY <1>1, <1>18, SoundDrop
  <2>2. AdminInv'
    BY <1>1, <2>1, AdminStep DEF Quiet, Idle
  <2> QED  BY <1>1, <2>1, <2>2, QuietStep DEF IInv
<1>19. ASSUME NEW t \in Tokens, Expire(t) \/ Prune(t) PROVE IInv'
  <2>1. Sound' /\ UNCHANGED <<user, req, epoch, tangled, crossed>>
    BY <1>1, <1>19, SoundExpire, SoundPrune
  <2>2. PICK s : s \notin Slots
    BY NoSetContainsEverything
  <2>3. OthersWait(s)
    BY <2>1 DEF OthersWait
  <2>4. AdminInv'
    BY <1>1, <2>1, <2>2, <2>3, AdminStep
  <2>5. CASE Expire(t)
    <3>1. RowsKept
      BY <1>1, <2>5, SoundExpire
    <3>2. EndedInv' /\ SingleInv'
      BY <1>1, <2>1, <2>2, <2>3, <3>1, EndedStep, SingleStep
    <3> QED  BY <1>1, <2>1, <2>4, <2>5, <3>2, CookieExpire DEF IInv
  <2>6. CASE Prune(t)
    BY <1>1, <2>1, <2>4, <2>6, EndedPrune, SinglePrune, CookiePrune DEF IInv
  <2> QED  BY <1>19, <2>5, <2>6
<1>20. CASE UNCHANGED vars
  <2>1. PICK s : s \notin Slots
    BY NoSetContainsEverything
  <2>2. /\ RowsKept /\ OthersWait(s) /\ UNCHANGED <<user, row, cookie, req, epoch, tangled, crossed>>
        /\ TypeOK' /\ \A u \in Users : epoch[u] <= epoch'[u]
    BY <1>1, <1>20 DEF vars, RowsKept, OthersWait, Sound, TypeOK
  <2>3. Sound'
    BY <1>1, <2>1, <2>2, SoundStep
  <2>4. EndedInv' /\ SingleInv' /\ AdminInv'
    BY <1>1, <2>1, <2>2, <2>3, EndedStep, SingleStep, AdminStep
  <2>5. CookieInv'
    BY <1>1, <2>1, <2>2, CookieGood DEF Good
  <2> QED  BY <2>3, <2>4, <2>5 DEF IInv
<1>21. CASE Next
  <2>1. ASSUME NEW s \in Slots, Handler(s) PROVE IInv'
    BY <1>4, <1>5, <1>6, <1>7, <1>8, <1>9, <1>10, <1>11, <1>15, <1>16, <2>1 DEF Handler
  <2>2. ASSUME NEW s \in Slots, Client(s) PROVE IInv'
    BY <1>2, <1>3, <1>12, <1>13, <1>14, <1>17, <2>2 DEF Client
  <2> QED  BY <1>18, <1>19, <1>21, <2>1, <2>2 DEF Next
<1> QED  BY <1>20, <1>21

\* The inductive invariant holds in every reachable state.
THEOREM Invariance == Spec => []IInv
<1>1. Init => IInv
  BY NamesAreDistinct, InitIInv
<1>2. IInv /\ [Next]_vars => IInv'
  BY NamesAreDistinct, NextIInv
<1> QED  BY <1>1, <1>2, PTL DEF Spec

\* What EndSessions leaves behind (api/users.js): a token alive after its
\* account's sessions were ended had its request past the check before.
THEOREM EndedStay == Spec => []EndedSessionsStayEnded
<1>1. IInv => EndedSessionsStayEnded
  BY DEF IInv, EndedInv
<1> QED  BY <1>1, Invariance, PTL

\* Rotation (auth/tokens.js): one sign-in, one live token, two only between the
\* INSERT of the successor and the UPDATE of its predecessor.
THEOREM OneTokenHolds == Spec => []OneTokenPerSignIn
<1>1. IInv => OneTokenPerSignIn
  BY DEF IInv, SingleInv
<1> QED  BY <1>1, Invariance, PTL

\* Replay detection signs nobody out whose exchanges neither overlapped nor
\* were lost: a cookie at rest is good.
THEOREM CookieHolds == Spec => []CookieStaysGood
<1>1. IInv => CookieStaysGood
  <2> SUFFICES ASSUME IInv, NEW b \in Browsers, cookie[b] # None,
                      row[cookie[b]].user \notin tangled, \A s \in Slots : req[s].browser # b
               PROVE  Good(cookie[b])
    BY DEF CookieStaysGood, Good
  <2>1. CookieKept(b) /\ \A s \in Slots : req[s].tok = cookie[b] => req[s].browser = b
    BY DEF IInv, CookieInv, Sound, TokensApart
  <2> QED  BY <2>1 DEF CookieKept
<1> QED  BY <1>1, Invariance, PTL

\* The safety rail of api/users.js: an active admin remains unless edits overlapped.
THEOREM AdminHolds == Spec => []AnAdminRemains
<1>1. IInv => AnAdminRemains
  BY DEF IInv, AdminInv
<1> QED  BY <1>1, Invariance, PTL
=============================================================================
