------------------------------- MODULE Accounts -------------------------------
(***************************************************************************)
(* internal/user/service.go and pkg/auth/jwt.go: registration, login, the   *)
(* profile cache, and tokens with their blacklist in Redis.  Time is the    *)
(* number of ticks something has left: a token Lifetime ticks after it was   *)
(* signed, a blacklist entry the time to live it was written with.          *)
(*                                                                         *)
(* A user is known by the name; the id is not needed where names are unique. *)
(* Passwords and e-mail formats are decided before anything is read here.    *)
(***************************************************************************)
EXTENDS Naturals

CONSTANTS Names, Emails,
          Requests,  \* registrations that may be under way at once
          Forms,     \* per registration: the names and e-mails it may come with
          Readers,   \* GetUser handlers that may be under way at once
          Tokens,    \* tokens not expired, or still in some handler's hands
          Checks,    \* authenticated requests under way at once
          Revokes,   \* BlacklistToken calls under way at once
          Lifetime,  \* JWT_EXPIRY_HOURS, in ticks
          NoRow, NoCopy, Nobody

ASSUME LifetimeAssumption == Lifetime \in Nat \ {0}
ASSUME NoRowAssumption == NoRow \notin {"banned", "normal", "admin"}
ASSUME NobodyAssumption == Nobody \notin Names
ASSUME FormsAssumption == Forms \in [Requests -> SUBSET (Names \X Emails)]

VARIABLES
  users,    \* the users table: a name and an e-mail per row
  status,   \* the status column of a name's row
  signup,   \* per registration: what it asks for and how far it is
  profile,  \* Redis user:<id>
  reader,   \* the GetUser handlers
  token,    \* the tokens: whose, with which role, ticks left
  listed,   \* Redis jwt_blacklist:<token>: ticks left
  redis,    \* Redis answers
  check,    \* per request: the token that passed the blacklist and is to be parsed
  revoke,   \* per BlacklistToken call: how far it is
  revoked   \* history: tokens a BlacklistToken that answered nil was about

signupVars == <<users, signup>>
tokenVars == <<token, listed, redis, check, revoke, revoked>>
avars == <<users, status, signup, profile, reader, tokenVars>>

Profile == INSTANCE CacheAside WITH Keys <- Names, row <- status, copy <- profile, fill <- reader

Idle == [step |-> "idle"]
Asking(n, e) == [step |-> "email", name |-> n, email |-> e]
\* The claims of a token, before Login sets them and signs.
NoToken == [user |-> Nobody, role |-> "player", left |-> 0, signed |-> FALSE]
RoleOf(s) == IF s = "admin" THEN "admin" ELSE "player"

Init == /\ users = {} /\ status = [n \in Names |-> NoRow]
        /\ signup = [r \in Requests |-> Idle]
        /\ Profile!CacheInit
        /\ token = [t \in Tokens |-> NoToken]
        /\ listed = [t \in Tokens |-> 0] /\ redis = TRUE
        /\ check = [k \in Checks |-> Idle] /\ revoke = [v \in Revokes |-> Idle]
        /\ revoked = {}

------------------------------------------------------------------------------
\* Register: count the name, count the e-mail, create.  A count that fails is taken for zero,
\* and two registrations may both count zero; one that is refused at once changes nothing.
CheckName(r, n, e) ==
  /\ signup[r] = Idle
  /\ signup' = [signup EXCEPT ![r] = Asking(n, e)]
  /\ UNCHANGED <<users, status, profile, reader, tokenVars>>

CheckEmail(r) ==
  /\ signup[r].step = "email"
  /\ \/ signup' = [signup EXCEPT ![r].step = "create"]
     \/ /\ \E u \in users : u.email = signup[r].email
        /\ signup' = [signup EXCEPT ![r] = Idle]
  /\ UNCHANGED <<users, status, profile, reader, tokenVars>>

\* The unique indexes of the table (model.go: uniqueIndex on username and on email).
Unique(n, e) == \A u \in users : u.name # n /\ u.email # e

\* A table with the checks of Register only.
CreateUnchecked(r) ==
  /\ signup[r].step = "create"
  /\ users' = users \union {[name |-> signup[r].name, email |-> signup[r].email]}
  /\ status' = [status EXCEPT ![signup[r].name] = "normal"]
  /\ signup' = [signup EXCEPT ![r] = Idle]
  /\ UNCHANGED <<profile, reader, tokenVars>>

\* The database refuses the row, for its indexes or for a reason of its own.
Create(r) ==
  /\ signup[r].step = "create"
  /\ LET n == signup[r].name  e == signup[r].email IN
       \/ /\ Unique(n, e)
          /\ users' = users \union {[name |-> n, email |-> e]}
          /\ status' = [status EXCEPT ![n] = "normal"]
       \/ UNCHANGED <<users, status>>
  /\ signup' = [signup EXCEPT ![r] = Idle]
  /\ UNCHANGED <<profile, reader, tokenVars>>

\* An operator bans, pardons or promotes: no code does it, the column's comment names it.
SetStatus(n, s) ==
  /\ status[n] # NoRow /\ status[n] # s
  /\ status' = [status EXCEPT ![n] = s]
  /\ UNCHANGED <<users, signup, profile, reader, tokenVars>>

\* GetUser: Redis is asked, and what becomes of a miss.
Rest == UNCHANGED <<users, status, signup, tokenVars>>
GetUser(r, n) == (Profile!Miss(r, n) \/ Profile!Unreachable(r, n)) /\ Rest
Answered(r) == (Profile!Query(r) \/ Profile!Store(r) \/ Profile!StoreLost(r)) /\ Rest
Expired(n) == Profile!Expire(n) /\ Rest

\* The requests that come to it: the two profile routes and the gRPC method.
GetUserInfo == \E r \in Readers, n \in Names : GetUser(r, n)

------------------------------------------------------------------------------
\* A token nobody can present with success any more, nor is presenting.
Gone(t) == /\ token[t].user = Nobody \/ (token[t].signed /\ token[t].left = 0)
           /\ \A k \in Checks : check[k] # Idle => check[k].token # t
           /\ \A v \in Revokes : revoke[v] # Idle => revoke[v].token # t

\* A login that looks at the password only.
LoginAny(t, n) ==
  /\ Gone(t) /\ status[n] # NoRow
  /\ token' = [token EXCEPT
       ![t] = [user |-> n, role |-> RoleOf(status[n]), left |-> 0, signed |-> FALSE]]
  /\ UNCHANGED <<users, status, signup, profile, reader, listed, redis, check, revoke, revoked>>

\* Login: the row is read, the password compared, the status looked at ...
Login(t, n) ==
  /\ Gone(t) /\ status[n] \in {"normal", "admin"}
  /\ token' = [token EXCEPT
       ![t] = [user |-> n, role |-> RoleOf(status[n]), left |-> 0, signed |-> FALSE]]
  /\ UNCHANGED <<users, status, signup, profile, reader, listed, redis, check, revoke, revoked>>

\* Signing: the claims are fixed, and the lifetime begins.
Signed(t) == [user |-> t.user, role |-> t.role, left |-> Lifetime, signed |-> TRUE]

\* ... and a token signed, whatever has become of the row.  The key of a token signed now
\* is not in the blacklist.
GenerateToken(t) ==
  /\ token[t].user # Nobody /\ ~token[t].signed
  /\ token' = [token EXCEPT ![t] = Signed(@)]
  /\ listed' = [listed EXCEPT ![t] = 0] /\ revoked' = revoked \ {t}
  /\ UNCHANGED <<users, status, signup, profile, reader, redis, check, revoke>>

\* IsBlacklisted: a Redis error counts as "not listed" for ValidateToken.
IsBlacklisted(t) == redis /\ listed[t] > 0

\* authMiddleware, the game service's and the admin service's, and HandleWebSocket: the
\* blacklist first, the signature and the expiry afterwards.
Authenticate(k, t) ==
  /\ check[k] = Idle /\ token[t].signed /\ ~IsBlacklisted(t)
  /\ check' = [check EXCEPT ![k] = [step |-> "parse", token |-> t,
                                    asked |-> redis, revoked |-> t \in revoked]]
  /\ UNCHANGED <<users, status, signup, profile, reader, token, listed, redis, revoke, revoked>>

\* ParseWithClaims: the handler runs if the token has time left.
Parse(k) ==
  /\ check[k].step = "parse"
  /\ check' = [check EXCEPT ![k] = Idle]
  /\ UNCHANGED <<users, status, signup, profile, reader, token, listed, redis, revoke, revoked>>
Accepting(k) == check[k].step = "parse" /\ token[check[k].token].left > 0

\* BlacklistToken: validate, take the remaining lifetime, write the key with it.
RevokeCheck(v, t) ==
  /\ revoke[v] = Idle /\ token[t].signed /\ ~IsBlacklisted(t)
  /\ revoke' = [revoke EXCEPT ![v] = [step |-> "ttl", token |-> t]]
  /\ UNCHANGED <<users, status, signup, profile, reader, token, listed, redis, check, revoked>>

\* The key written for one tick, however long the token lives.
RevokeBriefly(v) ==
  /\ revoke[v].step = "ttl"
  /\ revoke' = [revoke EXCEPT
       ![v] = IF token[revoke[v].token].left = 0 THEN Idle
              ELSE [step |-> "set", token |-> revoke[v].token, ttl |-> 1]]
  /\ UNCHANGED <<users, status, signup, profile, reader, token, listed, redis, check, revoked>>

RevokeTtl(v) ==
  /\ revoke[v].step = "ttl"
  /\ LET t == revoke[v].token IN
       revoke' = [revoke EXCEPT
         ![v] = IF token[t].left = 0 THEN Idle
                ELSE [step |-> "set", token |-> t, ttl |-> token[t].left]]
  /\ UNCHANGED <<users, status, signup, profile, reader, token, listed, redis, check, revoked>>

RevokeSet(v) ==
  /\ revoke[v].step = "set" /\ redis
  /\ listed' = [listed EXCEPT ![revoke[v].token] = revoke[v].ttl]
  /\ revoked' = revoked \union {revoke[v].token}
  /\ revoke' = [revoke EXCEPT ![v] = Idle]
  /\ UNCHANGED <<users, status, signup, profile, reader, token, redis, check>>

RevokeFails(v) ==
  /\ revoke[v].step = "set" /\ ~redis
  /\ revoke' = [revoke EXCEPT ![v] = Idle]
  /\ UNCHANGED <<users, status, signup, profile, reader, token, listed, redis, check, revoked>>

\* Time passes for tokens and keys alike; Redis comes and goes, and keeps its keys.
Less(n) == IF n = 0 THEN 0 ELSE n - 1
Tick ==
  /\ \E t \in Tokens : token[t].left > 0 \/ listed[t] > 0
  /\ token' = [t \in Tokens |-> [token[t] EXCEPT !.left = Less(@)]]
  /\ listed' = [t \in Tokens |-> Less(listed[t])]
  /\ UNCHANGED <<users, status, signup, profile, reader, redis, check, revoke, revoked>>

RedisTurns ==
  /\ redis' = ~redis
  /\ UNCHANGED <<users, status, signup, profile, reader, token, listed, check, revoke, revoked>>

PostRegister == \E r \in Requests : \E form \in Forms[r] : CheckName(r, form[1], form[2])
PostLogin == \E t \in Tokens, n \in Names : Login(t, n)

Next == \/ PostRegister \/ PostLogin
        \/ \E r \in Requests : CheckEmail(r) \/ Create(r)
        \/ \E n \in Names, s \in {"banned", "normal", "admin"} : SetStatus(n, s)
        \/ GetUserInfo
        \/ \E r \in Readers : Answered(r)
        \/ \E n \in Names : Expired(n)
        \/ \E t \in Tokens : GenerateToken(t)
        \/ \E k \in Checks, t \in Tokens : Authenticate(k, t)
        \/ \E k \in Checks : Parse(k)
        \/ \E v \in Revokes, t \in Tokens : RevokeCheck(v, t)
        \/ \E v \in Revokes : RevokeTtl(v) \/ RevokeSet(v) \/ RevokeFails(v)
        \/ Tick \/ RedisTurns

Spec == Init /\ [][Next]_avars

\* Clocks go on; a handler that has asked the database or compared a password comes to its
\* end.  Nobody has to register, log in, revoke or change a status.
FairSpec == /\ Spec /\ WF_avars(Tick)
            /\ \A t \in Tokens : WF_avars(GenerateToken(t))
            /\ \A n \in Names : WF_avars(Expired(n))
            /\ \A r \in Readers : /\ WF_avars(Profile!Query(r) /\ Rest)
                                  /\ WF_avars(Profile!Store(r) /\ Rest)

------------------------------------------------------------------------------
\* Two rows share neither the name nor the e-mail, however many registrations have
\* counted zero before any of them creates (service.go:37-69).
Distinct == \A x, y \in users : x.name = y.name \/ x.email = y.email => x = y

\* Once BlacklistToken has answered nil, no request that starts then is let in with the
\* token as long as Redis answers its question: the key lives until the token has expired
\* on its own, though the time to live was taken before the key was written, and the key
\* may run out between a request's look at the blacklist and its parsing of the token.
RevokedIsRejected ==
  \A k \in Checks : Accepting(k) => ~(check[k].asked /\ check[k].revoked)

\* The inductive invariant behind it: a revoked token's key outlives it, so does the time to
\* live a BlacklistToken is about to write, and no call holds a token that is yet to be signed.
TypeOK ==
  /\ token \in [Tokens -> [user : Names \union {Nobody}, role : {"player", "admin"},
                           left : 0..Lifetime, signed : BOOLEAN]]
  /\ listed \in [Tokens -> 0..Lifetime] /\ redis \in BOOLEAN /\ revoked \subseteq Tokens
  /\ check \in [Checks -> {Idle} \union
                  [step : {"parse"}, token : Tokens, asked : BOOLEAN, revoked : BOOLEAN]]
  /\ revoke \in [Revokes -> {Idle} \union [step : {"ttl"}, token : Tokens]
                            \union [step : {"set"}, token : Tokens, ttl : 0..Lifetime]]
HeldAreSigned == /\ \A k \in Checks : check[k] # Idle => token[check[k].token].signed
                 /\ \A v \in Revokes : revoke[v] # Idle => token[revoke[v].token].signed
KeysOutlive == \A t \in revoked : token[t].left <= listed[t]
TtlCovers == \A v \in Revokes : revoke[v].step = "set" =>
                                   token[revoke[v].token].left <= revoke[v].ttl
TInv == TypeOK /\ HeldAreSigned /\ KeysOutlive /\ TtlCovers /\ RevokedIsRejected

\* What a token or a cached profile says of a user is what the table says.
Agrees(n) ==
  /\ \A t \in Tokens : token[t].user = n /\ token[t].left > 0 =>
       status[n] # "banned" /\ token[t].role = RoleOf(status[n])
  /\ profile[n] \in {NoCopy, status[n]}

\* Nothing tells a token or the cache that a user's status has changed (no logout, no
\* invalidation); still a ban, a pardon or a promotion that stays takes effect in the end,
\* on every token and every copy: the banned cannot renew what they hold.
StatusTakesEffect ==
  \A n \in Names, s \in {"banned", "normal", "admin"} :
    <>[](status[n] = s) => <>[]Agrees(n)
==============================================================================
