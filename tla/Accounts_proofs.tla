---------------------------- MODULE Accounts_proofs ----------------------------
(***************************************************************************)
(* Names and e-mails stay distinct and a revoked token stays out, for any    *)
(* numbers of registrations, tokens, requests and revocations, and any       *)
(* lifetime of a token.                                                      *)
(***************************************************************************)
EXTENDS Accounts, TLAPS

\* The unique indexes keep the rows distinct, whatever registrations have counted before
\* (service.go:37-69).
THEOREM RowsAreDistinct == Spec => []Distinct
<1>1. Init => Distinct
  BY DEF Init, Distinct
<1>2. ASSUME Distinct, [Next]_avars PROVE Distinct'
  <2>1. ASSUME NEW r \in Requests, Create(r), Unique(signup[r].name, signup[r].email)
        PROVE  Distinct'
    BY <1>2, <2>1 DEF Create, Unique, Distinct
  <2>2. ASSUME users' = users PROVE Distinct'
    BY <1>2, <2>2 DEF Distinct
  <2>3. users' = users \/ \E r \in Requests : Create(r) /\ Unique(signup[r].name, signup[r].email)
    BY <1>2
       DEF Next, PostRegister, PostLogin, CheckName, CheckEmail, Create, SetStatus, GetUserInfo,
           GetUser, Answered, Expired, Rest, Login, GenerateToken, Authenticate, Parse,
           RevokeCheck, RevokeTtl, RevokeSet, RevokeFails, Tick, RedisTurns, avars
  <2> QED
    BY <2>1, <2>2, <2>3
<1> QED
  BY <1>1, <1>2, PTL DEF Spec

------------------------------------------------------------------------------
\* Without a token there is nothing to revoke.
LEMMA InitTInv == Init => TInv
<1> SUFFICES ASSUME Init PROVE TInv
  OBVIOUS
<1>1. TypeOK
  BY LifetimeAssumption DEF Init, TypeOK, NoToken, Idle
<1>2. HeldAreSigned /\ KeysOutlive /\ TtlCovers /\ RevokedIsRejected
  BY DEF Init, HeldAreSigned, KeysOutlive, TtlCovers, RevokedIsRejected, Accepting, Idle
<1> QED
  BY <1>1, <1>2 DEF TInv

\* A login takes a token nobody holds, and signing gives it a key of its own.
LEMMA IssueTInv ==
  ASSUME TInv, NEW t \in Tokens, GenerateToken(t) \/ \E n \in Names : Login(t, n)
  PROVE  TInv'
<1>1. CASE GenerateToken(t)
  <2>1. /\ token[t].user # Nobody /\ ~token[t].signed
        /\ token' = [token EXCEPT ![t] = Signed(@)]
        /\ listed' = [listed EXCEPT ![t] = 0] /\ revoked' = revoked \ {t}
        /\ UNCHANGED <<redis, check, revoke>>
    BY <1>1 DEF GenerateToken
  <2>2. \A k \in Checks : check[k] # Idle => check[k].token # t
    BY <2>1 DEF TInv, HeldAreSigned
  <2>3. \A v \in Revokes : revoke[v] # Idle => revoke[v].token # t
    BY <2>1 DEF TInv, HeldAreSigned
  <2>4. Signed(token[t]) \in [user : Names \union {Nobody}, role : {"player", "admin"},
                              left : 0..Lifetime, signed : BOOLEAN]
    <3> DEFINE TokenType == [user : Names \union {Nobody}, role : {"player", "admin"},
                             left : 0..Lifetime, signed : BOOLEAN]
    <3>1. token[t] \in TokenType
      BY DEF TInv, TypeOK
    <3>2. token[t].user \in Names \union {Nobody} /\ token[t].role \in {"player", "admin"}
      BY <3>1
    <3> QED
      BY <3>2, LifetimeAssumption DEF Signed
  <2>5. TypeOK'
    BY <2>1, <2>4, LifetimeAssumption DEF TInv, TypeOK
  <2>6. \A d \in Tokens \ {t} : token'[d] = token[d] /\ listed'[d] = listed[d]
    BY <2>1 DEF TInv, TypeOK
  <2>7. \A k \in Checks : check[k] # Idle => check[k].token \in Tokens \ {t}
    BY <2>2 DEF TInv, TypeOK
  <2>8. \A v \in Revokes : revoke[v] # Idle => revoke[v].token \in Tokens \ {t}
    BY <2>3 DEF TInv, TypeOK
  <2>9. HeldAreSigned' /\ KeysOutlive'
    BY <2>1, <2>6, <2>7, <2>8 DEF TInv, TypeOK, HeldAreSigned, KeysOutlive
  <2>10. TtlCovers' /\ RevokedIsRejected'
    BY <2>1, <2>6, <2>7, <2>8 DEF TInv, TtlCovers, RevokedIsRejected, Accepting, Idle
  <2> QED
    BY <2>5, <2>9, <2>10 DEF TInv
<1>2. ASSUME NEW n \in Names, Login(t, n) PROVE TInv'
  <2> DEFINE new == [user |-> n, role |-> RoleOf(status[n]), left |-> 0, signed |-> FALSE]
  <2>1. /\ token' = [token EXCEPT ![t] = new]
        /\ UNCHANGED <<listed, redis, check, revoke, revoked>>
        /\ \A k \in Checks : check[k] # Idle => check[k].token # t
        /\ \A v \in Revokes : revoke[v] # Idle => revoke[v].token # t
    BY <1>2 DEF Login, Gone
  <2>2. new \in [user : Names \union {Nobody}, role : {"player", "admin"},
                 left : 0..Lifetime, signed : BOOLEAN]
    BY LifetimeAssumption DEF RoleOf
  <2>3. TypeOK'
    BY <2>1, <2>2 DEF TInv, TypeOK
  <2>4. token'[t].left = 0 /\ \A d \in Tokens \ {t} : token'[d] = token[d]
    BY <2>1 DEF TInv, TypeOK
  <2>5. \A k \in Checks : check[k] # Idle => check[k].token \in Tokens \ {t}
    BY <2>1 DEF TInv, TypeOK
  <2>6. \A v \in Revokes : revoke[v] # Idle => revoke[v].token \in Tokens \ {t}
    BY <2>1 DEF TInv, TypeOK
  <2>7. HeldAreSigned' /\ KeysOutlive'
    BY <2>1, <2>4, <2>5, <2>6, LifetimeAssumption DEF TInv, TypeOK, HeldAreSigned, KeysOutlive
  <2>8. TtlCovers' /\ RevokedIsRejected'
    BY <2>1, <2>4, <2>5, <2>6 DEF TInv, TtlCovers, RevokedIsRejected, Accepting, Idle
  <2> QED
    BY <2>3, <2>7, <2>8 DEF TInv
<1> QED
  BY <1>1, <1>2

\* A request whose question Redis answered has found no key, so that the token it holds has
\* no time left if it was revoked.
LEMMA RequestTInv ==
  ASSUME TInv, NEW k \in Checks, Parse(k) \/ \E t \in Tokens : Authenticate(k, t)
  PROVE  TInv'
<1>1. CASE Parse(k)
  BY <1>1 DEF Parse, TInv, TypeOK, HeldAreSigned, KeysOutlive, TtlCovers, RevokedIsRejected,
              Accepting, Idle
<1>2. ASSUME NEW t \in Tokens, Authenticate(k, t) PROVE TInv'
  <2>1. /\ token[t].signed /\ ~(redis /\ listed[t] > 0)
        /\ check' = [check EXCEPT ![k] = [step |-> "parse", token |-> t,
                                          asked |-> redis, revoked |-> t \in revoked]]
        /\ UNCHANGED <<token, listed, redis, revoke, revoked>>
    BY <1>2 DEF Authenticate, IsBlacklisted
  <2>2. redis /\ t \in revoked => ~(token[t].left > 0)
    BY <2>1, LifetimeAssumption DEF TInv, TypeOK, KeysOutlive
  <2>3. (t \in revoked) \in BOOLEAN
    OBVIOUS
  <2>4. TypeOK'
    BY <2>1, <2>3 DEF TInv, TypeOK
  <2>5. HeldAreSigned' /\ KeysOutlive' /\ TtlCovers'
    BY <2>1 DEF TInv, TypeOK, HeldAreSigned, KeysOutlive, TtlCovers
  <2>6. RevokedIsRejected'
    BY <2>1, <2>2 DEF TInv, TypeOK, RevokedIsRejected, Accepting
  <2> QED
    BY <2>4, <2>5, <2>6 DEF TInv
<1> QED
  BY <1>1, <1>2

\* BlacklistToken writes no less than the token has left when it writes.
LEMMA RevokeTInv ==
  ASSUME TInv, NEW v \in Revokes,
         \/ \E t \in Tokens : RevokeCheck(v, t)
         \/ RevokeTtl(v) \/ RevokeSet(v) \/ RevokeFails(v)
  PROVE  TInv'
<1>1. ASSUME NEW t \in Tokens, RevokeCheck(v, t) PROVE TInv'
  BY <1>1 DEF RevokeCheck, TInv, TypeOK, HeldAreSigned, KeysOutlive, TtlCovers,
              RevokedIsRejected, Accepting, Idle
<1>2. CASE RevokeTtl(v)
  <2> DEFINE t == revoke[v].token
  <2>1. t \in Tokens /\ revoke[v] # Idle
    BY <1>2 DEF RevokeTtl, TInv, TypeOK, Idle
  <2>2. /\ revoke' = [revoke EXCEPT ![v] = IF token[t].left = 0 THEN Idle
                        ELSE [step |-> "set", token |-> t, ttl |-> token[t].left]]
        /\ UNCHANGED <<token, listed, redis, check, revoked>>
    BY <1>2 DEF RevokeTtl
  <2>3. token[t].left \in 0..Lifetime /\ token[t].signed
    BY <2>1 DEF TInv, TypeOK, HeldAreSigned
  <2>4. TypeOK'
    BY <2>1, <2>2, <2>3 DEF TInv, TypeOK
  <2>5. HeldAreSigned' /\ KeysOutlive' /\ TtlCovers' /\ RevokedIsRejected'
    BY <2>1, <2>2, <2>3, LifetimeAssumption
       DEF TInv, TypeOK, HeldAreSigned, KeysOutlive, TtlCovers, RevokedIsRejected, Accepting, Idle
  <2> QED
    BY <2>4, <2>5 DEF TInv
<1>3. CASE RevokeSet(v)
  <2> DEFINE t == revoke[v].token
  <2>1. t \in Tokens /\ revoke[v].ttl \in 0..Lifetime /\ token[t].left <= revoke[v].ttl
    BY <1>3 DEF RevokeSet, TInv, TypeOK, TtlCovers, Idle
  <2>2. /\ listed' = [listed EXCEPT ![t] = revoke[v].ttl] /\ revoked' = revoked \union {t}
        /\ revoke' = [revoke EXCEPT ![v] = Idle]
        /\ UNCHANGED <<token, redis, check>>
    BY <1>3 DEF RevokeSet
  <2>3. TypeOK'
    BY <2>1, <2>2 DEF TInv, TypeOK
  <2>4. KeysOutlive'
    BY <2>1, <2>2 DEF TInv, TypeOK, KeysOutlive
  <2>5. HeldAreSigned' /\ TtlCovers' /\ RevokedIsRejected'
    BY <2>2 DEF TInv, TypeOK, HeldAreSigned, TtlCovers, RevokedIsRejected, Accepting, Idle
  <2> QED
    BY <2>3, <2>4, <2>5 DEF TInv
<1>4. CASE RevokeFails(v)
  BY <1>4 DEF RevokeFails, TInv, TypeOK, HeldAreSigned, KeysOutlive, TtlCovers,
              RevokedIsRejected, Accepting, Idle
<1> QED
  BY <1>1, <1>2, <1>3, <1>4

\* Time takes from token and key alike.
LEMMA TickTInv ==
  ASSUME TInv, Tick
  PROVE  TInv'
<1>1. /\ token' = [t \in Tokens |-> [token[t] EXCEPT !.left = Less(@)]]
      /\ listed' = [t \in Tokens |-> Less(listed[t])]
      /\ UNCHANGED <<redis, check, revoke, revoked>>
  BY DEF Tick
<1>2. \A n \in 0..Lifetime : Less(n) \in 0..Lifetime /\ Less(n) <= n
  BY LifetimeAssumption DEF Less
<1>3. \A m, n \in 0..Lifetime : m <= n => Less(m) <= Less(n)
  BY LifetimeAssumption DEF Less
<1>4. \A t \in Tokens : /\ token[t].left \in 0..Lifetime /\ listed[t] \in 0..Lifetime
                        /\ token'[t].left = Less(token[t].left)
                        /\ token'[t].signed = token[t].signed
                        /\ listed'[t] = Less(listed[t])
  BY <1>1 DEF TInv, TypeOK
<1>5. TypeOK'
  <2> DEFINE TokenType == [user : Names \union {Nobody}, role : {"player", "admin"},
                           left : 0..Lifetime, signed : BOOLEAN]
  <2>1. \A x \in TokenType : [x EXCEPT !.left = Less(@)] \in TokenType
    BY <1>2
  <2>2. \A t \in Tokens : token[t] \in TokenType
    BY DEF TInv, TypeOK
  <2>3. token' \in [Tokens -> TokenType]
    BY <1>1, <2>1, <2>2
  <2> QED
    BY <1>1, <1>2, <2>3 DEF TInv, TypeOK
<1>6. HeldAreSigned'
  BY <1>1, <1>4 DEF TInv, TypeOK, HeldAreSigned
<1>7. KeysOutlive'
  BY <1>1, <1>3, <1>4 DEF TInv, TypeOK, KeysOutlive
<1>8. TtlCovers'
  <2> SUFFICES ASSUME NEW v \in Revokes, revoke[v].step = "set"
               PROVE  token'[revoke[v].token].left <= revoke[v].ttl
    BY <1>1 DEF TtlCovers
  <2>1. revoke[v].token \in Tokens /\ revoke[v].ttl \in 0..Lifetime
    BY DEF TInv, TypeOK, Idle
  <2> QED
    BY <1>2, <1>4, <2>1, LifetimeAssumption DEF TInv, TtlCovers
<1>9. RevokedIsRejected'
  <2> SUFFICES ASSUME NEW k \in Checks, check[k].step = "parse", check[k].asked,
                      check[k].revoked
               PROVE  ~(token'[check[k].token].left > 0)
    BY <1>1 DEF RevokedIsRejected, Accepting
  <2>1. check[k].token \in Tokens
    BY DEF TInv, TypeOK, Idle
  <2>2. ~(token[check[k].token].left > 0)
    BY DEF TInv, RevokedIsRejected, Accepting
  <2> QED
    BY <1>2, <1>4, <2>1, <2>2, LifetimeAssumption
<1> QED
  BY <1>5, <1>6, <1>7, <1>8, <1>9 DEF TInv

\* Redis may come and go, and what concerns neither tokens nor Redis changes nothing here.
LEMMA OtherTInv ==
  ASSUME TInv, redis' \in BOOLEAN, UNCHANGED <<token, listed, check, revoke, revoked>>
  PROVE  TInv'
  BY DEF TInv, TypeOK, HeldAreSigned, KeysOutlive, TtlCovers, RevokedIsRejected, Accepting

\* TInv is an invariant of the accounts, whatever the numbers of tokens and calls.
THEOREM TokenInvariance == Spec => []TInv
<1>1. ASSUME TInv, [Next]_avars PROVE TInv'
  <2>1. CASE \E t \in Tokens : GenerateToken(t) \/ \E n \in Names : Login(t, n)
    BY <1>1, <2>1, IssueTInv
  <2>2. CASE \E k \in Checks : Parse(k) \/ \E t \in Tokens : Authenticate(k, t)
    BY <1>1, <2>2, RequestTInv
  <2>3. CASE \E v \in Revokes : \/ \E t \in Tokens : RevokeCheck(v, t)
                                \/ RevokeTtl(v) \/ RevokeSet(v) \/ RevokeFails(v)
    BY <1>1, <2>3, RevokeTInv
  <2>4. CASE Tick
    BY <1>1, <2>4, TickTInv
  <2>5. CASE RedisTurns
    <3>1. redis' \in BOOLEAN /\ UNCHANGED <<token, listed, check, revoke, revoked>>
      BY <2>5 DEF RedisTurns
    <3> QED
      BY <1>1, <3>1, OtherTInv
  <2>6. CASE UNCHANGED tokenVars
    <3>1. redis' \in BOOLEAN /\ UNCHANGED <<token, listed, check, revoke, revoked>>
      BY <1>1, <2>6 DEF tokenVars, TInv, TypeOK
    <3> QED
      BY <1>1, <3>1, OtherTInv
  <2>7. \/ \E t \in Tokens : GenerateToken(t) \/ \E n \in Names : Login(t, n)
        \/ \E k \in Checks : Parse(k) \/ \E t \in Tokens : Authenticate(k, t)
        \/ \E v \in Revokes : \/ \E t \in Tokens : RevokeCheck(v, t)
                              \/ RevokeTtl(v) \/ RevokeSet(v) \/ RevokeFails(v)
        \/ Tick \/ RedisTurns \/ UNCHANGED tokenVars
    BY <1>1
       DEF Next, PostRegister, PostLogin, CheckName, CheckEmail, Create, SetStatus, GetUserInfo,
           GetUser, Answered, Expired, Rest, avars
  <2> QED
    BY <2>1, <2>2, <2>3, <2>4, <2>5, <2>6, <2>7
<1> QED
  BY InitTInv, <1>1, PTL DEF Spec

\* A token that BlacklistToken has answered nil about gets no later request in that Redis
\* answers, for any lifetime and any number of requests (jwt.go:64-130).
THEOREM RevokedStaysOut == Spec => []RevokedIsRejected
<1>1. TInv => RevokedIsRejected
  BY DEF TInv
<1> QED
  BY <1>1, TokenInvariance, PTL
==============================================================================
