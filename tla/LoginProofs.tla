---------------------------- MODULE LoginProofs ----------------------------
(***************************************************************************)
(* Theorems about Login, for any number of concurrent handlers, passwords, *)
(* sessions and reset tokens, crashes included.                            *)
(***************************************************************************)
EXTENDS MCLogin, TLAPS

LEMMA IdleRecord ==
    Idle \in Request /\ Idle.pc = "idle" /\ Idle.before = {}
  BY DEF Idle, Request, Stages

\* A step of a handler keeps the invariant if no session comes back, none that
\* was made is unmade, and what the handler evicts is accounted for.
LEMMA HandlerStep ==
    ASSUME LoginInv, NEW r \in Requests, NEW q \in Request, Put(r, q),
           password' \in Hash, session' \in [Tokens -> Document],
           unchosen' \in SUBSET Passwords,
           opened' \in [Tokens -> Passwords \cup {NoPassword}],
           reset' \in [Resets -> Document], uses' \in [Resets -> Nat],
           ResetTokensConsistent',
           \A t \in Tokens : session[t] # "unmade" =>
               /\ session'[t] # "unmade"
               /\ session'[t] \in {"stored", "expired"} =>
                      session[t] \in {"stored", "expired"},
           \A t \in q.before : session'[t] # "unmade",
           q.pc = "evicting" =>
               \A t \in q.before : session'[t] \in {"stored", "expired"} =>
                   t \in q.todo \/ t = q.keep
    PROVE  LoginInv'
<1>1. /\ req' \in [Requests -> Request] /\ req'[r] = q
      /\ \A s \in Requests : s # r => req'[s] = req[s]
  BY DEF LoginInv, TypeOK, Put
<1>2. TypeOK'
  BY <1>1 DEF LoginInv, TypeOK
<1>3. ASSUME NEW s \in Requests
      PROVE  /\ \A t \in req'[s].before : session'[t] # "unmade"
             /\ req'[s].pc = "evicting" =>
                   \A t \in req'[s].before : session'[t] \in {"stored", "expired"} =>
                       t \in req'[s].todo \/ t = req'[s].keep
  <2>1. CASE s = r
    BY <1>1, <2>1
  <2>2. CASE s # r
    <3>1. req'[s] = req[s] /\ req[s] \in Request
      BY <1>1, <2>2 DEF LoginInv, TypeOK
    <3>2. req[s].before \subseteq Tokens
      BY <3>1 DEF Request
    <3> QED BY <3>1, <3>2 DEF LoginInv, EvictionInv, At, Kept
  <2> QED BY <2>1, <2>2
<1>4. EvictionInv'
  BY <1>3 DEF EvictionInv, At, Kept
<1> QED BY <1>2, <1>4 DEF LoginInv

\* A handler that only moves on, or answers, with the sessions left alone.
LEMMA StageStep ==
    ASSUME LoginInv, NEW r \in Requests, NEW stage \in Stages, stage # "evicting",
           Move(r, stage) \/ Return(r),
           password' \in Hash, UNCHANGED <<session, reset, unchosen, opened, uses>>
    PROVE  LoginInv'
<1> DEFINE q == [req[r] EXCEPT !.pc = stage]
<1>1. req[r] \in Request /\ \A t \in req[r].before : session[t] # "unmade"
  BY DEF LoginInv, TypeOK, EvictionInv
<1>2. q \in Request /\ q.pc = stage /\ q.before = req[r].before
  BY <1>1 DEF Request
<1>3. Put(r, q) \/ Put(r, Idle)
  BY DEF Move, Return
<1>4. /\ session' \in [Tokens -> Document] /\ unchosen' \in SUBSET Passwords
      /\ opened' \in [Tokens -> Passwords \cup {NoPassword}]
      /\ reset' \in [Resets -> Document] /\ uses' \in [Resets -> Nat]
      /\ ResetTokensConsistent' /\ UNCHANGED session
  BY DEF LoginInv, TypeOK, ResetTokensConsistent
<1> HIDE DEF q
<1> QED BY <1>1, <1>2, <1>3, <1>4, IdleRecord, HandlerStep

LEMMA SignInStep ==
    ASSUME LoginInv, NEW r \in Requests, SignIn(r) PROVE LoginInv'
<1>0. /\ password \in Hash /\ session \in [Tokens -> Document]
      /\ reset \in [Resets -> Document] /\ unchosen \in SUBSET Passwords
      /\ opened \in [Tokens -> Passwords \cup {NoPassword}]
      /\ uses \in [Resets -> Nat] /\ req[r] \in Request /\ ResetTokensConsistent
  BY DEF LoginInv, TypeOK
<1>1. ASSUME NEW p \in Passwords, Signup(r, p) PROVE LoginInv'
  <2> DEFINE q == [Idle EXCEPT !.pc = "opening", !.given = p]
  <2>1. q \in Request /\ q.pc = "opening" /\ q.before = {}
    BY IdleRecord DEF Request, Stages, Idle
  <2>2. /\ Put(r, q) /\ password' \in Hash /\ unchosen' \in SUBSET Passwords
        /\ UNCHANGED <<session, reset, opened, uses>>
    BY <1>0, <1>1 DEF Signup, Hash
  <2>3. ResetTokensConsistent'
    BY <1>0, <2>2 DEF ResetTokensConsistent
  <2> HIDE DEF q
  <2> QED BY <1>0, <2>1, <2>2, <2>3, HandlerStep
<1>2. ASSUME NEW p \in Passwords, Login(r, p) PROVE LoginInv'
  <2> DEFINE q == [Idle EXCEPT !.pc = "verifying", !.given = p]
  <2>1. q \in Request /\ q.pc = "verifying" /\ q.before = {}
    BY IdleRecord DEF Request, Stages, Idle
  <2>2. Put(r, q) /\ UNCHANGED <<password, session, reset, unchosen, opened, uses>>
    BY <1>2 DEF Login
  <2>3. ResetTokensConsistent'
    BY <1>0, <2>2 DEF ResetTokensConsistent
  <2> HIDE DEF q
  <2> QED BY <1>0, <2>1, <2>2, <2>3, HandlerStep
<1>3. CASE Verify(r)
  BY <1>0, <1>3, StageStep DEF Verify, Stages
<1>4. CASE Rehash(r)
  <2>1. password' \in Hash
    BY <1>0, <1>4 DEF Rehash, Hash, Request
  <2> QED BY <1>4, <2>1, StageStep DEF Rehash, Stages
<1>5. ASSUME NEW t \in Tokens, OpenSession(r, t) PROVE LoginInv'
  <2>1. /\ session' \in [Tokens -> Document] /\ session[t] = "unmade"
        /\ \A s \in Tokens : s # t => session'[s] = session[s]
    BY <1>0, <1>5 DEF OpenSession, Document
  <2>2. opened' \in [Tokens -> Passwords \cup {NoPassword}]
    BY <1>0, <1>5 DEF OpenSession, Request
  <2>3. /\ Put(r, Idle) /\ UNCHANGED <<password, reset, unchosen, uses>>
        /\ ResetTokensConsistent'
    BY <1>0, <1>5 DEF OpenSession, Return, ResetTokensConsistent
  <2> QED BY <1>0, <2>1, <2>2, <2>3, IdleRecord, HandlerStep
<1> QED BY <1>1, <1>2, <1>3, <1>4, <1>5 DEF SignIn

LEMMA SetPasswordStep ==
    ASSUME LoginInv, NEW r \in Requests, SetPassword(r) PROVE LoginInv'
<1>0. /\ password \in Hash /\ session \in [Tokens -> Document]
      /\ reset \in [Resets -> Document] /\ unchosen \in SUBSET Passwords
      /\ opened \in [Tokens -> Passwords \cup {NoPassword}]
      /\ uses \in [Resets -> Nat] /\ req[r] \in Request /\ ResetTokensConsistent
      /\ req[r].before \subseteq Tokens
      /\ \A t \in req[r].before : session[t] # "unmade"
  BY DEF LoginInv, TypeOK, EvictionInv, Request
<1>1. ASSUME NEW t \in Tokens, NEW p \in Passwords, NEW new \in Passwords,
             ChangePassword(r, t, p, new)
      PROVE  LoginInv'
  <2> DEFINE q == [Idle EXCEPT !.pc = "changing", !.given = p, !.new = new, !.keep = t]
  <2>1. q \in Request /\ q.pc = "changing" /\ q.before = {}
    BY IdleRecord DEF Request, Stages, Idle
  <2>2. /\ Put(r, q) /\ UNCHANGED <<password, session, reset, opened, uses>>
        /\ unchosen' \in SUBSET Passwords
    BY <1>0, <1>1 DEF ChangePassword
  <2>3. ResetTokensConsistent'
    BY <1>0, <2>2 DEF ResetTokensConsistent
  <2> HIDE DEF q
  <2> QED BY <1>0, <2>1, <2>2, <2>3, HandlerStep
<1>2. CASE VerifyCurrent(r)
  BY <1>0, <1>2, StageStep DEF VerifyCurrent, Stages
<1>3. ASSUME NEW k \in Resets, NEW new \in Passwords, ConsumeReset(r, k, new)
      PROVE  LoginInv'
  <2>0. /\ reset' \in [Resets -> Document] /\ reset'[k] = "gone"
        /\ \A j \in Resets : j # k => reset'[j] = reset[j]
        /\ UNCHANGED <<password, session, opened>>
        /\ reset[k] \in {"stored", "expired"}
    BY <1>0, <1>3 DEF ConsumeReset, Document
  <2>1. uses[k] = 0
    BY <1>0, <2>0 DEF ResetTokensConsistent
  <2>2. CASE reset[k] = "stored"
    <3> DEFINE q == [Idle EXCEPT !.pc = "updating", !.new = new]
    <3>1. q \in Request /\ q.pc = "updating" /\ q.before = {}
      BY IdleRecord DEF Request, Stages, Idle
    <3>2. /\ Put(r, q) /\ unchosen' \in SUBSET Passwords
          /\ uses' = [uses EXCEPT ![k] = @ + 1]
      BY <1>0, <1>3, <2>2 DEF ConsumeReset
    <3>3. /\ uses' \in [Resets -> Nat] /\ uses'[k] = 1
          /\ \A j \in Resets : j # k => uses'[j] = uses[j]
      BY <1>0, <2>1, <3>2
    <3>4. ResetTokensConsistent'
      BY <1>0, <2>0, <3>3 DEF ResetTokensConsistent
    <3> HIDE DEF q
    <3> QED BY <1>0, <2>0, <3>1, <3>2, <3>3, <3>4, HandlerStep
  <2>3. CASE reset[k] # "stored"
    <3>1. UNCHANGED <<unchosen, uses, req>>
      BY <1>3, <2>3 DEF ConsumeReset
    <3>2. ResetTokensConsistent'
      BY <1>0, <2>0, <2>1, <3>1 DEF ResetTokensConsistent
    <3>3. TypeOK' /\ EvictionInv'
      BY <2>0, <3>1 DEF LoginInv, TypeOK, EvictionInv, At, Kept
    <3> QED BY <3>2, <3>3 DEF LoginInv
  <2> QED BY <2>2, <2>3
<1>4. CASE UpdatePasswordHash(r)
  <2> DEFINE q == [req[r] EXCEPT !.pc = "listing", !.before = Kept]
  <2>1. q \in Request /\ q.pc = "listing" /\ q.before = Kept
    BY <1>0 DEF Request, Stages, Kept
  <2>2. /\ Put(r, q) /\ password' \in Hash
        /\ opened' \in [Tokens -> Passwords \cup {NoPassword}]
        /\ UNCHANGED <<session, reset, unchosen, uses>>
    BY <1>0, <1>4 DEF UpdatePasswordHash, Hash, Request
  <2>3. ResetTokensConsistent' /\ \A t \in Kept : session[t] # "unmade"
    BY <1>0, <2>2 DEF ResetTokensConsistent, Kept
  <2> HIDE DEF q
  <2> QED BY <1>0, <2>1, <2>2, <2>3, HandlerStep
<1>5. CASE ListSessions(r)
  <2> DEFINE q == [req[r] EXCEPT !.pc = "evicting", !.todo = Kept \ {req[r].keep}]
  <2>1. /\ q \in Request /\ q.before = req[r].before
        /\ q.todo = Kept \ {req[r].keep} /\ q.keep = req[r].keep
    BY <1>0 DEF Request, Stages, Kept
  <2>2. Put(r, q) /\ UNCHANGED <<password, session, reset, unchosen, opened, uses>>
    BY <1>5 DEF ListSessions
  <2>3. ResetTokensConsistent'
    BY <1>0, <2>2 DEF ResetTokensConsistent
  <2>4. \A t \in q.before : session[t] \in {"stored", "expired"} =>
            t \in q.todo \/ t = q.keep
    BY <1>0, <2>1 DEF Kept
  <2> HIDE DEF q
  <2> QED BY <1>0, <2>1, <2>2, <2>3, <2>4, HandlerStep
<1>6. CASE EvictSession(r)
  <2>0. PICK t \in req[r].todo : /\ session' = [session EXCEPT ![t] = "gone"]
                                 /\ Put(r, [req[r] EXCEPT !.todo = @ \ {t}])
    BY <1>6 DEF EvictSession
  <2> DEFINE q == [req[r] EXCEPT !.todo = @ \ {t}]
  <2>1. /\ q \in Request /\ q.before = req[r].before /\ q.keep = req[r].keep
        /\ q.todo = req[r].todo \ {t} /\ q.pc = req[r].pc /\ t \in Tokens
    BY <1>0 DEF Request
  <2>2. /\ session' \in [Tokens -> Document] /\ session'[t] = "gone"
        /\ \A s \in Tokens : s # t => session'[s] = session[s]
    BY <1>0, <2>0, <2>1 DEF Document
  <2>3. Put(r, q) /\ UNCHANGED <<password, reset, unchosen, opened, uses>>
    BY <1>6, <2>0 DEF EvictSession
  <2>4. ResetTokensConsistent'
    BY <1>0, <2>3 DEF ResetTokensConsistent
  <2>5. \A s \in req[r].before : session[s] \in {"stored", "expired"} =>
            s \in req[r].todo \/ s = req[r].keep
    BY <1>0, <1>6 DEF EvictSession, LoginInv, EvictionInv, Kept
  <2>6. \A s \in q.before : session'[s] \in {"stored", "expired"} =>
            s \in q.todo \/ s = q.keep
    BY <1>0, <2>1, <2>2, <2>5
  <2> HIDE DEF q
  <2> QED BY <1>0, <2>1, <2>2, <2>3, <2>4, <2>6, HandlerStep
<1>7. CASE Evicted(r)
  BY <1>0, <1>7, StageStep DEF Evicted, Stages
<1> QED BY <1>1, <1>2, <1>3, <1>4, <1>5, <1>6, <1>7 DEF SetPassword

\* Steps that no handler takes: logging out, expiry, the sweeper, a release,
\* a reset token being mailed.
LEMMA OtherStep ==
    ASSUME LoginInv, UNCHANGED <<req, unchosen, opened, uses>>,
           password' \in Hash, session' \in [Tokens -> Document],
           reset' \in [Resets -> Document],
           \A t \in Tokens : \/ session'[t] = session[t]
                             \/ /\ session[t] \in {"stored", "expired"}
                                /\ session'[t] \in {"expired", "gone"},
           \A k \in Resets : reset[k] = "gone" => reset'[k] = "gone"
    PROVE  LoginInv'
<1>1. TypeOK' /\ ResetTokensConsistent'
  BY DEF LoginInv, TypeOK, ResetTokensConsistent
<1>2. \A r \in Requests : req[r].before \subseteq Tokens
  BY DEF LoginInv, TypeOK, Request
<1>3. EvictionInv'
  BY <1>2 DEF LoginInv, EvictionInv, At, Kept
<1> QED BY <1>1, <1>3 DEF LoginInv

LEMMA NextStep ==
    ASSUME LoginInv, [Next]_vars PROVE LoginInv'
<1>0. /\ password \in Hash /\ session \in [Tokens -> Document]
      /\ reset \in [Resets -> Document]
  BY DEF LoginInv, TypeOK
<1>1. ASSUME NEW r \in Requests, SignIn(r) \/ SetPassword(r) \/ Crash(r)
      PROVE  LoginInv'
  BY <1>0, <1>1, SignInStep, SetPasswordStep, StageStep DEF Crash, Stages
<1>2. ASSUME NEW t \in Tokens, Logout(t) \/ ExpireSession(t) PROVE LoginInv'
  BY <1>0, <1>2, OtherStep DEF Logout, ExpireSession, Kept, Document
<1>3. ASSUME NEW k \in Resets, RequestReset(k) \/ ExpireReset(k) PROVE LoginInv'
  BY <1>0, <1>3, OtherStep DEF RequestReset, ExpireReset, Document
<1>4. CASE Sweep
  <2>1. /\ session' \in [Tokens -> Document] /\ reset' \in [Resets -> Document]
        /\ \A t \in Tokens : \/ session'[t] = session[t]
                             \/ session[t] = "expired" /\ session'[t] = "gone"
        /\ \A k \in Resets : reset[k] = "gone" => reset'[k] = "gone"
    BY <1>0, <1>4 DEF Sweep, Document
  <2> QED BY <1>0, <1>4, <2>1, OtherStep DEF Sweep
<1>5. CASE RaiseParameters
  <2>1. password' \in Hash
    BY <1>0, <1>5 DEF RaiseParameters, Hash
  <2> QED BY <1>0, <1>5, <2>1, OtherStep DEF RaiseParameters
<1>6. CASE UNCHANGED vars
  BY <1>0, <1>6, OtherStep DEF vars
<1> QED BY <1>1, <1>2, <1>3, <1>4, <1>5, <1>6 DEF Next

-----------------------------------------------------------------------------

\* The strengthened invariant, for every interleaving and every crash.
THEOREM LoginInvariant == Spec => []LoginInv
<1>1. Init => LoginInv
  BY IdleRecord
  DEF Init, LoginInv, TypeOK, Hash, Document, ResetTokensConsistent, EvictionInv, At
<1> QED BY <1>1, NextStep, PTL DEF Spec

\* Every document and every handler's record is of its declared type.
THEOREM TypeCorrect == Spec => []TypeOK
  BY LoginInvariant, PTL DEF LoginInv

\* A reset token sets the password at most once.
THEOREM ResetIsSingleUse == Spec => []ResetUsedOnce
<1>1. LoginInv => ResetUsedOnce
  BY DEF LoginInv, TypeOK, ResetTokensConsistent, ResetUsedOnce
<1> QED BY <1>1, LoginInvariant, PTL

\* Every session from before the update is gone when the update is answered.
THEOREM EvictionIsComplete == Spec => []EvictionComplete
<1>1. LoginInv => EvictionComplete
  BY DEF LoginInv, EvictionInv, EvictionComplete
<1> QED BY <1>1, LoginInvariant, PTL

-----------------------------------------------------------------------------
(* While requests come one at a time. *)

\* The monitor calm only watches.
LEMMA CalmRefinesSpec == CalmSpec => Spec
<1>1. CalmInit => Init
  BY DEF CalmInit
<1>2. [CalmNext]_<<vars, calm>> => [Next]_vars
  BY DEF CalmNext
<1> QED BY <1>1, <1>2, PTL DEF CalmSpec, Spec

\* A handler's step keeps the passwords known, if what it holds next and the
\* session it opens come by one.
LEMMA ChosenFollows ==
    ASSUME LoginInv, PasswordsChosen, NEW r \in Requests, NEW q \in Request, Put(r, q),
           q.pc \in {"verifying", "rehashing", "opening"} => q.given \in Passwords,
           q.pc \in {"changing", "updating"} => q.new \in Passwords,
           \A t \in Kept' : opened'[t] \in Passwords \/ (t \in Kept /\ opened'[t] = opened[t])
    PROVE  PasswordsChosen'
<1>1. /\ req' \in [Requests -> Request] /\ req'[r] = q
      /\ \A s \in Requests : s # r => req'[s] = req[s]
  BY DEF LoginInv, TypeOK, Put
<1> QED BY <1>1 DEF PasswordsChosen

LEMMA ChosenStep ==
    ASSUME LoginInv, PasswordsChosen, [Next]_vars PROVE PasswordsChosen'
<1>0. /\ session \in [Tokens -> Document] /\ unchosen \in SUBSET Passwords
      /\ opened \in [Tokens -> Passwords \cup {NoPassword}]
  BY DEF LoginInv, TypeOK
<1>1. ASSUME NEW r \in Requests, SignIn(r) \/ SetPassword(r) \/ Crash(r)
      PROVE  PasswordsChosen'
  <2>0. /\ req[r] \in Request
        /\ req[r].pc \in {"verifying", "rehashing", "opening"} => req[r].given \in Passwords
        /\ req[r].pc \in {"changing", "updating"} => req[r].new \in Passwords
    BY DEF LoginInv, TypeOK, PasswordsChosen
  <2>1. ASSUME UNCHANGED <<session, opened>>, Return(r) PROVE PasswordsChosen'
    BY <2>1, IdleRecord, ChosenFollows DEF Return, Kept
  <2>2. ASSUME NEW q \in Request, Put(r, q), UNCHANGED <<session, opened>>,
               q.pc \in {"verifying", "rehashing", "opening"} => q.given \in Passwords,
               q.pc \in {"changing", "updating"} => q.new \in Passwords
        PROVE  PasswordsChosen'
    BY <2>2, ChosenFollows DEF Kept
  <2>3. ASSUME NEW stage \in Stages, Move(r, stage), UNCHANGED <<session, opened>>,
               stage \in {"verifying", "rehashing", "opening"} => req[r].given \in Passwords,
               stage \in {"changing", "updating"} => req[r].new \in Passwords
        PROVE  PasswordsChosen'
    <3> DEFINE q == [req[r] EXCEPT !.pc = stage]
    <3>1. /\ q \in Request /\ q.pc = stage /\ q.given = req[r].given
          /\ q.new = req[r].new
      BY <2>0 DEF Request
    <3>2. Put(r, q)
      BY <2>3 DEF Move
    <3> HIDE DEF q
    <3> QED BY <2>2, <2>3, <3>1, <3>2
  <2>4. ASSUME NEW p \in Passwords, Signup(r, p) \/ Login(r, p) PROVE PasswordsChosen'
    <3> DEFINE q == [Idle EXCEPT !.pc = "opening", !.given = p]
               v == [Idle EXCEPT !.pc = "verifying", !.given = p]
    <3>1. /\ q \in Request /\ q.pc = "opening" /\ q.given = p
          /\ v \in Request /\ v.pc = "verifying" /\ v.given = p
      BY IdleRecord DEF Request, Stages, Idle
    <3>2. UNCHANGED <<session, opened>> /\ (Put(r, q) \/ Put(r, v))
      BY <2>4 DEF Signup, Login
    <3> HIDE DEF q, v
    <3> QED BY <2>2, <3>1, <3>2
  <2>5. CASE Verify(r)
    BY <2>0, <2>1, <2>3, <2>5 DEF Verify, Stages, At
  <2>6. CASE Rehash(r)
    BY <2>0, <2>3, <2>6 DEF Rehash, Stages, At
  <2>7. ASSUME NEW t \in Tokens, OpenSession(r, t) PROVE PasswordsChosen'
    <3>1. /\ \A s \in Tokens : s # t => session'[s] = session[s] /\ opened'[s] = opened[s]
          /\ opened'[t] \in Passwords
      BY <1>0, <2>0, <2>7 DEF OpenSession, At
    <3>2. Return(r)
      BY <2>7 DEF OpenSession
    <3>3. \A s \in Kept' :
             opened'[s] \in Passwords \/ (s \in Kept /\ opened'[s] = opened[s])
      BY <3>1 DEF Kept
    <3> QED BY <3>2, <3>3, IdleRecord, ChosenFollows DEF Return
  <2>8. ASSUME NEW t \in Tokens, NEW p \in Passwords, NEW new \in Passwords,
               ChangePassword(r, t, p, new)
        PROVE  PasswordsChosen'
    <3> DEFINE q == [Idle EXCEPT !.pc = "changing", !.given = p, !.new = new, !.keep = t]
    <3>1. q \in Request /\ q.pc = "changing" /\ q.new = new
      BY IdleRecord DEF Request, Stages, Idle
    <3>2. UNCHANGED <<session, opened>> /\ Put(r, q)
      BY <2>8 DEF ChangePassword
    <3> HIDE DEF q
    <3> QED BY <2>2, <3>1, <3>2
  <2>9. CASE VerifyCurrent(r)
    BY <2>0, <2>1, <2>3, <2>9 DEF VerifyCurrent, Stages, At
  <2>10. ASSUME NEW k \in Resets, NEW new \in Passwords, ConsumeReset(r, k, new)
         PROVE  PasswordsChosen'
    <3> DEFINE q == [Idle EXCEPT !.pc = "updating", !.new = new]
    <3>1. q \in Request /\ q.pc = "updating" /\ q.new = new
      BY IdleRecord DEF Request, Stages, Idle
    <3>2. UNCHANGED <<session, opened>> /\ (Put(r, q) \/ UNCHANGED req)
      BY <2>10 DEF ConsumeReset
    <3> HIDE DEF q
    <3>3. CASE UNCHANGED req
      BY <3>2, <3>3 DEF PasswordsChosen, Kept
    <3> QED BY <2>2, <3>1, <3>2, <3>3
  <2>11. CASE UpdatePasswordHash(r)
    <3> DEFINE q == [req[r] EXCEPT !.pc = "listing", !.before = Kept]
    <3>1. q \in Request /\ q.pc = "listing"
      BY <2>0 DEF Request, Stages, Kept
    <3>2. /\ UNCHANGED session /\ Put(r, q)
          /\ \A t \in Tokens : opened'[t] = opened[t] \/ opened'[t] \in Passwords
      BY <2>0, <2>11 DEF UpdatePasswordHash, At
    <3> HIDE DEF q
    <3> QED BY <3>1, <3>2, ChosenFollows DEF Kept
  <2>12. CASE ListSessions(r)
    <3> DEFINE q == [req[r] EXCEPT !.pc = "evicting", !.todo = Kept \ {req[r].keep}]
    <3>1. q \in Request /\ q.pc = "evicting"
      BY <2>0 DEF Request, Stages, Kept
    <3>2. UNCHANGED <<session, opened>> /\ Put(r, q)
      BY <2>12 DEF ListSessions
    <3> HIDE DEF q
    <3> QED BY <2>2, <3>1, <3>2
  <2>13. CASE EvictSession(r)
    <3>0. PICK t \in req[r].todo : /\ session' = [session EXCEPT ![t] = "gone"]
                                   /\ Put(r, [req[r] EXCEPT !.todo = @ \ {t}])
      BY <2>13 DEF EvictSession
    <3> DEFINE q == [req[r] EXCEPT !.todo = @ \ {t}]
    <3>1. q \in Request /\ q.pc = "evicting" /\ t \in Tokens
      BY <2>0, <2>13 DEF Request, EvictSession, At
    <3>2. UNCHANGED opened /\ Put(r, q)
      BY <2>13, <3>0 DEF EvictSession
    <3>3. \A s \in Kept' : s \in Kept
      BY <1>0, <3>0, <3>1 DEF Kept
    <3> HIDE DEF q
    <3> QED BY <3>1, <3>2, <3>3, ChosenFollows
  <2>14. CASE Evicted(r) \/ Crash(r)
    BY <2>1, <2>14 DEF Evicted, Crash
  <2> QED
    BY <1>1, <2>4, <2>5, <2>6, <2>7, <2>8, <2>9, <2>10, <2>11, <2>12, <2>13, <2>14
    DEF SignIn, SetPassword
<1>2. ASSUME UNCHANGED <<req, opened>>, \A t \in Kept' : t \in Kept
      PROVE  PasswordsChosen'
  BY <1>2 DEF PasswordsChosen
<1>3. ASSUME NEW t \in Tokens, Logout(t) \/ ExpireSession(t) PROVE PasswordsChosen'
  BY <1>0, <1>2, <1>3 DEF Logout, ExpireSession, Kept
<1>4. CASE Sweep
  BY <1>0, <1>2, <1>4 DEF Sweep, Kept
<1>5. ASSUME UNCHANGED <<session, req, opened>> PROVE PasswordsChosen'
  BY <1>2, <1>5 DEF Kept
<1> QED
  BY <1>1, <1>3, <1>4, <1>5 DEF Next, RequestReset, ExpireReset, RaiseParameters, vars

\* What has to be shown of a step of the one handler in flight.
LEMMA CalmFollows ==
    ASSUME LoginInv, OneAtATime', NEW r \in Requests, NEW q \in Request, Put(r, q),
           \A c \in Requests : c # r => At(c, "idle"),
           q.pc \in {"rehashing", "opening"} => q.given = password'.value,
           \A t \in Tokens : Resolves(t)' =>
              \/ opened'[t] = password'.value
              \/ q.pc = "listing" /\ t # q.keep
              \/ q.pc = "evicting" /\ t \in q.todo
    PROVE  CalmInv'
<1>1. /\ req' \in [Requests -> Request] /\ req'[r] = q
      /\ \A c \in Requests : c # r => req'[c] = req[c]
  BY DEF LoginInv, TypeOK, Put
<1>2. \A c \in Requests :
         req'[c].pc \in {"rehashing", "opening"} => req'[c].given = password'.value
  BY <1>1 DEF At
<1>3. \A t \in Tokens : Resolves(t)' => opened'[t] = password'.value \/ Pending(t)'
  BY <1>1 DEF Pending, At
<1> QED BY <1>2, <1>3 DEF CalmInv

\* The handler is in flight alone before its step, or begins alone.
LEMMA CalmHandle ==
    ASSUME LoginInv, PasswordsChosen, CalmInv, calm, OneAtATime', NEW r \in Requests,
           \A c \in Requests : c # r => At(c, "idle"),
           SignIn(r) \/ SetPassword(r) \/ Crash(r),
           req'[r].pc = "idle" => ~At(r, "listing") /\ req[r].todo = {}
    PROVE  CalmInv'
<1>0. /\ req[r] \in Request /\ password \in Hash /\ session \in [Tokens -> Document]
      /\ opened \in [Tokens -> Passwords \cup {NoPassword}]
      /\ req[r].pc \in {"rehashing", "opening"} => req[r].given = password.value
      /\ \A t \in Tokens : Resolves(t) =>
            \/ opened[t] = password.value
            \/ At(r, "listing") /\ t # req[r].keep
            \/ At(r, "evicting") /\ t \in req[r].todo
  BY DEF LoginInv, TypeOK, CalmInv, Pending, At
<1>1. ASSUME Return(r), UNCHANGED <<password, session, opened>> PROVE CalmInv'
  <2>1. Put(r, Idle) /\ Idle \in Request /\ Idle.pc = "idle" /\ req'[r].pc = "idle"
    BY <1>1, IdleRecord DEF Return, Put, LoginInv, TypeOK
  <2>2. \A t \in Tokens : Resolves(t)' => opened'[t] = password'.value
    BY <1>0, <1>1, <2>1 DEF Resolves
  <2> QED BY <2>1, <2>2, CalmFollows
<1>2. ASSUME NEW stage \in {"rehashing", "opening", "updating"}, Move(r, stage),
             UNCHANGED <<session, opened>>, password'.value = password.value,
             stage # "updating" => req[r].given = password.value,
             ~At(r, "listing") /\ ~At(r, "evicting")
      PROVE  CalmInv'
  <2> DEFINE q == [req[r] EXCEPT !.pc = stage]
  <2>1. q \in Request /\ q.pc = stage /\ q.given = req[r].given
    BY <1>0 DEF Request, Stages
  <2>2. Put(r, q)
    BY <1>2 DEF Move
  <2>3. \A t \in Tokens : Resolves(t)' => opened'[t] = password'.value
    BY <1>0, <1>2 DEF Resolves
  <2> HIDE DEF q
  <2> QED BY <1>2, <2>1, <2>2, <2>3, CalmFollows
<1>3. ASSUME NEW p \in Passwords, Signup(r, p) PROVE CalmInv'
  <2> DEFINE q == [Idle EXCEPT !.pc = "opening", !.given = p]
  <2>1. q \in Request /\ q.pc = "opening" /\ q.given = p
    BY IdleRecord DEF Request, Stages, Idle
  <2>2. /\ Put(r, q) /\ password'.value = p /\ UNCHANGED <<session, opened>>
        /\ password.value = NoPassword /\ At(r, "idle")
    BY <1>3 DEF Signup, Registered
  <2> HIDE DEF q
  <2>3. \A t \in Tokens : ~Resolves(t)
    BY <1>0, <2>2, NullsAreOutside DEF PasswordsChosen, Resolves, Kept, At
  <2> QED BY <2>1, <2>2, <2>3, CalmFollows DEF Resolves
<1>4. ASSUME NEW p \in Passwords, Login(r, p) PROVE CalmInv'
  <2> DEFINE q == [Idle EXCEPT !.pc = "verifying", !.given = p]
  <2>1. q \in Request /\ q.pc = "verifying"
    BY IdleRecord DEF Request, Stages, Idle
  <2>2. Put(r, q) /\ UNCHANGED <<password, session, opened>> /\ At(r, "idle")
    BY <1>4 DEF Login
  <2>3. \A t \in Tokens : Resolves(t)' => opened'[t] = password'.value
    BY <1>0, <2>2 DEF Resolves, At
  <2> HIDE DEF q
  <2> QED BY <2>1, <2>2, <2>3, CalmFollows
<1>5. CASE Verify(r)
  BY <1>1, <1>2, <1>5 DEF Verify, At
<1>6. CASE Rehash(r)
  <2>1. password'.value = password.value
    BY <1>0, <1>6 DEF Rehash, At
  <2> QED BY <1>0, <1>2, <1>6, <2>1 DEF Rehash, At
<1>7. ASSUME NEW t \in Tokens, OpenSession(r, t) PROVE CalmInv'
  <2>1. /\ Put(r, Idle) /\ Idle \in Request /\ Idle.pc = "idle" /\ UNCHANGED password
        /\ opened'[t] = password.value /\ At(r, "opening")
        /\ \A s \in Tokens : s # t => session'[s] = session[s] /\ opened'[s] = opened[s]
    BY <1>0, <1>7, IdleRecord DEF OpenSession, Return, At
  <2>2. \A s \in Tokens : Resolves(s)' => opened'[s] = password'.value
    BY <1>0, <2>1 DEF Resolves, At
  <2> QED BY <2>1, <2>2, CalmFollows
<1>8. ASSUME NEW t \in Tokens, NEW p \in Passwords, NEW new \in Passwords,
             ChangePassword(r, t, p, new)
      PROVE  CalmInv'
  <2> DEFINE q == [Idle EXCEPT !.pc = "changing", !.given = p, !.new = new, !.keep = t]
  <2>1. q \in Request /\ q.pc = "changing"
    BY IdleRecord DEF Request, Stages, Idle
  <2>2. Put(r, q) /\ UNCHANGED <<password, session, opened>> /\ At(r, "idle")
    BY <1>8 DEF ChangePassword
  <2>3. \A s \in Tokens : Resolves(s)' => opened'[s] = password'.value
    BY <1>0, <2>2 DEF Resolves, At
  <2> HIDE DEF q
  <2> QED BY <2>1, <2>2, <2>3, CalmFollows
<1>9. CASE VerifyCurrent(r)
  BY <1>1, <1>2, <1>9 DEF VerifyCurrent, At
<1>10. ASSUME NEW k \in Resets, NEW new \in Passwords, ConsumeReset(r, k, new),
              reset[k] = "stored"
       PROVE  CalmInv'
  <2> DEFINE q == [Idle EXCEPT !.pc = "updating", !.new = new]
  <2>1. q \in Request /\ q.pc = "updating"
    BY IdleRecord DEF Request, Stages, Idle
  <2>2. Put(r, q) /\ UNCHANGED <<password, session, opened>> /\ At(r, "idle")
    BY <1>10 DEF ConsumeReset
  <2>3. \A s \in Tokens : Resolves(s)' => opened'[s] = password'.value
    BY <1>0, <2>2 DEF Resolves, At
  <2> HIDE DEF q
  <2> QED BY <2>1, <2>2, <2>3, CalmFollows
<1>11. CASE UpdatePasswordHash(r)
  <2> DEFINE q == [req[r] EXCEPT !.pc = "listing", !.before = Kept]
  <2>1. q \in Request /\ q.pc = "listing" /\ q.keep = req[r].keep
    BY <1>0 DEF Request, Stages, Kept
  <2>2. /\ Put(r, q) /\ password'.value = req[r].new
        /\ \A t \in Tokens : t = req[r].keep => opened'[t] = req[r].new
    BY <1>11 DEF UpdatePasswordHash
  <2>3. \A t \in Tokens : opened'[t] = password'.value \/ t # q.keep
    BY <2>1, <2>2
  <2> HIDE DEF q
  <2> QED BY <2>1, <2>2, <2>3, CalmFollows
<1>12. CASE ListSessions(r)
  <2> DEFINE q == [req[r] EXCEPT !.pc = "evicting", !.todo = Kept \ {req[r].keep}]
  <2>1. /\ q \in Request /\ q.pc = "evicting" /\ q.todo = Kept \ {req[r].keep}
    BY <1>0 DEF Request, Stages, Kept
  <2>2. /\ Put(r, q) /\ UNCHANGED <<password, session, opened>> /\ At(r, "listing")
    BY <1>12 DEF ListSessions
  <2> HIDE DEF q
  <2>3. \A t \in Tokens : Resolves(t)' => opened'[t] = password'.value \/ t \in q.todo
    BY <1>0, <2>1, <2>2 DEF Resolves, Kept, At
  <2> QED BY <2>1, <2>2, <2>3, CalmFollows
<1>13. CASE EvictSession(r)
  <2>0. PICK t \in req[r].todo : /\ session' = [session EXCEPT ![t] = "gone"]
                                 /\ Put(r, [req[r] EXCEPT !.todo = @ \ {t}])
    BY <1>13 DEF EvictSession
  <2> DEFINE q == [req[r] EXCEPT !.todo = @ \ {t}]
  <2>1. /\ q \in Request /\ q.pc = "evicting" /\ q.todo = req[r].todo \ {t}
        /\ t \in Tokens
    BY <1>0, <1>13 DEF Request, EvictSession, At
  <2>2. /\ Put(r, q) /\ UNCHANGED <<password, opened>> /\ At(r, "evicting")
        /\ session'[t] = "gone"
        /\ \A s \in Tokens : s # t => session'[s] = session[s]
    BY <1>0, <1>13, <2>0, <2>1 DEF EvictSession
  <2> HIDE DEF q
  <2>3. \A s \in Tokens : Resolves(s)' => opened'[s] = password'.value \/ s \in q.todo
    BY <1>0, <2>1, <2>2 DEF Resolves, At
  <2> QED BY <2>1, <2>2, <2>3, CalmFollows
<1>14. CASE Evicted(r) \/ Crash(r)
  <2>1. Return(r) /\ UNCHANGED <<password, session, opened>>
    BY <1>14 DEF Evicted, Crash
  <2> QED BY <1>1, <2>1
<1>15. CASE UNCHANGED <<password, session, req, opened>>
  BY <1>15 DEF CalmInv, Resolves, Pending, OneAtATime, At
<1> QED
  BY <1>3, <1>4, <1>5, <1>6, <1>7, <1>8, <1>9, <1>10, <1>11, <1>12, <1>13, <1>14, <1>15
  DEF SignIn, SetPassword, ConsumeReset

\* Signing out, expiry, the sweeper, a release and a mailed token leave the
\* handlers and the password's value alone, and bring no session back.
LEMMA CalmRest ==
    ASSUME CalmInv, calm, UNCHANGED <<req, opened>>, password'.value = password.value,
           \A t \in Tokens : Resolves(t)' => Resolves(t)
    PROVE  CalmInv'
  BY DEF CalmInv, Pending, OneAtATime, At

LEMMA CalmInvariant == CalmSpec => [](LoginInv /\ CalmInv)
<1> DEFINE Inv == LoginInv /\ PasswordsChosen /\ CalmInv
<1>1. CalmInit => PasswordsChosen /\ CalmInv
  BY IdleRecord
  DEF CalmInit, Init, PasswordsChosen, CalmInv, OneAtATime, Resolves, Kept, At
<1>2. Inv /\ [CalmNext]_<<vars, calm>> => CalmInv'
  <2> SUFFICES ASSUME Inv, [CalmNext]_<<vars, calm>>, calm' PROVE CalmInv'
    BY DEF CalmInv
  <2>1. calm
    BY DEF CalmNext
  <2>2. ASSUME CalmNext, NEW r \in Requests, SignIn(r) \/ SetPassword(r) \/ Crash(r)
        PROVE  CalmInv'
    <3>1. OneAtATime' /\ (req'[r].pc = "idle" => ~At(r, "listing") /\ req[r].todo = {})
      BY <2>2 DEF CalmNext
    <3>2. \A c \in Requests : c # r => req'[c] = req[c]
      BY <2>2
      DEF LoginInv, TypeOK, Put, Move, Return, SignIn, Signup, Login, Verify, Rehash,
          OpenSession, SetPassword, ChangePassword, VerifyCurrent, ConsumeReset,
          UpdatePasswordHash, ListSessions, EvictSession, Evicted, Crash
    <3>3. CASE At(r, "idle")
      <4>1. \/ req'[r].pc # "idle"
            \/ UNCHANGED <<password, session, req, opened>>
        <5>1. \/ \E p \in Passwords : Signup(r, p) \/ Login(r, p)
              \/ \E t \in Tokens, p, new \in Passwords : ChangePassword(r, t, p, new)
              \/ \E k \in Resets, new \in Passwords : ConsumeReset(r, k, new)
          BY <2>2, <3>3
          DEF SignIn, Verify, Rehash, OpenSession, SetPassword, VerifyCurrent,
              UpdatePasswordHash, ListSessions, EvictSession, Evicted, Crash, At
        <5>2. \A p \in Passwords : Signup(r, p) \/ Login(r, p) => req'[r].pc # "idle"
          BY DEF LoginInv, TypeOK, Signup, Login, Put, Idle
        <5>3. \A t \in Tokens, p, new \in Passwords :
                 ChangePassword(r, t, p, new) => req'[r].pc # "idle"
          BY DEF LoginInv, TypeOK, ChangePassword, Put, Idle
        <5>4. \A k \in Resets, new \in Passwords : ConsumeReset(r, k, new) =>
                 req'[r].pc # "idle" \/ UNCHANGED <<password, session, req, opened>>
          <6> SUFFICES ASSUME NEW k \in Resets, NEW new \in Passwords,
                              ConsumeReset(r, k, new)
                       PROVE  \/ req'[r].pc # "idle"
                              \/ UNCHANGED <<password, session, req, opened>>
            OBVIOUS
          <6>1. CASE reset[k] = "stored"
            <7>1. Put(r, [Idle EXCEPT !.pc = "updating", !.new = new])
              BY <6>1 DEF ConsumeReset
            <7> QED BY <7>1 DEF LoginInv, TypeOK, Put, Idle
          <6>2. CASE reset[k] # "stored"
            BY <6>2 DEF ConsumeReset
          <6> QED BY <6>1, <6>2
        <5> QED BY <5>1, <5>2, <5>3, <5>4
      <4>2. CASE UNCHANGED <<password, session, req, opened>>
        BY <2>1, <4>2, CalmRest DEF Resolves
      <4>3. CASE req'[r].pc # "idle"
        <5>1. \A c \in Requests : c # r => At(c, "idle")
          BY <3>1, <3>2, <4>3 DEF OneAtATime, At
        <5> QED BY <2>1, <2>2, <3>1, <5>1, CalmHandle
      <4> QED BY <4>1, <4>2, <4>3
    <3>4. CASE ~At(r, "idle")
      <4>1. \A c \in Requests : c # r => At(c, "idle")
        BY <2>1, <3>4 DEF CalmInv, OneAtATime
      <4> QED BY <2>1, <2>2, <3>1, <4>1, CalmHandle
    <3> QED BY <3>3, <3>4
  <2>3. ASSUME NEW t \in Tokens, Logout(t) \/ ExpireSession(t) PROVE CalmInv'
    BY <2>1, <2>3, CalmRest DEF Logout, ExpireSession, Resolves, LoginInv, TypeOK
  <2>4. ASSUME NEW k \in Resets, RequestReset(k) \/ ExpireReset(k) PROVE CalmInv'
    BY <2>1, <2>4, CalmRest DEF RequestReset, ExpireReset, Resolves
  <2>5. CASE Sweep
    BY <2>1, <2>5, CalmRest DEF Sweep, Resolves, LoginInv, TypeOK
  <2>6. CASE RaiseParameters
    BY <2>1, <2>6, CalmRest DEF RaiseParameters, Resolves, LoginInv, TypeOK, Hash
  <2>7. CASE UNCHANGED <<vars, calm>>
    BY <2>1, <2>7, CalmRest DEF vars, Resolves
  <2> QED BY <2>2, <2>3, <2>4, <2>5, <2>6, <2>7 DEF CalmNext, Next
<1>3. CalmSpec => []LoginInv
  BY CalmRefinesSpec, LoginInvariant, PTL
<1>4. LoginInv /\ PasswordsChosen /\ [CalmNext]_<<vars, calm>> => PasswordsChosen'
  <2>1. [CalmNext]_<<vars, calm>> => [Next]_vars
    BY DEF CalmNext, vars
  <2> QED BY <2>1, ChosenStep
<1> QED BY <1>1, <1>2, <1>3, <1>4, PTL DEF CalmSpec

\* While requests come one at a time and evictions are not cut short, a session
\* that works was opened with the current password or set it.
THEOREM CalmSessionsMatch == CalmSpec => []CalmSessionsMatchPassword
<1>1. CalmInv => CalmSessionsMatchPassword
  BY DEF CalmInv, CalmSessionsMatchPassword, SessionsMatchPassword, Pending, At
<1> QED BY <1>1, CalmInvariant, PTL

\* While requests come one at a time, the upgrade of a hash writes back the
\* very password it verified.
THEOREM CalmRehashIsHarmless == CalmSpec => CalmLoginKeepsPassword
<1>1. LoginInv /\ CalmInv /\ [CalmNext]_<<vars, calm>> =>
         [calm' /\ password'.value # password.value =>
             ~Registered \/ \E r \in Requests : At(r, "updating")]_<<vars, calm>>
  <2> SUFFICES ASSUME LoginInv, CalmInv, CalmNext, calm', Registered,
                      password'.value # password.value
               PROVE  \E r \in Requests : At(r, "updating")
    OBVIOUS
  <2>0. calm
    BY DEF CalmNext
  <2>1. \A r \in Requests : Rehash(r) => password'.value = password.value
    BY <2>0 DEF CalmInv, Rehash, At
  <2>2. RaiseParameters => password'.value = password.value
    BY DEF RaiseParameters, LoginInv, TypeOK, Hash
  <2> QED
    BY <2>1, <2>2
    DEF CalmNext, Next, SignIn, Signup, Login, Verify, OpenSession, SetPassword,
        ChangePassword, VerifyCurrent, ConsumeReset, UpdatePasswordHash, ListSessions,
        EvictSession, Evicted, Crash, Logout, ExpireSession, RequestReset, ExpireReset,
        Sweep
<1> QED BY <1>1, CalmInvariant, PTL DEF CalmSpec, CalmLoginKeepsPassword

=============================================================================
