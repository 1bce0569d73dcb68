------------------------------- MODULE Login -------------------------------
(***************************************************************************)
(* One e-mail address: its password, its login sessions and its password   *)
(* reset tokens, as signup, login, logout, change_password and the two     *)
(* password-reset endpoints leave them.  Handlers interleave at every      *)
(* await.  Throttling only turns requests away, so a request that is       *)
(* turned away is one that is not made.                                    *)
(***************************************************************************)
EXTENDS Naturals, FiniteSets

CONSTANTS
    Requests,       \* handlers that may be in flight
    Passwords,      \* passwords the user may choose, each once (bounds a run)
    Tokens,         \* session tokens that may be drawn (bounds a run)
    Resets,         \* reset tokens that may be drawn (bounds a run)
    CanCrash,       \* may a handler stop between two awaits?
    NoPassword, NoToken

ASSUME NullsAreOutside == NoPassword \notin Passwords /\ NoToken \notin Tokens
ASSUME CanCrashIsBoolean == CanCrash \in BOOLEAN

VARIABLES
    password,   \* users/{user}.password_hash: the password, and whether the
                \* hash has parameters that were raised since
    session,    \* sessions/{hash}
    reset,      \* password_resets/{hash}
    req,        \* what each handler holds, and where it stands
    unchosen,   \* passwords not chosen yet
    opened,     \* for each session, the password it was opened with
    uses        \* how many password updates each reset token has led to

vars == <<password, session, reset, req, unchosen, opened, uses>>

Hash == [value : Passwords \cup {NoPassword}, outdated : BOOLEAN]

Document == {"unmade", "stored", "expired", "gone"}

Stages == {"idle", "verifying", "rehashing", "opening",
           "changing", "updating", "listing", "evicting"}

Request == [pc : Stages, given : Passwords \cup {NoPassword},
            new : Passwords \cup {NoPassword},
            keep : Tokens \cup {NoToken},       \* except_token
            todo : SUBSET Tokens,               \* sessions the query returned
            before : SUBSET Tokens]             \* those stored at the update

Idle == [pc |-> "idle", given |-> NoPassword, new |-> NoPassword,
         keep |-> NoToken, todo |-> {}, before |-> {}]

Registered == password.value # NoPassword

\* An expired document is still there until the TTL sweeper takes it.
Kept == {t \in Tokens : session[t] \in {"stored", "expired"}}

\* SessionRepository.resolve
Resolves(t) == session[t] = "stored"

At(r, stage) == req[r].pc = stage

Put(r, q) == req' = [req EXCEPT ![r] = q]

Move(r, stage) == Put(r, [req[r] EXCEPT !.pc = stage])

Return(r) == Put(r, Idle)

-----------------------------------------------------------------------------
(* Signing up and logging in. *)

\* The address is claimed in one transaction; a second signup gets a 409.
Signup(r, p) ==
    /\ At(r, "idle")
    /\ p \in unchosen
    /\ ~Registered
    /\ password' = [value |-> p, outdated |-> FALSE]
    /\ unchosen' = unchosen \ {p}
    /\ Put(r, [Idle EXCEPT !.pc = "opening", !.given = p])
    /\ UNCHANGED <<session, reset, opened, uses>>

\* Any password that was ever chosen may be typed in.
Login(r, p) ==
    /\ At(r, "idle")
    /\ p \notin unchosen
    /\ Put(r, [Idle EXCEPT !.pc = "verifying", !.given = p])
    /\ UNCHANGED <<password, session, reset, unchosen, opened, uses>>

\* The user document is read and the password verified against it.
Verify(r) ==
    /\ At(r, "verifying")
    /\ IF password.value # req[r].given THEN Return(r)                 \* 401
       ELSE Move(r, IF password.outdated THEN "rehashing" ELSE "opening")
    /\ UNCHANGED <<password, session, reset, unchosen, opened, uses>>

\* Faulty: the hash of an empty password is written.
RehashNothing(r) ==
    /\ At(r, "rehashing")
    /\ password' = [value |-> req[r].new, outdated |-> FALSE]
    /\ Move(r, "opening")
    /\ UNCHANGED <<session, reset, unchosen, opened, uses>>

\* The hash of the password typed in is written, whatever is stored by now.
Rehash(r) ==
    /\ At(r, "rehashing")
    /\ password' = [value |-> req[r].given, outdated |-> FALSE]
    /\ Move(r, "opening")
    /\ UNCHANGED <<session, reset, unchosen, opened, uses>>

OpenSession(r, t) ==
    /\ At(r, "opening")
    /\ session[t] = "unmade"
    /\ session' = [session EXCEPT ![t] = "stored"]
    /\ opened' = [opened EXCEPT ![t] = req[r].given]
    /\ Return(r)
    /\ UNCHANGED <<password, reset, unchosen, uses>>

Logout(t) ==
    /\ t \in Kept
    /\ session' = [session EXCEPT ![t] = "gone"]
    /\ UNCHANGED <<password, reset, req, unchosen, opened, uses>>

-----------------------------------------------------------------------------
(* Setting a new password. *)

\* POST /me/password: the session is resolved first.
ChangePassword(r, t, p, new) ==
    /\ At(r, "idle")
    /\ Resolves(t)
    /\ p \notin unchosen /\ new \in unchosen
    /\ unchosen' = unchosen \ {new}
    /\ Put(r, [Idle EXCEPT !.pc = "changing", !.given = p, !.new = new, !.keep = t])
    /\ UNCHANGED <<password, session, reset, opened, uses>>

VerifyCurrent(r) ==
    /\ At(r, "changing")
    /\ IF password.value = req[r].given THEN Move(r, "updating") ELSE Return(r)
    /\ UNCHANGED <<password, session, reset, unchosen, opened, uses>>

\* POST /auth/password-reset/request, for a registered address.
RequestReset(k) ==
    /\ Registered
    /\ reset[k] = "unmade"
    /\ reset' = [reset EXCEPT ![k] = "stored"]
    /\ UNCHANGED <<password, session, req, unchosen, opened, uses>>

\* Faulty: the token is looked at and stays.
PeekReset(r, k, new) ==
    /\ At(r, "idle")
    /\ new \in unchosen
    /\ reset[k] = "stored"
    /\ unchosen' = unchosen \ {new}
    /\ uses' = [uses EXCEPT ![k] = @ + 1]
    /\ Put(r, [Idle EXCEPT !.pc = "updating", !.new = new])
    /\ UNCHANGED <<password, session, reset, opened>>

\* POST /auth/password-reset/confirm: the token is read and deleted in one
\* transaction, and an expired one is refused afterwards.
ConsumeReset(r, k, new) ==
    /\ At(r, "idle")
    /\ new \in unchosen
    /\ reset[k] \in {"stored", "expired"}
    /\ reset' = [reset EXCEPT ![k] = "gone"]
    /\ IF reset[k] = "stored"
         THEN /\ unchosen' = unchosen \ {new}
              /\ uses' = [uses EXCEPT ![k] = @ + 1]
              /\ Put(r, [Idle EXCEPT !.pc = "updating", !.new = new])
         ELSE UNCHANGED <<unchosen, uses, req>>                        \* 400
    /\ UNCHANGED <<password, session, opened>>

\* Faulty: nothing is evicted.
UpdateOnly(r) ==
    /\ At(r, "updating")
    /\ password' = [value |-> req[r].new, outdated |-> FALSE]
    /\ opened' = [t \in Tokens |-> IF t = req[r].keep THEN req[r].new ELSE opened[t]]
    /\ Return(r)
    /\ UNCHANGED <<session, reset, unchosen, uses>>

\* Both go on to store the new hash, and to evict the user's sessions.
UpdatePasswordHash(r) ==
    /\ At(r, "updating")
    /\ password' = [value |-> req[r].new, outdated |-> FALSE]
    /\ Put(r, [req[r] EXCEPT !.pc = "listing", !.before = Kept])
    /\ opened' = [t \in Tokens |-> IF t = req[r].keep THEN req[r].new ELSE opened[t]]
    /\ UNCHANGED <<session, reset, unchosen, uses>>

\* delete_all_for_user: one query, then one delete after another.
ListSessions(r) ==
    /\ At(r, "listing")
    /\ Put(r, [req[r] EXCEPT !.pc = "evicting", !.todo = Kept \ {req[r].keep}])
    /\ UNCHANGED <<password, session, reset, unchosen, opened, uses>>

\* Faulty: one session is deleted and the loop is left.
EvictFirst(r) ==
    /\ At(r, "evicting")
    /\ \E t \in req[r].todo :
          /\ session' = [session EXCEPT ![t] = "gone"]
          /\ Put(r, [req[r] EXCEPT !.todo = {}])
    /\ UNCHANGED <<password, reset, unchosen, opened, uses>>

EvictSession(r) ==
    /\ At(r, "evicting")
    /\ \E t \in req[r].todo :
          /\ session' = [session EXCEPT ![t] = "gone"]
          /\ Put(r, [req[r] EXCEPT !.todo = @ \ {t}])
    /\ UNCHANGED <<password, reset, unchosen, opened, uses>>

Evicted(r) ==
    /\ At(r, "evicting")
    /\ req[r].todo = {}
    /\ Return(r)                                                       \* 204
    /\ UNCHANGED <<password, session, reset, unchosen, opened, uses>>

-----------------------------------------------------------------------------
(* The environment. *)

ExpireSession(t) ==
    /\ session[t] = "stored"
    /\ session' = [session EXCEPT ![t] = "expired"]
    /\ UNCHANGED <<password, reset, req, unchosen, opened, uses>>

ExpireReset(k) ==
    /\ reset[k] = "stored"
    /\ reset' = [reset EXCEPT ![k] = "expired"]
    /\ UNCHANGED <<password, session, req, unchosen, opened, uses>>

\* The TTL sweeper, hours later.
Sweep ==
    /\ \/ \E t \in Tokens : /\ session[t] = "expired"
                            /\ session' = [session EXCEPT ![t] = "gone"]
                            /\ UNCHANGED reset
       \/ \E k \in Resets : /\ reset[k] = "expired"
                            /\ reset' = [reset EXCEPT ![k] = "gone"]
                            /\ UNCHANGED session
    /\ UNCHANGED <<password, req, unchosen, opened, uses>>

\* A release raises the hash parameters.
RaiseParameters ==
    /\ Registered /\ ~password.outdated
    /\ password' = [password EXCEPT !.outdated = TRUE]
    /\ UNCHANGED <<session, reset, req, unchosen, opened, uses>>

Crash(r) ==
    /\ CanCrash
    /\ ~At(r, "idle")
    /\ Return(r)
    /\ UNCHANGED <<password, session, reset, unchosen, opened, uses>>

-----------------------------------------------------------------------------

Init ==
    /\ password = [value |-> NoPassword, outdated |-> FALSE]
    /\ session = [t \in Tokens |-> "unmade"]
    /\ reset = [k \in Resets |-> "unmade"]
    /\ req = [r \in Requests |-> Idle]
    /\ unchosen = Passwords
    /\ opened = [t \in Tokens |-> NoPassword]
    /\ uses = [k \in Resets |-> 0]

SignIn(r) ==
    \/ \E p \in Passwords : Signup(r, p) \/ Login(r, p)
    \/ Verify(r)
    \/ Rehash(r)
    \/ \E t \in Tokens : OpenSession(r, t)

SetPassword(r) ==
    \/ \E t \in Tokens, p, new \in Passwords : ChangePassword(r, t, p, new)
    \/ VerifyCurrent(r)
    \/ \E k \in Resets, new \in Passwords : ConsumeReset(r, k, new)
    \/ UpdatePasswordHash(r)
    \/ ListSessions(r)
    \/ EvictSession(r)
    \/ Evicted(r)

Next ==
    \/ \E r \in Requests : SignIn(r) \/ SetPassword(r) \/ Crash(r)
    \/ \E t \in Tokens : Logout(t) \/ ExpireSession(t)
    \/ \E k \in Resets : RequestReset(k) \/ ExpireReset(k)
    \/ Sweep
    \/ RaiseParameters

Spec == Init /\ [][Next]_vars

-----------------------------------------------------------------------------

TypeOK ==
    /\ password \in Hash
    /\ session \in [Tokens -> Document]
    /\ reset \in [Resets -> Document]
    /\ req \in [Requests -> Request]
    /\ unchosen \in SUBSET Passwords
    /\ opened \in [Tokens -> Passwords \cup {NoPassword}]
    /\ uses \in [Resets -> Nat]

\* A reset token sets the password at most once, however often the link is
\* posted and wherever a handler stops.
ResetUsedOnce == \A k \in Resets : uses[k] <= 1

\* By the time a change or a reset of the password is answered, every session
\* that was stored when the new password was is gone, but for the caller's own,
\* whoever signs in or out meanwhile.
EvictionComplete ==
    \A r \in Requests : At(r, "evicting") /\ req[r].todo = {} =>
        req[r].before \cap Kept \subseteq {req[r].keep}

\* Between requests every session that still works was opened with the current
\* password, or is the one from which that password was set.
SessionsMatchPassword ==
    (\A r \in Requests : At(r, "idle")) =>
        \A t \in Tokens : Resolves(t) => opened[t] = password.value

\* Only a signup, a change or a reset gives the account another password:
\* logging in never does.
LoginKeepsPassword ==
    [][password'.value # password.value =>
          ~Registered \/ \E r \in Requests : At(r, "updating")]_vars

-----------------------------------------------------------------------------
(* Strengthenings that make the properties inductive. *)

\* A token that has set a password is gone.
ResetTokensConsistent ==
    \A k \in Resets : uses[k] # 0 => uses[k] = 1 /\ reset[k] = "gone"

\* A session stored before an update was made before it, and while the
\* update's handler evicts, it is on the list, is the caller's or is gone.
EvictionInv ==
    \A r \in Requests :
        /\ \A t \in req[r].before : session[t] # "unmade"
        /\ At(r, "evicting") =>
              req[r].before \cap Kept \subseteq req[r].todo \cup {req[r].keep}

\* What is verified, opened with or set is a password somebody chose.
PasswordsChosen ==
    /\ \A t \in Kept : opened[t] \in Passwords
    /\ \A r \in Requests :
          /\ req[r].pc \in {"verifying", "rehashing", "opening"} =>
                req[r].given \in Passwords
          /\ req[r].pc \in {"changing", "updating"} => req[r].new \in Passwords

LoginInv == TypeOK /\ ResetTokensConsistent /\ EvictionInv

=============================================================================
