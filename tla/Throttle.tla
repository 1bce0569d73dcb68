-------------------------------- MODULE Throttle --------------------------------
(***************************************************************************)
(* The throttle of one key: the failed logins of an address                *)
(* (db/repositories/login_throttle.py), or the password resets that are    *)
(* asked for an address or from an IP (password_reset_throttle.py), with   *)
(* the handlers that use it (api/routes/auth.py).  A handler checks the    *)
(* key first and counts later, and any number may be in between: which     *)
(* ones they are does not matter, so that only their number is kept.       *)
(***************************************************************************)
EXTENDS Integers

CONSTANTS
    MaxAttempts,        \* login_max_attempts, password_reset_max_attempts
    MaxInFlight,        \* requests for the key that are handled at once
    MaxLost             \* handlers that stop before they have counted (a bound)

ASSUME ThrottleAssumption ==
    MaxAttempts \in Nat \ {0} /\ MaxInFlight \in Nat \ {0} /\ MaxLost \in Nat

VARIABLES
    kind,               \* what the key throttles
    count,              \* failed_count, attempt_count; 0 without a document
    lock,               \* locked_until: not there, ahead, or past
    open,               \* handlers that found the key unlocked
    wrong,              \* login handlers that have verified a wrong password
    right,              \* login handlers that have verified the right one
    allowed,            \* wrong passwords verified, or mails allowed, since the
                        \* key was last unlocked or cleared
    forgotten,          \* the document was deleted by its TTL since then
    lost                \* handlers that stopped before they had counted

throttleVars == <<kind, count, lock, open, wrong, right, allowed, forgotten, lost>>

ThrottleTypeOK ==
    /\ kind \in {"login", "reset"}
    /\ count \in 0 .. MaxAttempts - 1
    /\ lock \in {"none", "ahead", "past"}
    /\ open \in Nat /\ wrong \in Nat /\ right \in Nat /\ allowed \in Nat
    /\ open + wrong + right <= MaxInFlight
    /\ forgotten \in BOOLEAN
    /\ lost \in 0 .. MaxLost

ThrottleInit ==
    /\ kind \in {"login", "reset"}
    /\ count = 0 /\ lock = "none"
    /\ open = 0 /\ wrong = 0 /\ right = 0
    /\ allowed = 0 /\ forgotten = FALSE /\ lost = 0

\* check. A locked key answers 429, or 202 without a mail.
Check ==
    /\ lock # "ahead"
    /\ open + wrong + right < MaxInFlight
    /\ open' = open + 1
    /\ UNCHANGED <<kind, count, lock, wrong, right, allowed, forgotten, lost>>

\* verify_password, of a wrong one.
VerifyWrong ==
    /\ kind = "login" /\ 0 < open
    /\ open' = open - 1 /\ wrong' = wrong + 1
    /\ allowed' = allowed + 1
    /\ UNCHANGED <<kind, count, lock, right, forgotten, lost>>

VerifyRight ==
    /\ kind = "login" /\ 0 < open
    /\ open' = open - 1 /\ right' = right + 1
    /\ UNCHANGED <<kind, count, lock, wrong, allowed, forgotten, lost>>

\* The transaction, which merges: what it does not write stays, a lock among it.
Bump ==
    IF count + 1 >= MaxAttempts
    THEN count' = 0 /\ lock' = "ahead"
    ELSE count' = count + 1 /\ UNCHANGED lock

\* Faulty: without a transaction, two failures are counted as one.
RecordRacing ==
    /\ 0 < wrong
    /\ \E n \in {1, 2} : n <= wrong /\ wrong' = wrong - n
    /\ Bump
    /\ UNCHANGED <<kind, open, right, allowed, forgotten, lost>>

\* record_failure, after which the handler answers 401.
RecordFailure ==
    /\ 0 < wrong
    /\ wrong' = wrong - 1
    /\ Bump
    /\ UNCHANGED <<kind, open, right, allowed, forgotten, lost>>

\* request_password_reset: record_attempt, and then the mail may be sent.
RecordAttempt ==
    /\ kind = "reset" /\ 0 < open
    /\ open' = open - 1
    /\ allowed' = allowed + 1
    /\ Bump
    /\ UNCHANGED <<kind, wrong, right, forgotten, lost>>

\* clear, after a login: the document is deleted, with a lock that other
\* requests have brought about meanwhile.
Clear ==
    /\ 0 < right
    /\ right' = right - 1
    /\ count' = 0 /\ lock' = "none"
    /\ allowed' = 0 /\ forgotten' = FALSE
    /\ UNCHANGED <<kind, open, wrong, lost>>

\* A handler stops, or Firestore raises. The other key of a reset was locked.
Lose ==
    /\ \/ 0 < open /\ open' = open - 1 /\ UNCHANGED <<wrong, right, lost>>
       \/ 0 < right /\ right' = right - 1 /\ UNCHANGED <<open, wrong, lost>>
       \/ /\ 0 < wrong /\ lost < MaxLost
          /\ wrong' = wrong - 1 /\ lost' = lost + 1
          /\ UNCHANGED <<open, right>>
    /\ UNCHANGED <<kind, count, lock, allowed, forgotten>>

LockPasses ==
    /\ lock = "ahead"
    /\ lock' = "past"
    /\ allowed' = 0 /\ forgotten' = FALSE
    /\ UNCHANGED <<kind, count, open, wrong, right, lost>>

\* The TTL policy is on locked_until: once it is past, the document goes at some
\* time, together with what it has counted since.
Forget ==
    /\ lock = "past"
    /\ lock' = "none" /\ count' = 0
    /\ forgotten' = TRUE
    /\ UNCHANGED <<kind, open, wrong, right, allowed, lost>>

ThrottleNext ==
    \/ Check \/ VerifyWrong \/ VerifyRight \/ RecordFailure \/ RecordAttempt
    \/ Clear \/ Lose \/ LockPasses \/ Forget

ThrottleSpec == ThrottleInit /\ [][ThrottleNext]_throttleVars

(***************************************************************************)
(* Properties.                                                             *)
(***************************************************************************)

\* Whatever requests race, the wrong passwords that are tried on an address, or
\* the mails that it is sent, before its key is locked exceed the maximum by no
\* more than the other requests in flight, those that were never counted, and
\* once what was counted before the TTL took the document of an earlier lock.
AttemptsBounded ==
    allowed <= MaxAttempts + MaxInFlight - 1 + lost
                 + (IF forgotten THEN MaxAttempts - 1 ELSE 0)

=============================================================================
