----------------------------- MODULE ServiceClient -----------------------------
(***************************************************************************)
(* The client through which the agent calls a backend service              *)
(* (day_planner_agent/_service_client.py): one cached identity token for   *)
(* all the concurrent tool calls of a process, refreshed behind a lock     *)
(* that is checked twice, and one retry of a request refused with 401.     *)
(*                                                                         *)
(* A call runs on the event loop without being interrupted until it awaits *)
(* the lock, the mint of a token, or the answer of the service.            *)
(***************************************************************************)
EXTENDS Naturals, Sequences

CONSTANTS
    Calls,              \* the requests that the tools of one process make
    Tokens,             \* identity tokens
    NoToken

ASSUME NoTokenIsNone == NoToken \notin Tokens

VARIABLES
    token,              \* ServiceClient._token: the cached one, or NoToken
    stale,              \* it is older than _TOKEN_TTL_SECONDS
    queue,              \* _token_lock: who holds it and who waits, in order
    call,               \* what each call does
    handled             \* how often the service handled each call's request

clientVars == <<token, stale, queue, call, handled>>

Ended == {"done", "failed"}

\* token: the one the request carries; refused: the one an earlier attempt was
\* refused with.
Call == [pc : {"new", "waiting", "minting", "sent", "handled", "refused"} \cup Ended,
         token : Tokens \cup {NoToken}, refused : Tokens \cup {NoToken}]

Blank(pc) == [pc |-> pc, token |-> NoToken, refused |-> NoToken]

ClientTypeOK ==
    /\ token \in Tokens \cup {NoToken}
    /\ stale \in BOOLEAN
    /\ queue \in Seq(Calls)
    /\ call \in [Calls -> Call]
    /\ handled \in [Calls -> Nat]

ClientInit ==
    /\ token = NoToken /\ stale = FALSE /\ queue = <<>>
    /\ call = [c \in Calls |-> Blank("new")]
    /\ handled = [c \in Calls |-> 0]

(***************************************************************************)
(* The token.                                                              *)
(***************************************************************************)

\* The check that is made before the lock is taken, and again under it.
Usable == token # NoToken /\ ~stale

\* Asking for a token either finds it in the cache, and sends the request with
\* it at once, or goes for the lock.
GetToken(c, request) ==
    IF Usable
    THEN /\ call' = [call EXCEPT ![c] = [request EXCEPT !.pc = "sent", !.token = token]]
         /\ UNCHANGED queue
    ELSE /\ call' = [call EXCEPT ![c] = [request EXCEPT !.pc = "waiting"]]
         /\ queue' = Append(queue, c)

Holds(c) == queue # <<>> /\ Head(queue) = c

\* Faulty: the holder of the lock mints without looking again.
AcquiredWithoutLooking(c) ==
    /\ Holds(c) /\ call[c].pc = "waiting"
    /\ call' = [call EXCEPT ![c].pc = "minting"]
    /\ UNCHANGED <<token, stale, queue, handled>>

\* The lock is c's: a token that was minted meanwhile is taken, or minting begins.
Acquired(c) ==
    /\ Holds(c) /\ call[c].pc = "waiting"
    /\ IF Usable
       THEN /\ call' = [call EXCEPT ![c].pc = "sent", ![c].token = token]
            /\ queue' = Tail(queue)
       ELSE /\ call' = [call EXCEPT ![c].pc = "minting"]
            /\ UNCHANGED queue
    /\ UNCHANGED <<token, stale, handled>>

\* A token is minted anew: it is none that is cached or that a call has seen.
Held == {token} \cup UNION {{call[c].token, call[c].refused} : c \in Calls}

NewToken == CHOOSE t \in Tokens : t \notin Held

Mint(c) ==
    /\ Holds(c) /\ call[c].pc = "minting"
    /\ Tokens \ Held # {}
    /\ token' = NewToken /\ stale' = FALSE
    /\ call' = [call EXCEPT ![c].pc = "sent", ![c].token = NewToken]
    /\ queue' = Tail(queue)
    /\ UNCHANGED handled

\* Faulty: a mint that fails leaves the lock held.
MintFailsLocked(c) ==
    /\ Holds(c) /\ call[c].pc = "minting"
    /\ call' = [call EXCEPT ![c] = Blank("failed")]
    /\ UNCHANGED <<token, stale, queue, handled>>

\* The metadata server is out of reach: the exception leaves the lock.
MintFails(c) ==
    /\ Holds(c) /\ call[c].pc = "minting"
    /\ call' = [call EXCEPT ![c] = Blank("failed")]
    /\ queue' = Tail(queue)
    /\ UNCHANGED <<token, stale, handled>>

TokenAges ==
    /\ Usable
    /\ stale' = TRUE
    /\ UNCHANGED <<token, queue, call, handled>>

(***************************************************************************)
(* The requests.                                                           *)
(***************************************************************************)

Begin(c) ==
    /\ call[c].pc = "new"
    /\ GetToken(c, call[c])
    /\ UNCHANGED <<token, stale, handled>>

\* The service checks the token before any handler runs, and may refuse any:
\* an account was changed, a clock is off.
Handle(c) ==
    /\ call[c].pc = "sent"
    /\ handled' = [handled EXCEPT ![c] = @ + 1]
    /\ call' = [call EXCEPT ![c].pc = "handled"]
    /\ UNCHANGED <<token, stale, queue>>

Refuse(c) ==
    /\ call[c].pc = "sent"
    /\ call' = [call EXCEPT ![c].pc = "refused"]
    /\ UNCHANGED <<token, stale, queue, handled>>

Retried(c) == call[c].refused # NoToken

\* Faulty: the retry asks for a token without dropping the one refused.
RetryWithSame(c) ==
    /\ call[c].pc = "refused" /\ ~Retried(c)
    /\ GetToken(c, [call[c] EXCEPT !.refused = call[c].token])
    /\ UNCHANGED <<token, stale, handled>>

\* A first 401 drops whatever token is cached by now, and the request is made
\* again with another one.
Retry(c) ==
    /\ call[c].pc = "refused" /\ ~Retried(c)
    /\ token' = NoToken
    /\ call' = [call EXCEPT ![c] = [pc |-> "waiting", token |-> NoToken,
                                    refused |-> call[c].token]]
    /\ queue' = Append(queue, c)
    /\ UNCHANGED <<stale, handled>>

\* A second one is an answer like any other: raise_for_status raises.
RefusedAgain(c) ==
    /\ call[c].pc = "refused" /\ Retried(c)
    /\ call' = [call EXCEPT ![c] = Blank("failed")]
    /\ UNCHANGED <<token, stale, queue, handled>>

\* Faulty: a request that was not answered is made again too.
RetryTimedOut(c) ==
    /\ call[c].pc \in {"sent", "handled"} /\ ~Retried(c)
    /\ GetToken(c, [call[c] EXCEPT !.refused = call[c].token])
    /\ UNCHANGED <<token, stale, handled>>

\* No answer within the timeout, or no connection. The service may have handled
\* the request, or handle it after the call has ended.
TimesOut(c) ==
    /\ call[c].pc \in {"sent", "handled"}
    /\ call' = [call EXCEPT ![c] = Blank("failed")]
    /\ \/ UNCHANGED handled
       \/ call[c].pc = "sent" /\ handled' = [handled EXCEPT ![c] = @ + 1]
    /\ UNCHANGED <<token, stale, queue>>

\* A result, or an error status that raise_for_status raises.
Answered(c) ==
    /\ call[c].pc = "handled"
    /\ \E end \in Ended : call' = [call EXCEPT ![c] = Blank(end)]
    /\ UNCHANGED <<token, stale, queue, handled>>

\* What a call that has begun does next.
CallStep(c) ==
    \/ Acquired(c) \/ Mint(c) \/ MintFails(c)
    \/ Handle(c) \/ Refuse(c) \/ Retry(c) \/ RefusedAgain(c)
    \/ TimesOut(c) \/ Answered(c)

ClientNext == TokenAges \/ \E c \in Calls : Begin(c) \/ CallStep(c)

ClientSpec == ClientInit /\ [][ClientNext]_clientVars

\* The event loop runs every task that can go on; minting ends, and a request is
\* answered or times out.
ClientFairness == \A c \in Calls : WF_clientVars(CallStep(c))

(***************************************************************************)
(* Properties.                                                             *)
(***************************************************************************)

\* No request is handled twice, whatever is retried; one that was answered was
\* handled, and one that was refused or still waits for a token was not. Writes
\* are posted through this client without a key that would make them idempotent.
HandledAtMostOnce ==
    \A c \in Calls :
        /\ handled[c] <= 1
        /\ call[c].pc = "done" => handled[c] = 1
        /\ call[c].pc \in {"waiting", "minting", "sent", "refused"} => handled[c] = 0

\* The one retry is never spent on the very token that was refused, although the
\* cache may hold another call's by then (_service_client.get, post).
RetryUsesNewToken ==
    \A c \in Calls :
        call[c].pc = "sent" => call[c].token # call[c].refused

\* A token is minted only when the cached one is missing or old: calls that need
\* one at the same moment mint one between them, and a 401 that drops a token
\* another call has just minted costs one mint and no more.
MintsOnlyWhenNeeded ==
    [][token' # token /\ token' # NoToken => ~Usable]_clientVars

\* Every call that has begun ends, whatever is refused, lost or cannot be minted.
CallsEnd == <>[](\A c \in Calls : call[c].pc \in {"new"} \cup Ended)

=============================================================================
