------------------------------ MODULE AgentProofs ------------------------------
(***************************************************************************)
(* Theorems about ServiceClient, MemoryWrites and Preload, for any number  *)
(* of calls and tokens, statements and attempts, and turns of a session.   *)
(***************************************************************************)
EXTENDS ServiceClient, MemoryWrites, Preload, TLAPS

-----------------------------------------------------------------------------
(* The service client. *)

\* What a call has had of the service, at each stage.
HandledInv ==
    \A c \in Calls :
        /\ handled[c] \in {0, 1}
        /\ call[c].pc \notin {"handled", "done", "failed"} => handled[c] = 0
        /\ call[c].pc \in {"handled", "done"} => handled[c] = 1

\* No cached token is one that a call was refused with, and no request carries
\* one that it was refused with.
TokenInv ==
    \A c \in Calls :
        /\ call[c].pc \in {"sent", "refused"} =>
               call[c].token \in Tokens /\ call[c].token # call[c].refused
        /\ call[c].refused # NoToken => token # call[c].refused

\* A call that mints holds the lock, and there is no token that it could use.
LockInv == \A c \in Calls : call[c].pc = "minting" => Holds(c) /\ ~Usable

ClientInv == ClientTypeOK /\ HandledInv /\ TokenInv /\ LockInv

LEMMA BlankIsCall == \A end \in {"new", "failed", "done"} : Blank(end) \in Call
  BY DEF Blank, Call, Ended

\* A call that is not at the head of the queue is not brought there by another
\* that joins it, and the one that is there stays.
LEMMA QueueGrows ==
    ASSUME queue \in Seq(Calls), NEW c \in Calls, queue' = Append(queue, c)
    PROVE  /\ queue' \in Seq(Calls)
           /\ \A d \in Calls : Holds(d) => Holds(d)'
  BY DEF Holds

LEMMA QueueMoves ==
    ASSUME queue \in Seq(Calls), NEW c \in Calls, Holds(c), queue' = Tail(queue)
    PROVE  queue' \in Seq(Calls)
  BY DEF Holds

\* A call leaves the others as they are.
LEMMA CallMoves ==
    ASSUME ClientTypeOK, NEW c \in Calls, NEW q \in Call,
           call' = [call EXCEPT ![c] = q]
    PROVE  /\ call' \in [Calls -> Call]
           /\ call'[c] = q
           /\ \A d \in Calls \ {c} : call'[d] = call[d]
  BY DEF ClientTypeOK

LEMMA NewTokenIsNew ==
    ASSUME Tokens \ Held # {}
    PROVE  /\ NewToken \in Tokens
           /\ \A c \in Calls : NewToken # call[c].refused
<1>1. \E t \in Tokens : t \notin Held
  OBVIOUS
<1>2. NewToken \in Tokens /\ NewToken \notin Held
  BY <1>1 DEF NewToken
<1>3. \A c \in Calls : call[c].refused \in Held
  BY DEF Held
<1> QED BY <1>2, <1>3

\* Asking for a token: sent with the cached one, or behind the others.
LEMMA GetTokenKeeps ==
    ASSUME ClientInv, NEW c \in Calls, call[c].pc = "new",
           GetToken(c, call[c]), UNCHANGED <<token, stale, handled>>
    PROVE  ClientInv'
<1> DEFINE sent == [call[c] EXCEPT !.pc = "sent", !.token = token]
           waiting == [call[c] EXCEPT !.pc = "waiting"]
<1>1. ClientTypeOK /\ call[c] \in Call
  BY DEF ClientInv, ClientTypeOK
<1>2. CASE Usable
  <2>1. call' = [call EXCEPT ![c] = sent] /\ queue' = queue
    BY <1>2 DEF GetToken
  <2>2. /\ sent \in Call /\ sent.pc = "sent" /\ sent.token = token
        /\ sent.refused = call[c].refused /\ token \in Tokens
    BY <1>1, <1>2 DEF Call, Usable, ClientTypeOK
  <2> HIDE DEF sent
  <2>3. /\ call' \in [Calls -> Call] /\ call'[c] = sent
        /\ \A d \in Calls \ {c} : call'[d] = call[d]
    BY <1>1, <2>1, <2>2, CallMoves
  <2>4. ClientTypeOK'
    BY <1>1, <2>1, <2>3 DEF ClientTypeOK
  <2>5. HandledInv'
    BY <2>2, <2>3 DEF ClientInv, HandledInv
  <2>6. TokenInv'
    BY <2>2, <2>3, NoTokenIsNone DEF ClientInv, TokenInv
  <2>7. LockInv'
    BY <2>1, <2>2, <2>3 DEF ClientInv, LockInv, Holds, Usable
  <2> QED BY <2>4, <2>5, <2>6, <2>7 DEF ClientInv
<1>3. CASE ~Usable
  <2>1. call' = [call EXCEPT ![c] = waiting] /\ queue' = Append(queue, c)
    BY <1>3 DEF GetToken
  <2>2. /\ waiting \in Call /\ waiting.pc = "waiting"
        /\ waiting.refused = call[c].refused
    BY <1>1 DEF Call
  <2> HIDE DEF waiting
  <2>3. /\ call' \in [Calls -> Call] /\ call'[c] = waiting
        /\ \A d \in Calls \ {c} : call'[d] = call[d]
    BY <1>1, <2>1, <2>2, CallMoves
  <2>4. queue' \in Seq(Calls) /\ \A d \in Calls : Holds(d) => Holds(d)'
    BY <1>1, <2>1, QueueGrows DEF ClientTypeOK
  <2>5. ClientTypeOK'
    BY <1>1, <2>3, <2>4 DEF ClientTypeOK
  <2>6. HandledInv'
    BY <2>2, <2>3 DEF ClientInv, HandledInv
  <2>7. TokenInv'
    BY <2>2, <2>3 DEF ClientInv, TokenInv
  <2>8. LockInv'
    BY <2>2, <2>3, <2>4 DEF ClientInv, LockInv, Usable
  <2> QED BY <2>5, <2>6, <2>7, <2>8 DEF ClientInv
<1> QED BY <1>2, <1>3

LEMMA ClientStep ==
    ASSUME ClientInv, NEW c \in Calls, CallStep(c)
    PROVE  ClientInv'
<1>1. ClientTypeOK /\ call[c] \in Call /\ queue \in Seq(Calls)
  BY DEF ClientInv, ClientTypeOK
<1>2. CASE Acquired(c) /\ Usable
  <2> DEFINE q == [call[c] EXCEPT !.pc = "sent", !.token = token]
  <2>1. call' = [call EXCEPT ![c] = q] /\ Holds(c) /\ queue' = Tail(queue)
        /\ UNCHANGED <<token, stale, handled>> /\ call[c].pc = "waiting"
    BY <1>2 DEF Acquired
  <2>2. /\ q \in Call /\ q.pc = "sent" /\ q.token = token
        /\ q.refused = call[c].refused /\ token \in Tokens
    BY <1>1, <1>2 DEF Call, Usable, ClientTypeOK
  <2> HIDE DEF q
  <2>3. /\ call' \in [Calls -> Call] /\ call'[c] = q
        /\ \A d \in Calls \ {c} : call'[d] = call[d]
    BY <1>1, <2>1, <2>2, CallMoves
  <2>4. ClientTypeOK'
    BY <1>1, <2>1, <2>3, QueueMoves DEF ClientTypeOK
  <2>5. HandledInv'
    BY <2>1, <2>2, <2>3 DEF ClientInv, HandledInv
  <2>6. TokenInv'
    BY <2>1, <2>2, <2>3, NoTokenIsNone DEF ClientInv, TokenInv
  <2>7. \A d \in Calls : call[d].pc # "minting"
    BY <1>2 DEF ClientInv, LockInv
  <2>8. LockInv'
    BY <2>2, <2>3, <2>7 DEF LockInv
  <2> QED BY <2>4, <2>5, <2>6, <2>8 DEF ClientInv
<1>3. CASE Acquired(c) /\ ~Usable
  <2> DEFINE q == [call[c] EXCEPT !.pc = "minting"]
  <2>1. call' = [call EXCEPT ![c] = q] /\ Holds(c) /\ call[c].pc = "waiting"
        /\ UNCHANGED <<token, stale, queue, handled>>
    BY <1>3 DEF Acquired
  <2>2. q \in Call /\ q.pc = "minting" /\ q.refused = call[c].refused
    BY <1>1 DEF Call
  <2> HIDE DEF q
  <2>3. /\ call' \in [Calls -> Call] /\ call'[c] = q
        /\ \A d \in Calls \ {c} : call'[d] = call[d]
    BY <1>1, <2>1, <2>2, CallMoves
  <2>4. ClientTypeOK'
    BY <1>1, <2>1, <2>3 DEF ClientTypeOK
  <2>5. HandledInv'
    BY <2>1, <2>2, <2>3 DEF ClientInv, HandledInv
  <2>6. TokenInv'
    BY <2>1, <2>2, <2>3 DEF ClientInv, TokenInv
  <2>7. LockInv'
    BY <1>3, <2>1, <2>2, <2>3 DEF ClientInv, LockInv, Holds, Usable
  <2> QED BY <2>4, <2>5, <2>6, <2>7 DEF ClientInv
<1>4. CASE Mint(c)
  <2> DEFINE q == [call[c] EXCEPT !.pc = "sent", !.token = NewToken]
  <2>0. /\ NewToken \in Tokens
        /\ \A d \in Calls : NewToken # call[d].refused
    BY <1>4, NewTokenIsNew DEF Mint
  <2>1. call' = [call EXCEPT ![c] = q] /\ Holds(c) /\ call[c].pc = "minting"
        /\ queue' = Tail(queue) /\ token' = NewToken /\ stale' = FALSE /\ handled' = handled
    BY <1>4 DEF Mint
  <2>2. /\ q \in Call /\ q.pc = "sent" /\ q.token = NewToken
        /\ q.refused = call[c].refused
    BY <1>1, <2>0 DEF Call
  <2> HIDE DEF q
  <2>3. /\ call' \in [Calls -> Call] /\ call'[c] = q
        /\ \A d \in Calls \ {c} : call'[d] = call[d]
    BY <1>1, <2>1, <2>2, CallMoves
  <2>4. ClientTypeOK'
    BY <1>1, <2>0, <2>1, <2>3, QueueMoves DEF ClientTypeOK
  <2>5. HandledInv'
    BY <2>1, <2>2, <2>3 DEF ClientInv, HandledInv
  <2>6. TokenInv'
    BY <2>0, <2>1, <2>2, <2>3 DEF ClientInv, TokenInv
  <2>7. \A d \in Calls \ {c} : call[d].pc # "minting"
    BY <2>1 DEF ClientInv, LockInv, Holds
  <2>8. LockInv'
    BY <2>2, <2>3, <2>7 DEF LockInv
  <2> QED BY <2>4, <2>5, <2>6, <2>8 DEF ClientInv
<1>5. CASE MintFails(c)
  <2>1. call' = [call EXCEPT ![c] = Blank("failed")] /\ Holds(c)
        /\ call[c].pc = "minting" /\ queue' = Tail(queue)
        /\ UNCHANGED <<token, stale, handled>>
    BY <1>5 DEF MintFails
  <2>2. /\ Blank("failed") \in Call /\ Blank("failed").pc = "failed"
        /\ Blank("failed").refused = NoToken
    BY BlankIsCall DEF Blank
  <2>3. /\ call' \in [Calls -> Call] /\ call'[c] = Blank("failed")
        /\ \A d \in Calls \ {c} : call'[d] = call[d]
    BY <1>1, <2>1, <2>2, CallMoves
  <2>4. ClientTypeOK'
    BY <1>1, <2>1, <2>3, QueueMoves DEF ClientTypeOK
  <2>5. HandledInv'
    BY <2>1, <2>2, <2>3 DEF ClientInv, HandledInv
  <2>6. TokenInv'
    BY <2>1, <2>2, <2>3 DEF ClientInv, TokenInv
  <2>7. \A d \in Calls \ {c} : call[d].pc # "minting"
    BY <2>1 DEF ClientInv, LockInv, Holds
  <2>8. LockInv'
    BY <2>2, <2>3, <2>7 DEF LockInv
  <2> QED BY <2>4, <2>5, <2>6, <2>8 DEF ClientInv
<1>6. CASE Handle(c) \/ Refuse(c)
  <2> PICK pc \in {"handled", "refused"} :
        /\ call' = [call EXCEPT ![c] = [call[c] EXCEPT !.pc = pc]]
        /\ handled' = IF pc = "handled" THEN [handled EXCEPT ![c] = handled[c] + 1]
                                        ELSE handled
    BY <1>6 DEF Handle, Refuse
  <2> DEFINE q == [call[c] EXCEPT !.pc = pc]
  <2>1. call' = [call EXCEPT ![c] = q] /\ call[c].pc = "sent"
        /\ UNCHANGED <<token, stale, queue>>
    BY <1>6 DEF Handle, Refuse
  <2>2. /\ q \in Call /\ q.pc = pc /\ q.token = call[c].token
        /\ q.refused = call[c].refused
    BY <1>1 DEF Call
  <2> HIDE DEF q
  <2>3. /\ call' \in [Calls -> Call] /\ call'[c] = q
        /\ \A d \in Calls \ {c} : call'[d] = call[d]
    BY <1>1, <2>1, <2>2, CallMoves
  <2>4. /\ handled' \in [Calls -> Nat]
        /\ handled'[c] = IF pc = "handled" THEN 1 ELSE 0
        /\ \A d \in Calls \ {c} : handled'[d] = handled[d]
    <3>1. handled \in [Calls -> Nat] /\ handled[c] = 0
      BY <2>1 DEF ClientInv, ClientTypeOK, HandledInv
    <3>2. CASE pc = "handled"
      BY <3>1, <3>2
    <3>3. CASE pc # "handled"
      BY <3>1, <3>3
    <3> QED BY <3>2, <3>3
  <2>5. ClientTypeOK'
    BY <1>1, <2>1, <2>3, <2>4 DEF ClientTypeOK
  <2>6. HandledInv'
    BY <2>2, <2>3, <2>4 DEF ClientInv, HandledInv
  <2>7. TokenInv'
    BY <2>1, <2>2, <2>3 DEF ClientInv, TokenInv
  <2>8. LockInv'
    BY <2>1, <2>2, <2>3 DEF ClientInv, LockInv, Holds, Usable
  <2> QED BY <2>5, <2>6, <2>7, <2>8 DEF ClientInv
<1>7. CASE Retry(c)
  <2> DEFINE q == [pc |-> "waiting", token |-> NoToken, refused |-> call[c].token]
  <2>1. call' = [call EXCEPT ![c] = q] /\ call[c].pc = "refused"
        /\ token' = NoToken /\ queue' = Append(queue, c) /\ UNCHANGED <<stale, handled>>
    BY <1>7 DEF Retry
  <2>2. q \in Call /\ q.pc = "waiting" /\ q.refused = call[c].token
    BY <1>1 DEF Call
  <2> HIDE DEF q
  <2>3. /\ call' \in [Calls -> Call] /\ call'[c] = q
        /\ \A d \in Calls \ {c} : call'[d] = call[d]
    BY <1>1, <2>1, <2>2, CallMoves
  <2>4. queue' \in Seq(Calls) /\ \A d \in Calls : Holds(d) => Holds(d)'
    BY <1>1, <2>1, QueueGrows
  <2>5. ClientTypeOK'
    BY <1>1, <2>1, <2>3, <2>4 DEF ClientTypeOK
  <2>6. HandledInv'
    BY <2>1, <2>2, <2>3 DEF ClientInv, HandledInv
  <2>7. TokenInv'
    BY <2>1, <2>2, <2>3, NoTokenIsNone DEF ClientInv, TokenInv
  <2>8. LockInv'
    BY <2>1, <2>2, <2>3, <2>4 DEF ClientInv, LockInv, Usable
  <2> QED BY <2>5, <2>6, <2>7, <2>8 DEF ClientInv
<1>8. CASE RefusedAgain(c) \/ TimesOut(c) \/ Answered(c)
  <2> PICK end \in Ended : call' = [call EXCEPT ![c] = Blank(end)]
                           /\ (end = "done" => Answered(c))
    BY <1>8 DEF RefusedAgain, TimesOut, Answered, Ended
  <2>1. /\ UNCHANGED <<token, stale, queue>>
        /\ call[c].pc \in {"sent", "handled", "refused"}
        /\ end = "done" => call[c].pc = "handled"
    BY <1>8 DEF RefusedAgain, TimesOut, Answered
  <2>2. /\ Blank(end) \in Call /\ Blank(end).pc = end /\ end \in {"done", "failed"}
        /\ Blank(end).refused = NoToken
    BY BlankIsCall DEF Blank, Ended
  <2>3. /\ call' \in [Calls -> Call] /\ call'[c] = Blank(end)
        /\ \A d \in Calls \ {c} : call'[d] = call[d]
    BY <1>1, <2>2, CallMoves
  <2>4. /\ handled' \in [Calls -> Nat]
        /\ handled'[c] \in {0, 1}
        /\ end = "done" => handled'[c] = 1
        /\ \A d \in Calls \ {c} : handled'[d] = handled[d]
    <3>1. handled \in [Calls -> Nat] /\ handled[c] \in {0, 1}
          /\ (call[c].pc = "sent" => handled[c] = 0)
          /\ (call[c].pc = "handled" => handled[c] = 1)
      BY DEF ClientInv, ClientTypeOK, HandledInv
    <3>2. CASE handled' = handled
      BY <2>1, <3>1, <3>2
    <3>3. CASE handled' # handled
      <4>1. TimesOut(c) /\ ~Answered(c)
        BY <1>8, <3>3 DEF RefusedAgain, TimesOut, Answered
      <4>2. call[c].pc = "sent" /\ handled' = [handled EXCEPT ![c] = handled[c] + 1]
        BY <3>3, <4>1 DEF TimesOut
      <4> QED BY <3>1, <4>1, <4>2
    <3> QED BY <3>2, <3>3
  <2>5. ClientTypeOK'
    BY <1>1, <2>1, <2>3, <2>4 DEF ClientTypeOK
  <2>6. HandledInv'
    BY <2>2, <2>3, <2>4 DEF ClientInv, HandledInv
  <2>7. TokenInv'
    BY <2>1, <2>2, <2>3 DEF ClientInv, TokenInv
  <2>8. LockInv'
    BY <2>1, <2>2, <2>3 DEF ClientInv, LockInv, Holds, Usable
  <2> QED BY <2>5, <2>6, <2>7, <2>8 DEF ClientInv
<1> QED BY <1>2, <1>3, <1>4, <1>5, <1>6, <1>7, <1>8 DEF CallStep, Acquired

\* The client's invariant holds at every step of any number of calls.
THEOREM ClientInvariant == ClientSpec => []ClientInv
<1>1. ClientInit => ClientInv
  <2> SUFFICES ASSUME ClientInit PROVE ClientInv
    OBVIOUS
  <2>1. Blank("new") \in Call /\ Blank("new").pc = "new" /\ Blank("new").refused = NoToken
    BY BlankIsCall DEF Blank
  <2>2. \A c \in Calls : call[c] = Blank("new") /\ handled[c] = 0
    BY DEF ClientInit
  <2>3. ClientTypeOK
    <3>1. call \in [Calls -> Call]
      BY <2>1 DEF ClientInit
    <3>2. handled \in [Calls -> Nat]
      BY DEF ClientInit
    <3>3. queue = <<>> /\ stale = FALSE /\ token = NoToken
      BY DEF ClientInit
    <3>4. queue \in Seq(Calls)
      BY <3>3
    <3> QED BY <3>1, <3>2, <3>3, <3>4 DEF ClientTypeOK
  <2>4. HandledInv /\ TokenInv /\ LockInv
    BY <2>1, <2>2 DEF HandledInv, TokenInv, LockInv
  <2> QED BY <2>3, <2>4 DEF ClientInv
<1>2. ClientInv /\ [ClientNext]_clientVars => ClientInv'
  <2> SUFFICES ASSUME ClientInv, [ClientNext]_clientVars PROVE ClientInv'
    OBVIOUS
  <2>1. CASE UNCHANGED clientVars
    BY <2>1 DEF clientVars, ClientInv, ClientTypeOK, HandledInv, TokenInv, LockInv, Holds, Usable
  <2>2. CASE TokenAges
    BY <2>2 DEF TokenAges, ClientInv, ClientTypeOK, HandledInv, TokenInv, LockInv, Holds, Usable
  <2>3. ASSUME NEW c \in Calls, Begin(c) PROVE ClientInv'
    BY <2>3, GetTokenKeeps DEF Begin
  <2>4. ASSUME NEW c \in Calls, CallStep(c) PROVE ClientInv'
    BY <2>4, ClientStep
  <2> QED BY <2>1, <2>2, <2>3, <2>4 DEF ClientNext
<1> QED BY <1>1, <1>2, PTL DEF ClientSpec

\* Whatever is refused, lost or retried, the service handles no request twice
\* (ServiceClient.get, post).
THEOREM HandledOnceSafe == ClientSpec => []HandledAtMostOnce
<1>1. ClientInv => HandledAtMostOnce
  <2> SUFFICES ASSUME ClientInv, NEW c \in Calls
               PROVE  /\ handled[c] <= 1
                      /\ call[c].pc = "done" => handled[c] = 1
                      /\ call[c].pc \in {"waiting", "minting", "sent", "refused"}
                             => handled[c] = 0
    BY DEF HandledAtMostOnce
  <2>1. /\ handled[c] = 0 \/ handled[c] = 1
        /\ call[c].pc \notin {"handled", "done", "failed"} => handled[c] = 0
        /\ call[c].pc \in {"handled", "done"} => handled[c] = 1
    BY DEF ClientInv, HandledInv
  <2>2. handled[c] <= 1
    BY <2>1
  <2> QED BY <2>1, <2>2
<1> QED BY <1>1, ClientInvariant, PTL

\* No retry carries the token that was refused (ServiceClient._invalidate).
THEOREM RetrySafe == ClientSpec => []RetryUsesNewToken
<1>1. ClientInv => RetryUsesNewToken
  BY DEF ClientInv, TokenInv, RetryUsesNewToken
<1> QED BY <1>1, ClientInvariant, PTL

\* The second look under the lock is enough: no token is minted while there is
\* one that can be used (ServiceClient._get_id_token).
THEOREM MintSafe == ClientSpec => MintsOnlyWhenNeeded
<1>1. ClientInv /\ [ClientNext]_clientVars
      => [token' # token /\ token' # NoToken => ~Usable]_clientVars
  <2> SUFFICES ASSUME ClientInv, ClientNext, token' # token, token' # NoToken
               PROVE  ~Usable
    OBVIOUS
  <2>1. PICK c \in Calls : Begin(c) \/ CallStep(c)
    BY DEF ClientNext, TokenAges
  <2>2. Mint(c)
    BY <2>1 DEF Begin, CallStep, Acquired, MintFails, Handle, Refuse, Retry, RefusedAgain,
                TimesOut, Answered
  <2> QED BY <2>2 DEF Mint, ClientInv, LockInv
<1> QED BY <1>1, ClientInvariant, PTL DEF ClientSpec, MintsOnlyWhenNeeded

-----------------------------------------------------------------------------
(* Writes into long-term memory. *)

\* What is known of a task at each stage: one that was answered has landed, one
\* that was never said has not and runs nowhere, and a write that was settled stays so.
StageInv ==
    \A w \in Writes :
        /\ task[w].pc \in {"answered", "saved"} => w \in landed
        /\ task[w].pc \in {"unsaid", "declined"} => w \notin landed /\ adrift[w] = 0
        /\ task[w].pc = "pausing" => task[w].tries < MaxAttempts
        /\ task[w].pc = "lost" => task[w].tries = MaxAttempts
        /\ \A v \in settled[w] : Settled(v)

MemoryInv == MemoryTypeOK /\ StageInv /\ SettledOrder

\* One task changes.
LEMMA TaskMoves ==
    ASSUME MemoryTypeOK, NEW w \in Writes, NEW q \in Task,
           task' = [task EXCEPT ![w] = q]
    PROVE  /\ task' \in [Writes -> Task]
           /\ task'[w] = q
           /\ \A v \in Writes \ {w} : task'[v] = task[v]
  BY DEF MemoryTypeOK

LEMMA TaskIsTask ==
    ASSUME MemoryTypeOK, NEW w \in Writes, NEW pc,
           pc \in {"unsaid", "declined"} \cup Pending \cup Over \cup Cut
    PROVE  /\ [task[w] EXCEPT !.pc = pc] \in Task
           /\ [task[w] EXCEPT !.pc = pc].pc = pc
           /\ [task[w] EXCEPT !.pc = pc].tries = task[w].tries
           /\ task[w].tries \in 0 .. MaxAttempts
  BY DEF MemoryTypeOK, Task

\* A step of one task that is not settled, and does not land now.
LEMMA TaskKeeps ==
    ASSUME MemoryInv, NEW w \in Writes, NEW q \in Task, NEW n \in Nat,
           task' = [task EXCEPT ![w] = q], adrift' = [adrift EXCEPT ![w] = n],
           ~Settled(w),
           q.pc \in {"answered", "saved"} => w \in landed,
           q.pc \in {"unsaid", "declined"} => w \notin landed /\ n = 0,
           q.pc = "pausing" => q.tries < MaxAttempts,
           q.pc = "lost" => q.tries = MaxAttempts,
           UNCHANGED <<settled, landed, latest>>
    PROVE  MemoryInv'
<1>1. /\ task' \in [Writes -> Task] /\ task'[w] = q
      /\ \A v \in Writes \ {w} : task'[v] = task[v]
  BY TaskMoves DEF MemoryInv
<1>2. /\ adrift' \in [Writes -> Nat] /\ adrift'[w] = n
      /\ \A v \in Writes \ {w} : adrift'[v] = adrift[v]
  BY DEF MemoryInv, MemoryTypeOK
<1>3. MemoryTypeOK'
  BY <1>1, <1>2 DEF MemoryInv, MemoryTypeOK
<1>4. \A x \in Writes : \A v \in settled[x] : v \in Writes /\ v # w /\ Settled(v)
  BY DEF MemoryInv, StageInv, MemoryTypeOK
<1>5. \A x \in Writes : \A v \in settled[x] : Settled(v)'
  BY <1>1, <1>2, <1>4 DEF Settled
<1>6. StageInv'
  BY <1>1, <1>2, <1>5 DEF MemoryInv, StageInv
<1>7. SettledOrder'
  BY DEF MemoryInv, SettledOrder
<1> QED BY <1>3, <1>6, <1>7 DEF MemoryInv

LEMMA WriteScheduled ==
    ASSUME MemoryInv, NEW w \in Writes, Decline(w) \/ ScheduleWrite(w)
    PROVE  MemoryInv'
<1>1. /\ MemoryTypeOK /\ task[w].pc = "unsaid" /\ w \notin landed
      /\ adrift[w] = 0 /\ adrift' = adrift /\ ~Settled(w)
  BY DEF MemoryInv, StageInv, Decline, ScheduleWrite, Settled, Over, Cut
<1>2. adrift' = [adrift EXCEPT ![w] = 0]
  BY <1>1 DEF MemoryTypeOK
<1>3. CASE Decline(w)
  <2> DEFINE q == [task[w] EXCEPT !.pc = "declined"]
  <2>1. q \in Task /\ q.pc = "declined"
    BY <1>1, TaskIsTask
  <2>2. task' = [task EXCEPT ![w] = q] /\ UNCHANGED <<settled, landed, latest>>
    BY <1>3 DEF Decline
  <2>3. 0 \in Nat /\ w \notin landed /\ ~Settled(w)
    BY <1>1
  <2> HIDE DEF q
  <2> QED BY <1>2, <2>1, <2>2, <2>3, TaskKeeps
<1>4. CASE ScheduleWrite(w)
  <2> DEFINE q == [pc |-> "attempting", tries |-> 1]
             quiet == {v \in Writes : Settled(v)}
  <2>1. q \in Task /\ q.pc = "attempting"
    BY MaxAttemptsAssumption DEF Task, Pending
  <2>2. task' = [task EXCEPT ![w] = q] /\ settled' = [settled EXCEPT ![w] = quiet]
        /\ UNCHANGED <<landed, latest>>
    BY <1>4 DEF ScheduleWrite
  <2>3. quiet \subseteq Writes /\ \A v \in quiet : Settled(v)
    OBVIOUS
  <2> HIDE DEF q, quiet
  <2>4. /\ task' \in [Writes -> Task] /\ task'[w] = q
        /\ \A v \in Writes \ {w} : task'[v] = task[v]
    BY <1>1, <2>1, <2>2, TaskMoves
  <2>5. /\ settled' \in [Writes -> SUBSET Writes] /\ settled'[w] = quiet
        /\ \A v \in Writes \ {w} : settled'[v] = settled[v]
    BY <1>1, <2>2, <2>3 DEF MemoryTypeOK
  <2>6. MemoryTypeOK'
    BY <1>1, <2>2, <2>4, <2>5 DEF MemoryTypeOK
  <2>7. \A x \in Writes : \A v \in settled'[x] : v \in Writes /\ v # w /\ Settled(v)
    BY <1>1, <2>3, <2>5 DEF MemoryInv, StageInv, MemoryTypeOK
  <2>8. \A x \in Writes : \A v \in settled'[x] : Settled(v)'
    BY <1>1, <2>4, <2>7 DEF Settled
  <2>9. StageInv'
    BY <1>1, <2>1, <2>2, <2>4, <2>8 DEF MemoryInv, StageInv
  <2>10. SettledOrder'
    BY <1>1, <2>2, <2>5 DEF MemoryInv, SettledOrder, MemoryTypeOK
  <2> QED BY <2>6, <2>9, <2>10 DEF MemoryInv
<1> QED BY <1>3, <1>4

\* What lands now was not settled for any statement, so that the order stands.
LEMMA LandingKeepsOrder ==
    ASSUME MemoryInv, NEW w \in Writes, ~Settled(w),
           landed' = landed \cup {w}, latest' = w, settled' = settled
    PROVE  SettledOrder'
<1>1. \A x \in Writes : \A v \in settled[x] : v # w
  BY DEF MemoryInv, StageInv
<1>2. landed' \subseteq Writes
  BY DEF MemoryInv, MemoryTypeOK
<1> QED BY <1>1, <1>2 DEF SettledOrder

\* An attempt that is waited for lands.
LEMMA WriteLands ==
    ASSUME MemoryInv, NEW w \in Writes, Lands(w)
    PROVE  MemoryInv'
<1> DEFINE q == [task[w] EXCEPT !.pc = "answered"]
<1>1. /\ MemoryTypeOK /\ task[w].pc = "attempting"
      /\ landed' = landed \cup {w} /\ latest' = w /\ UNCHANGED <<adrift, settled>>
      /\ task' = [task EXCEPT ![w] = q]
  BY DEF MemoryInv, Lands
<1>2. q \in Task /\ q.pc = "answered"
  BY <1>1, TaskIsTask DEF Pending
<1> HIDE DEF q
<1>3. /\ task' \in [Writes -> Task] /\ task'[w] = q
      /\ \A v \in Writes \ {w} : task'[v] = task[v]
  BY <1>1, <1>2, TaskMoves
<1>4. MemoryTypeOK'
  BY <1>1, <1>3 DEF MemoryTypeOK
<1>5. ~Settled(w)
  BY <1>1 DEF Settled, Over, Cut
<1>6. \A x \in Writes : \A v \in settled[x] : v \in Writes /\ v # w /\ Settled(v)
  BY <1>1, <1>5 DEF MemoryInv, StageInv, MemoryTypeOK
<1>7. StageInv'
  <2>1. \A x \in Writes : \A v \in settled'[x] : Settled(v)'
    BY <1>1, <1>3, <1>6 DEF Settled
  <2> QED BY <1>1, <1>2, <1>3, <2>1 DEF MemoryInv, StageInv
<1>8. SettledOrder'
  BY <1>1, <1>5, LandingKeepsOrder
<1> QED BY <1>4, <1>7, <1>8 DEF MemoryInv

\* An attempt that nobody waits for lands, or ends without.
LEMMA UnheardKeeps ==
    ASSUME MemoryInv, NEW w \in Writes, EndsUnheard(w)
    PROVE  MemoryInv'
<1>1. /\ MemoryTypeOK /\ adrift[w] \in Nat /\ adrift[w] > 0
      /\ adrift' = [adrift EXCEPT ![w] = adrift[w] - 1]
      /\ UNCHANGED <<task, settled>>
      /\ \/ landed' = landed \cup {w} /\ latest' = w
         \/ UNCHANGED <<landed, latest>>
  BY DEF MemoryInv, MemoryTypeOK, EndsUnheard
<1>2. /\ adrift' \in [Writes -> Nat]
      /\ \A v \in Writes \ {w} : adrift'[v] = adrift[v]
  BY <1>1 DEF MemoryTypeOK
<1>3. ~Settled(w) /\ task[w].pc \notin {"unsaid", "declined"}
  BY <1>1 DEF Settled, MemoryInv, StageInv
<1>4. MemoryTypeOK'
  BY <1>1, <1>2 DEF MemoryTypeOK
<1>5. \A x \in Writes : \A v \in settled[x] : v \in Writes /\ v # w /\ Settled(v)
  BY <1>1, <1>3 DEF MemoryInv, StageInv, MemoryTypeOK
<1>6. \A x \in Writes : \A v \in settled'[x] : Settled(v)'
  BY <1>1, <1>2, <1>5 DEF Settled
<1>7. /\ \A x \in landed : x \in landed'
      /\ \A x \in Writes \ {w} : x \in landed' => x \in landed
  BY <1>1
<1>8. StageInv'
  <2> SUFFICES ASSUME NEW x \in Writes
               PROVE  /\ task[x].pc \in {"answered", "saved"} => x \in landed'
                      /\ task[x].pc \in {"unsaid", "declined"} => x \notin landed' /\ adrift'[x] = 0
                      /\ task[x].pc = "pausing" => task[x].tries < MaxAttempts
                      /\ task[x].pc = "lost" => task[x].tries = MaxAttempts
    BY <1>1, <1>6 DEF StageInv
  <2> QED BY <1>2, <1>3, <1>7 DEF MemoryInv, StageInv
<1>9. SettledOrder'
  <2>1. CASE landed' = landed \cup {w} /\ latest' = w
    BY <1>1, <1>3, <2>1, LandingKeepsOrder
  <2>2. CASE UNCHANGED <<landed, latest>>
    BY <1>1, <2>2 DEF MemoryInv, SettledOrder
  <2> QED BY <1>1, <2>1, <2>2
<1> QED BY <1>4, <1>8, <1>9 DEF MemoryInv

LEMMA TaskStepKeeps ==
    ASSUME MemoryInv, NEW w \in Writes, Saved(w) \/ AttemptFails(w) \/ Resume(w)
    PROVE  MemoryInv'
<1>1. /\ MemoryTypeOK /\ task[w].tries \in 0 .. MaxAttempts /\ MaxAttempts \in Nat
      /\ adrift[w] \in Nat /\ adrift = [adrift EXCEPT ![w] = adrift[w]]
  BY MaxAttemptsAssumption DEF MemoryInv, MemoryTypeOK, Task
<1>2. task[w].pc \in {"attempting", "answered", "pausing"} /\ ~Settled(w)
  BY DEF Saved, AttemptFails, Resume, Settled, Over, Cut
<1>3. CASE Saved(w)
  <2> DEFINE q == [task[w] EXCEPT !.pc = "saved"]
  <2>1. q \in Task /\ q.pc = "saved"
    BY <1>1, TaskIsTask DEF Over
  <2>2. task' = [task EXCEPT ![w] = q] /\ UNCHANGED <<adrift, settled, landed, latest>>
        /\ w \in landed
    BY <1>3 DEF Saved, MemoryInv, StageInv
  <2> HIDE DEF q
  <2> QED BY <1>1, <1>2, <2>1, <2>2, TaskKeeps
<1>4. CASE AttemptFails(w)
  <2> DEFINE pc == IF task[w].tries < MaxAttempts THEN "pausing" ELSE "lost"
             q == [task[w] EXCEPT !.pc = pc]
  <2>1. task' = [task EXCEPT ![w] = q] /\ UNCHANGED <<settled, landed, latest>>
    BY <1>4 DEF AttemptFails
  <2>2. PICK n \in Nat : adrift' = [adrift EXCEPT ![w] = n]
    <3>1. PICK running \in {0, 1} : adrift' = [adrift EXCEPT ![w] = adrift[w] + running]
      BY <1>4 DEF AttemptFails
    <3>2. adrift[w] + running \in Nat
      BY <1>1
    <3> QED BY <3>1, <3>2
  <2>3. /\ pc \in {"pausing", "lost"}
        /\ pc = "pausing" => task[w].tries < MaxAttempts
        /\ pc = "lost" => task[w].tries = MaxAttempts
    BY <1>1
  <2> HIDE DEF pc
  <2>4. q \in Task /\ q.pc = pc /\ q.tries = task[w].tries
    BY <1>1, <2>3, TaskIsTask DEF Pending, Over
  <2> HIDE DEF q
  <2> QED BY <1>2, <2>1, <2>2, <2>3, <2>4, TaskKeeps
<1>5. CASE Resume(w)
  <2> DEFINE q == [pc |-> "attempting", tries |-> task[w].tries + 1]
  <2>1. task' = [task EXCEPT ![w] = q] /\ UNCHANGED <<adrift, settled, landed, latest>>
        /\ task[w].tries < MaxAttempts
    BY <1>5 DEF Resume, MemoryInv, StageInv
  <2>2. q \in Task /\ q.pc = "attempting"
    BY <1>1, <2>1 DEF Task, Pending
  <2> HIDE DEF q
  <2> QED BY <1>1, <1>2, <2>1, <2>2, TaskKeeps
<1> QED BY <1>3, <1>4, <1>5

\* The end of the process cuts off what is pending, and nothing else.
LEMMA StopKeeps ==
    ASSUME MemoryInv, Stop
    PROVE  MemoryInv'
<1>1. /\ MemoryTypeOK /\ UNCHANGED <<settled, landed, latest>>
      /\ task' = [w \in Writes |->
                    IF task[w].pc \in Pending THEN [task[w] EXCEPT !.pc = "cut"] ELSE task[w]]
  BY DEF Stop, MemoryInv
<1>2. PICK running \in SUBSET {w \in Writes : task[w].pc = "attempting"} :
        adrift' = [w \in Writes |-> IF w \in running THEN adrift[w] + 1 ELSE adrift[w]]
  BY DEF Stop
<1>3. ASSUME NEW w \in Writes
      PROVE  /\ task'[w] \in Task /\ task'[w].tries = task[w].tries
             /\ task'[w].pc = "cut" \/ task'[w].pc = task[w].pc
             /\ task[w].pc \notin Pending => task'[w] = task[w]
  <2>1. [task[w] EXCEPT !.pc = "cut"] \in Task /\ [task[w] EXCEPT !.pc = "cut"].pc = "cut"
        /\ [task[w] EXCEPT !.pc = "cut"].tries = task[w].tries
    BY <1>1, TaskIsTask DEF Cut
  <2> QED BY <1>1, <2>1 DEF MemoryTypeOK
<1>4. ASSUME NEW w \in Writes
      PROVE  adrift'[w] \in Nat /\ (task[w].pc \notin Pending => adrift'[w] = adrift[w])
  BY <1>1, <1>2 DEF MemoryTypeOK, Pending
<1>5. MemoryTypeOK'
  <2>1. DOMAIN task' = Writes /\ task' = [w \in Writes |-> task'[w]]
    BY <1>1
  <2>2. adrift' = [w \in Writes |-> adrift'[w]]
    BY <1>2
  <2> QED BY <1>1, <1>3, <1>4, <2>1, <2>2 DEF MemoryTypeOK
<1>6. \A x \in Writes : \A v \in settled[x] : v \in Writes /\ Settled(v) /\ task[v].pc \notin Pending
  BY <1>1 DEF MemoryInv, StageInv, MemoryTypeOK, Settled, Over, Cut, Pending
<1>7. \A x \in Writes : \A v \in settled[x] : Settled(v)'
  BY <1>3, <1>4, <1>6 DEF Settled
<1>8. StageInv'
  <2> SUFFICES ASSUME NEW x \in Writes
               PROVE  /\ task'[x].pc \in {"answered", "saved"} => x \in landed
                      /\ task'[x].pc \in {"unsaid", "declined"} => x \notin landed /\ adrift'[x] = 0
                      /\ task'[x].pc = "pausing" => task'[x].tries < MaxAttempts
                      /\ task'[x].pc = "lost" => task'[x].tries = MaxAttempts
    BY <1>1, <1>7 DEF StageInv
  <2>1. task'[x].pc \in {"unsaid", "declined"} => task[x].pc \notin Pending
    BY <1>3 DEF Pending
  <2> QED BY <1>3, <1>4, <2>1 DEF MemoryInv, StageInv
<1>9. SettledOrder'
  BY <1>1 DEF MemoryInv, SettledOrder
<1> QED BY <1>5, <1>8, <1>9 DEF MemoryInv

\* The invariant of the background writes, for any number of them and any number
\* of attempts.
THEOREM MemoryInvariant == MemorySpec => []MemoryInv
<1>1. MemoryInit => MemoryInv
  <2> SUFFICES ASSUME MemoryInit PROVE MemoryInv
    OBVIOUS
  <2>1. \A w \in Writes : task[w].pc = "unsaid" /\ adrift[w] = 0 /\ settled[w] = {}
    BY DEF MemoryInit
  <2>2. MemoryTypeOK
    BY MaxAttemptsAssumption DEF MemoryInit, MemoryTypeOK, Task
  <2> QED BY <2>1, <2>2 DEF MemoryInit, MemoryInv, StageInv, SettledOrder
<1>2. MemoryInv /\ [MemoryNext]_memoryVars => MemoryInv'
  <2> SUFFICES ASSUME MemoryInv, [MemoryNext]_memoryVars PROVE MemoryInv'
    OBVIOUS
  <2>1. CASE UNCHANGED memoryVars
    BY <2>1 DEF memoryVars, MemoryInv, MemoryTypeOK, StageInv, SettledOrder, Settled
  <2>2. CASE Stop
    BY <2>2, StopKeeps
  <2>3. ASSUME NEW w \in Writes, UpdateProfile(w) \/ SaveMemory(w) PROVE MemoryInv'
    BY <2>3, WriteScheduled DEF UpdateProfile, SaveMemory
  <2>4. ASSUME NEW w \in Writes, TaskStep(w) PROVE MemoryInv'
    BY <2>4, WriteLands, UnheardKeeps, TaskStepKeeps DEF TaskStep
  <2> QED BY <2>1, <2>2, <2>3, <2>4 DEF MemoryNext
<1> QED BY <1>1, <1>2, PTL DEF MemorySpec

\* No write is lost but by the failure of every attempt or the end of the process
\* (_write_with_retry).
THEOREM LossIsLogged == MemorySpec => []NothingLostSilently
<1>1. MemoryInv => NothingLostSilently
  BY DEF MemoryInv, MemoryTypeOK, Task, StageInv, NothingLostSilently, Pending, Over, Cut
<1> QED BY <1>1, MemoryInvariant, PTL

\* A correction that was made after a write had ended, with none of its attempts
\* left running, is never overwritten by it
\* (_schedule_background_write).
THEOREM OrderSafe == MemorySpec => []SettledOrder
  BY MemoryInvariant, PTL DEF MemoryInv

-----------------------------------------------------------------------------
(* The preloaded state of a session. *)

FactsOf(k) == IF k = "profile" THEN {"profile"} ELSE {"zones", "sleep"}

\* What counts as loaded is shown, or was found not to be there.
Honest(s) ==
    \A k \in Topics :
        s.preloaded[k] => k \in foundNone \/ \E f \in FactsOf(k) : s.shown[f]

\* At each stage the topics before it were fetched, or fetching them has failed.
Tried(s, k) == s.preloaded[k] \/ s.failed[k]

HonestInv ==
    /\ Honest(state)
    /\ \A t \in Turns :
        /\ Honest(turn[t].state)
        /\ turn[t].pc \in {"zones", "sleep", "saving", "model"} => Tried(turn[t].state, "profile")
        /\ turn[t].pc \in {"saving", "model"} => Tried(turn[t].state, "zones")
        /\ turn[t].pc = "sleep" => ~turn[t].state.preloaded["zones"]

\* No topic is both loaded and failed, and preload_ok says so.
Sound(s) ==
    /\ \A k \in Topics : ~(s.failed[k] /\ s.preloaded[k])
    /\ s.ok <=> (\A k \in Topics : ~s.failed[k])

\* Before it is saved, a turn's copy differs from the state in what the turn wrote.
Copies(s, own, wrote) ==
    /\ \A k \in Topics : s.preloaded[k] => own.preloaded[k]
    /\ \A k \in Topics \ wrote : own.preloaded[k] = s.preloaded[k] /\ own.failed[k] = s.failed[k]

CalmInv ==
    calm =>
        /\ Sound(state)
        /\ \A t, u \in Turns : t = u \/ turn[t].pc = "idle" \/ turn[u].pc = "idle"
        /\ \A t \in Turns : turn[t].pc \in {"profile", "zones", "sleep", "saving"} =>
               Sound(turn[t].state) /\ Copies(state, turn[t].state, turn[t].wrote)

PreloadInv == PreloadTypeOK /\ HonestInv /\ CalmInv

LEMMA NothingIsState ==
    /\ Nothing \in SessionState /\ Idle \in Turn /\ Idle.pc = "idle"
    /\ Honest(Nothing) /\ Honest(Idle.state) /\ Sound(Nothing)
  BY DEF Nothing, SessionState, Idle, Turn, Honest, Sound

\* What a failed fetch leaves of a state.
LEMMA FailedState ==
    ASSUME NEW s \in SessionState, NEW k \in Topics
    PROVE  LET new == Failed(s, k)
           IN  /\ new \in SessionState
               /\ new.preloaded = s.preloaded
               /\ new.failed = [s.failed EXCEPT ![k] = TRUE]
               /\ new.shown = s.shown
               /\ new.ok <=> (\A j \in Topics : ~new.failed[j])
  BY DEF Failed, WithOk, SessionState

LEMMA MergedState ==
    ASSUME NEW s \in SessionState, NEW own \in SessionState, NEW wrote \in SUBSET Topics
    PROVE  LET new == Merged(s, own, wrote)
           IN  /\ new \in SessionState
               /\ \A k \in Topics : new.preloaded[k] = (s.preloaded[k] \/ own.preloaded[k])
               /\ \A k \in Topics : new.failed[k] =
                      IF k \in wrote THEN own.failed[k] ELSE s.failed[k]
               /\ \A f \in Facts : new.shown[f] = (s.shown[f] \/ own.shown[f])
               /\ new.ok = IF wrote = {} THEN s.ok ELSE own.ok
  BY DEF Merged, SessionState

\* One turn changes.
LEMMA TurnMoves ==
    ASSUME PreloadTypeOK, NEW t \in Turns, NEW q \in Turn,
           turn' = [turn EXCEPT ![t] = q]
    PROVE  /\ turn' \in [Turns -> Turn]
           /\ turn'[t] = q
           /\ \A u \in Turns \ {t} : turn'[u] = turn[u]
  BY DEF PreloadTypeOK

\* What a turn may be at without having a copy of the state to look after.
LEMMA TurnMovesOn ==
    ASSUME PreloadInv, NEW t \in Turns, NEW q \in Turn,
           turn' = [turn EXCEPT ![t] = q], UNCHANGED <<state, foundNone, calm>>,
           Honest(q.state),
           q.pc \in {"zones", "sleep", "saving", "model"} => Tried(q.state, "profile"),
           q.pc \in {"saving", "model"} => Tried(q.state, "zones"),
           q.pc = "sleep" => ~q.state.preloaded["zones"],
           turn[t].pc # "idle",
           q.pc \in {"profile", "zones", "sleep", "saving"} =>
               /\ q.state = turn[t].state /\ q.wrote = turn[t].wrote
               /\ turn[t].pc \in {"profile", "zones", "sleep", "saving"}
    PROVE  PreloadInv'
<1>1. /\ turn' \in [Turns -> Turn] /\ turn'[t] = q
      /\ \A u \in Turns \ {t} : turn'[u] = turn[u]
  BY TurnMoves DEF PreloadInv
<1>2. PreloadTypeOK'
  BY <1>1 DEF PreloadInv, PreloadTypeOK
<1>3. HonestInv'
  BY <1>1 DEF PreloadInv, HonestInv, Honest
<1>4. CalmInv'
  <2> SUFFICES ASSUME calm'
               PROVE  /\ Sound(state')
                      /\ \A u, v \in Turns : u = v \/ turn'[u].pc = "idle" \/ turn'[v].pc = "idle"
                      /\ \A u \in Turns : turn'[u].pc \in {"profile", "zones", "sleep", "saving"} =>
                             /\ Sound(turn'[u].state)
                             /\ Copies(state', turn'[u].state, turn'[u].wrote)
    BY DEF CalmInv, Sound, Copies
  <2>0. calm /\ state' = state
    OBVIOUS
  <2> QED BY <1>1, <2>0 DEF PreloadInv, CalmInv
<1> QED BY <1>2, <1>3, <1>4 DEF PreloadInv

\* In turn t a callback has fetched topic k, or failed to: q is what it leaves.
CallbackRan(t, k, q) ==
    /\ turn' = [turn EXCEPT ![t] = q] /\ state' = state /\ calm' = calm
    /\ \/ k = "profile" /\ q.pc = "zones" /\ turn[t].pc = "profile"
       \/ k = "zones" /\ q.pc = "saving" /\ turn[t].pc = "sleep"
    /\ q.wrote = turn[t].wrote \cup {k}
    /\ \A j \in Topics \ {k} : /\ q.state.preloaded[j] = turn[t].state.preloaded[j]
                               /\ q.state.failed[j] = turn[t].state.failed[j]
    /\ ~turn[t].state.preloaded[k]
    /\ q.state.failed[k] <=> ~q.state.preloaded[k]
    /\ q.state.ok <=> (\A j \in Topics : ~q.state.failed[j])
    /\ foundNone \subseteq foundNone' /\ foundNone' \subseteq Topics
    /\ \A j \in Topics :
           q.state.preloaded[j] => j \in foundNone' \/ \E f \in FactsOf(j) : q.state.shown[f]

\* A callback has fetched topic k, or failed to: the turn keeps the new state.
LEMMA CallbackKeeps ==
    ASSUME PreloadInv, NEW t \in Turns, NEW k \in Topics, NEW q \in Turn,
           CallbackRan(t, k, q)
    PROVE  PreloadInv'
<1> USE DEF CallbackRan
<1>1. /\ turn' \in [Turns -> Turn] /\ turn'[t] = q
      /\ \A u \in Turns \ {t} : turn'[u] = turn[u]
  BY TurnMoves DEF PreloadInv
<1>2. PreloadTypeOK'
  BY <1>1 DEF PreloadInv, PreloadTypeOK
<1>3. Tried(q.state, k)
  BY DEF Tried
<1>4. k = "zones" => Tried(q.state, "profile")
  BY DEF Tried, PreloadInv, HonestInv, Topics
<1>5. HonestInv'
  <2>1. Honest(state)'
    BY DEF PreloadInv, HonestInv, Honest
  <2>2. \A u \in Turns \ {t} : Honest(turn[u].state)'
    BY <1>1 DEF PreloadInv, HonestInv, Honest
  <2>3. Honest(turn[t].state)'
    BY <1>1 DEF Honest
  <2> QED BY <1>1, <1>3, <1>4, <2>1, <2>2, <2>3 DEF PreloadInv, HonestInv
<1>6. CalmInv'
  <2> SUFFICES ASSUME calm'
               PROVE  /\ Sound(state')
                      /\ \A u, v \in Turns : u = v \/ turn'[u].pc = "idle" \/ turn'[v].pc = "idle"
                      /\ \A u \in Turns : turn'[u].pc \in {"profile", "zones", "sleep", "saving"} =>
                             /\ Sound(turn'[u].state)
                             /\ Copies(state', turn'[u].state, turn'[u].wrote)
    BY DEF CalmInv, Sound, Copies
  <2>0. calm /\ state' = state
    OBVIOUS
  <2>1. Sound(state) /\ Sound(turn[t].state)
        /\ Copies(state, turn[t].state, turn[t].wrote)
    BY <2>0 DEF PreloadInv, CalmInv
  <2>2. Sound(q.state)
    BY <2>1 DEF Sound
  <2>3. Copies(state, q.state, q.wrote)
    BY <2>1 DEF Copies
  <2>4. \A u, v \in Turns : u = v \/ turn'[u].pc = "idle" \/ turn'[v].pc = "idle"
    BY <1>1, <2>0 DEF PreloadInv, CalmInv
  <2> QED BY <1>1, <2>0, <2>1, <2>2, <2>3, <2>4 DEF PreloadInv, CalmInv
<1> QED BY <1>2, <1>5, <1>6 DEF PreloadInv

\* A topic that is loaded.
LEMMA LoadKeeps ==
    ASSUME PreloadInv, NEW t \in Turns, NEW k \in Topics, NEW pc,
           NEW facts \in SUBSET FactsOf(k),
           \/ k = "profile" /\ pc = "zones" /\ turn[t].pc = "profile"
           \/ k = "zones" /\ pc = "saving" /\ turn[t].pc = "sleep",
           Keeps(t, k, pc, Loaded(turn[t].state, k, facts)), UNCHANGED <<state, calm>>,
           ~turn[t].state.preloaded[k],
           foundNone' = IF facts = {} THEN foundNone \cup {k} ELSE foundNone
    PROVE  PreloadInv'
<1> PICK old : old = turn[t].state
  OBVIOUS
<1> PICK new : new = Loaded(old, k, facts)
  OBVIOUS
<1>0. Keeps(t, k, pc, new) /\ ~old.preloaded[k]
  OBVIOUS
<1>1. old \in SessionState /\ Honest(old)
      /\ foundNone \subseteq foundNone' /\ foundNone' \subseteq Topics
  BY DEF PreloadInv, PreloadTypeOK, HonestInv, Turn
<1>2. /\ new \in SessionState
      /\ new.preloaded = [old.preloaded EXCEPT ![k] = TRUE]
      /\ new.failed = [old.failed EXCEPT ![k] = FALSE]
      /\ new.shown = [f \in Facts |-> old.shown[f] \/ f \in facts]
      /\ new.ok <=> (\A j \in Topics : ~new.failed[j])
  <2> PICK mid : mid = [old EXCEPT !.preloaded[k] = TRUE, !.failed[k] = FALSE,
                           !.shown = [f \in Facts |-> old.shown[f] \/ f \in facts]]
    OBVIOUS
  <2>1. /\ mid \in SessionState
        /\ mid.preloaded = [old.preloaded EXCEPT ![k] = TRUE]
        /\ mid.failed = [old.failed EXCEPT ![k] = FALSE]
        /\ mid.shown = [f \in Facts |-> old.shown[f] \/ f \in facts]
    BY <1>1 DEF SessionState
  <2>2. new = WithOk(mid)
    BY DEF Loaded
  <2> QED BY <2>1, <2>2 DEF WithOk, SessionState
<1>3. /\ old.preloaded \in [Topics -> BOOLEAN] /\ old.failed \in [Topics -> BOOLEAN]
  BY <1>1 DEF SessionState
<1>4. /\ \A j \in Topics \ {k} : new.preloaded[j] = old.preloaded[j]
                                 /\ new.failed[j] = old.failed[j]
      /\ new.preloaded[k] = TRUE /\ new.failed[k] = FALSE
  BY <1>2, <1>3
<1>5. ASSUME NEW j \in Topics, new.preloaded[j]
      PROVE  j \in foundNone' \/ \E f \in FactsOf(j) : new.shown[f]
  <2>1. \A i \in Topics : FactsOf(i) \subseteq Facts
    BY DEF FactsOf, Facts
  <2>2. CASE j = k
    <3>1. CASE facts = {}
      BY <2>2, <3>1
    <3>2. CASE facts # {}
      <4>1. PICK f \in facts : f \in FactsOf(k)
        BY <3>2
      <4> QED BY <1>2, <2>1, <2>2, <4>1
    <3> QED BY <3>1, <3>2
  <2>3. CASE j # k
    <3>1. j \in foundNone \/ \E f \in FactsOf(j) : old.shown[f]
      BY <1>1, <1>4, <1>5, <2>3 DEF Honest
    <3> QED BY <1>1, <1>2, <2>1, <3>1
  <2> QED BY <2>2, <2>3
<1> PICK q : q = [turn[t] EXCEPT !.pc = pc, !.state = new, !.wrote = turn[t].wrote \cup {k}]
  OBVIOUS
<1>6. turn' = [turn EXCEPT ![t] = q] /\ turn[t] \in Turn
  BY <1>0 DEF Keeps, PreloadInv, PreloadTypeOK
<1>7. q \in Turn /\ q.pc = pc /\ q.state = new /\ q.wrote = turn[t].wrote \cup {k}
  BY <1>2, <1>6 DEF Turn
<1>8. \A j \in Topics \ {k} : /\ q.state.preloaded[j] = turn[t].state.preloaded[j]
                                /\ q.state.failed[j] = turn[t].state.failed[j]
  BY <1>4, <1>7
<1>9. /\ q.state.failed[k] <=> ~q.state.preloaded[k]
      /\ q.state.ok <=> (\A j \in Topics : ~q.state.failed[j])
  BY <1>2, <1>4, <1>7
<1>10. \A j \in Topics :
          q.state.preloaded[j] => j \in foundNone' \/ \E f \in FactsOf(j) : q.state.shown[f]
  BY <1>5, <1>7
<1>11. /\ \/ k = "profile" /\ q.pc = "zones" /\ turn[t].pc = "profile"
          \/ k = "zones" /\ q.pc = "saving" /\ turn[t].pc = "sleep"
       /\ state' = state /\ calm' = calm /\ foundNone \subseteq foundNone'
       /\ foundNone' \subseteq Topics /\ ~turn[t].state.preloaded[k]
  BY <1>1, <1>7
<1>12. CallbackRan(t, k, q)
  BY <1>6, <1>7, <1>8, <1>9, <1>10, <1>11 DEF CallbackRan
<1> QED BY <1>7, <1>12, CallbackKeeps

\* A topic that is not.
LEMMA FailKeeps ==
    ASSUME PreloadInv, NEW t \in Turns, NEW k \in Topics, NEW pc,
           \/ k = "profile" /\ pc = "zones" /\ turn[t].pc = "profile"
           \/ k = "zones" /\ pc = "saving" /\ turn[t].pc = "sleep",
           Keeps(t, k, pc, Failed(turn[t].state, k)), UNCHANGED <<state, calm>>,
           foundNone \subseteq foundNone', foundNone' \subseteq Topics,
           ~turn[t].state.preloaded[k]
    PROVE  PreloadInv'
<1> PICK old : old = turn[t].state
  OBVIOUS
<1> PICK new : new = Failed(old, k)
  OBVIOUS
<1>0. Keeps(t, k, pc, new) /\ ~old.preloaded[k]
  OBVIOUS
<1>1. old \in SessionState /\ Honest(old)
  BY DEF PreloadInv, PreloadTypeOK, HonestInv, Turn
<1>2. /\ new \in SessionState
      /\ new.preloaded = old.preloaded
      /\ new.failed = [old.failed EXCEPT ![k] = TRUE]
      /\ new.shown = old.shown
      /\ new.ok <=> (\A j \in Topics : ~new.failed[j])
  BY <1>1, FailedState
<1>3. old.preloaded \in [Topics -> BOOLEAN] /\ old.failed \in [Topics -> BOOLEAN]
  BY <1>1 DEF SessionState
<1>4. /\ \A j \in Topics \ {k} : new.preloaded[j] = old.preloaded[j]
                                 /\ new.failed[j] = old.failed[j]
      /\ new.preloaded[k] = FALSE /\ new.failed[k] = TRUE
  BY <1>2, <1>3
<1>5. \A j \in Topics :
         new.preloaded[j] => j \in foundNone' \/ \E f \in FactsOf(j) : new.shown[f]
  BY <1>1, <1>2 DEF Honest
<1> PICK q : q = [turn[t] EXCEPT !.pc = pc, !.state = new, !.wrote = turn[t].wrote \cup {k}]
  OBVIOUS
<1>6. turn' = [turn EXCEPT ![t] = q] /\ turn[t] \in Turn
  BY <1>0 DEF Keeps, PreloadInv, PreloadTypeOK
<1>7. q \in Turn /\ q.pc = pc /\ q.state = new /\ q.wrote = turn[t].wrote \cup {k}
  BY <1>2, <1>6 DEF Turn
<1>8. \A j \in Topics \ {k} : /\ q.state.preloaded[j] = turn[t].state.preloaded[j]
                                /\ q.state.failed[j] = turn[t].state.failed[j]
  BY <1>4, <1>7
<1>9. /\ q.state.failed[k] <=> ~q.state.preloaded[k]
      /\ q.state.ok <=> (\A j \in Topics : ~q.state.failed[j])
  BY <1>2, <1>4, <1>7
<1>10. \A j \in Topics :
          q.state.preloaded[j] => j \in foundNone' \/ \E f \in FactsOf(j) : q.state.shown[f]
  BY <1>5, <1>7
<1>11. /\ \/ k = "profile" /\ q.pc = "zones" /\ turn[t].pc = "profile"
          \/ k = "zones" /\ q.pc = "saving" /\ turn[t].pc = "sleep"
       /\ state' = state /\ calm' = calm /\ foundNone \subseteq foundNone'
       /\ foundNone' \subseteq Topics /\ ~turn[t].state.preloaded[k]
  BY <1>1, <1>7
<1>12. CallbackRan(t, k, q)
  BY <1>6, <1>7, <1>8, <1>9, <1>10, <1>11 DEF CallbackRan
<1> QED BY <1>7, <1>12, CallbackKeeps

LEMMA TurnBegins ==
    ASSUME PreloadInv, NEW t \in Turns, BeginTurn(t)
    PROVE  PreloadInv'
<1> PICK q : q = [Idle EXCEPT !.pc = "profile", !.state = state]
  OBVIOUS
<1>1. /\ turn' = [turn EXCEPT ![t] = q] /\ turn[t].pc = "idle"
      /\ calm' = (calm /\ \A u \in Turns : turn[u].pc = "idle")
      /\ UNCHANGED <<state, foundNone>>
  BY DEF BeginTurn
<1>2. q \in Turn /\ q.pc = "profile" /\ q.state = state /\ q.wrote = {}
  BY NothingIsState DEF Turn, PreloadInv, PreloadTypeOK, Idle
<1>3. /\ turn' \in [Turns -> Turn] /\ turn'[t] = q
      /\ \A u \in Turns \ {t} : turn'[u] = turn[u]
  BY <1>1, <1>2, TurnMoves DEF PreloadInv
<1>4. PreloadTypeOK'
  BY <1>1, <1>3 DEF PreloadInv, PreloadTypeOK
<1>5. HonestInv'
  BY <1>1, <1>2, <1>3 DEF PreloadInv, HonestInv, Honest
<1>6. CalmInv'
  <2> SUFFICES ASSUME calm'
               PROVE  /\ Sound(state')
                      /\ \A u, v \in Turns : u = v \/ turn'[u].pc = "idle" \/ turn'[v].pc = "idle"
                      /\ \A u \in Turns : turn'[u].pc \in {"profile", "zones", "sleep", "saving"} =>
                             /\ Sound(turn'[u].state)
                             /\ Copies(state', turn'[u].state, turn'[u].wrote)
    BY DEF CalmInv, Sound, Copies
  <2>1. /\ calm /\ state' = state
        /\ \A u \in Turns \ {t} : turn'[u].pc = "idle"
    BY <1>1, <1>3
  <2>2. Sound(state)
    BY <2>1 DEF PreloadInv, CalmInv
  <2>3. Copies(state, state, {})
    BY DEF Copies
  <2> QED BY <1>2, <1>3, <2>1, <2>2, <2>3
<1> QED BY <1>4, <1>5, <1>6 DEF PreloadInv

LEMMA TurnSaved ==
    ASSUME PreloadInv, NEW t \in Turns, StateSaved(t)
    PROVE  PreloadInv'
<1> PICK own : own = turn[t].state
  OBVIOUS
<1> PICK wrote : wrote = turn[t].wrote
  OBVIOUS
<1> PICK new : new = Merged(state, own, wrote)
  OBVIOUS
<1> PICK q : q = [turn[t] EXCEPT !.pc = "model"]
  OBVIOUS
<1>1. /\ turn' = [turn EXCEPT ![t] = q] /\ turn[t].pc = "saving" /\ state' = new
      /\ UNCHANGED <<foundNone, calm>> /\ turn[t] \in Turn
  BY DEF StateSaved, Goes, PreloadInv, PreloadTypeOK
<1>2. q \in Turn /\ q.pc = "model" /\ q.state = own
  BY <1>1 DEF Turn
<1>3. /\ turn' \in [Turns -> Turn] /\ turn'[t] = q
      /\ \A u \in Turns \ {t} : turn'[u] = turn[u]
  BY <1>1, <1>2, TurnMoves DEF PreloadInv
<1>4. own \in SessionState /\ state \in SessionState /\ wrote \in SUBSET Topics
  BY <1>1 DEF Turn, PreloadInv, PreloadTypeOK
<1>5. /\ new \in SessionState
      /\ \A k \in Topics : new.preloaded[k] = (state.preloaded[k] \/ own.preloaded[k])
      /\ \A k \in Topics : new.failed[k] = IF k \in wrote THEN own.failed[k] ELSE state.failed[k]
      /\ \A f \in Facts : new.shown[f] = (state.shown[f] \/ own.shown[f])
      /\ new.ok = IF wrote = {} THEN state.ok ELSE own.ok
  BY <1>4, MergedState
<1>6. PreloadTypeOK'
  BY <1>1, <1>3, <1>5 DEF PreloadInv, PreloadTypeOK
<1>7. HonestInv'
  <2>1. Honest(own) /\ Honest(state)
    BY <1>1 DEF PreloadInv, HonestInv
  <2>2. \A k \in Topics : FactsOf(k) \subseteq Facts
    BY DEF FactsOf, Facts
  <2>3. Honest(new)
    BY <1>5, <2>1, <2>2 DEF Honest
  <2>4. Honest(state)'
    BY <1>1, <2>3 DEF Honest
  <2>5. \A u \in Turns : Honest(turn[u].state)'
    BY <1>1, <1>2, <1>3 DEF PreloadInv, HonestInv, Honest
  <2>6. Tried(own, "profile") /\ Tried(own, "zones")
    BY <1>1 DEF PreloadInv, HonestInv
  <2> QED BY <1>2, <1>3, <2>4, <2>5, <2>6 DEF PreloadInv, HonestInv
<1>8. CalmInv'
  <2> SUFFICES ASSUME calm'
               PROVE  /\ Sound(new)
                      /\ \A u, v \in Turns : u = v \/ turn'[u].pc = "idle" \/ turn'[v].pc = "idle"
                      /\ \A u \in Turns : turn'[u].pc \in {"profile", "zones", "sleep", "saving"} =>
                             /\ Sound(turn'[u].state)
                             /\ Copies(new, turn'[u].state, turn'[u].wrote)
    BY <1>1 DEF CalmInv, Sound, Copies
  <2>1. /\ Sound(state) /\ Sound(own) /\ Copies(state, own, wrote)
        /\ \A u \in Turns \ {t} : turn[u].pc = "idle"
    BY <1>1 DEF PreloadInv, CalmInv
  <2>2. /\ \A k \in Topics : new.failed[k] <=> own.failed[k]
        /\ \A k \in Topics : new.preloaded[k] <=> own.preloaded[k]
        /\ new.ok <=> own.ok
    <3>1. \A k \in Topics : new.failed[k] <=> own.failed[k]
      BY <1>5, <2>1 DEF Copies
    <3>2. \A k \in Topics : new.preloaded[k] <=> own.preloaded[k]
      BY <1>5, <2>1 DEF Copies
    <3>3. CASE wrote = {}
      <4>1. \A k \in Topics : own.failed[k] <=> state.failed[k]
        BY <2>1, <3>3 DEF Copies
      <4>2. new.ok <=> state.ok
        BY <1>5, <3>3
      <4> QED BY <2>1, <3>1, <3>2, <4>1, <4>2 DEF Sound
    <3>4. CASE wrote # {}
      BY <1>5, <3>1, <3>2, <3>4
    <3> QED BY <3>3, <3>4
  <2>3. Sound(new)
    BY <2>1, <2>2 DEF Sound
  <2>4. \A u \in Turns \ {t} : turn'[u].pc = "idle"
    BY <1>3, <2>1
  <2>5. turn'[t].pc = "model"
    BY <1>2, <1>3
  <2>6. \A u \in Turns : turn'[u].pc \notin {"profile", "zones", "sleep", "saving"}
    BY <2>4, <2>5
  <2>7. \A u, v \in Turns : u = v \/ turn'[u].pc = "idle" \/ turn'[v].pc = "idle"
    BY <2>4
  <2> QED BY <2>3, <2>6, <2>7
<1> QED BY <1>6, <1>7, <1>8 DEF PreloadInv

LEMMA TurnGoesOn ==
    ASSUME PreloadInv, NEW t \in Turns,
           \/ ProfileThere(t) \/ ZonesThere(t) \/ ZonesRead(t) \/ ZonesUnread(t)
           \/ ModelAnswers(t)
    PROVE  PreloadInv'
<1>1. /\ turn[t] \in Turn /\ Honest(turn[t].state)
      /\ turn[t].pc \in {"zones", "sleep", "saving", "model"} => Tried(turn[t].state, "profile")
      /\ turn[t].pc \in {"saving", "model"} => Tried(turn[t].state, "zones")
  BY DEF PreloadInv, PreloadTypeOK, HonestInv
<1>2. CASE ProfileThere(t)
  <2> PICK q : q = [turn[t] EXCEPT !.pc = "zones"]
    OBVIOUS
  <2>1. q \in Turn /\ q.pc = "zones" /\ q.state = turn[t].state /\ q.wrote = turn[t].wrote
    BY <1>1 DEF Turn
  <2>2. /\ turn' = [turn EXCEPT ![t] = q] /\ UNCHANGED <<state, foundNone, calm>>
        /\ turn[t].pc = "profile" /\ turn[t].state.preloaded["profile"]
    BY <1>2 DEF ProfileThere, Goes, Fetches
  <2> QED BY <1>1, <2>1, <2>2, TurnMovesOn DEF Tried
<1>3. CASE ZonesThere(t)
  <2> PICK q : q = [turn[t] EXCEPT !.pc = "saving"]
    OBVIOUS
  <2>1. q \in Turn /\ q.pc = "saving" /\ q.state = turn[t].state /\ q.wrote = turn[t].wrote
    BY <1>1 DEF Turn
  <2>2. /\ turn' = [turn EXCEPT ![t] = q] /\ UNCHANGED <<state, foundNone, calm>>
        /\ turn[t].pc = "zones" /\ turn[t].state.preloaded["zones"]
    BY <1>3 DEF ZonesThere, Goes, Fetches
  <2> QED BY <1>1, <2>1, <2>2, TurnMovesOn DEF Tried
<1>4. CASE ZonesRead(t) \/ ZonesUnread(t)
  <2> PICK read \in {"some", "nothing", "error"} :
        turn' = [turn EXCEPT ![t] = [turn[t] EXCEPT !.pc = "sleep", !.read = read]]
    BY <1>4 DEF ZonesRead, ZonesUnread
  <2> PICK q : q = [turn[t] EXCEPT !.pc = "sleep", !.read = read]
    OBVIOUS
  <2>1. q \in Turn /\ q.pc = "sleep" /\ q.state = turn[t].state /\ q.wrote = turn[t].wrote
    BY <1>1 DEF Turn
  <2>2. /\ turn' = [turn EXCEPT ![t] = q] /\ UNCHANGED <<state, foundNone, calm>>
        /\ turn[t].pc = "zones" /\ ~turn[t].state.preloaded["zones"]
    BY <1>4 DEF ZonesRead, ZonesUnread, Fetches
  <2> QED BY <1>1, <2>1, <2>2, TurnMovesOn
<1>5. CASE ModelAnswers(t)
  <2>1. /\ turn' = [turn EXCEPT ![t] = Idle] /\ UNCHANGED <<state, foundNone, calm>>
        /\ turn[t].pc = "model"
    BY <1>5 DEF ModelAnswers
  <2> QED BY <2>1, NothingIsState, TurnMovesOn
<1> QED BY <1>2, <1>3, <1>4, <1>5

LEMMA TurnFetches ==
    ASSUME PreloadInv, NEW t \in Turns,
           ProfileLoads(t) \/ ProfileFails(t) \/ ZonesLoad(t) \/ ZonesFail(t)
    PROVE  PreloadInv'
<1>1. foundNone \subseteq Topics
      /\ (turn[t].pc = "sleep" => ~turn[t].state.preloaded["zones"])
  BY DEF PreloadInv, PreloadTypeOK, HonestInv
<1>2. CASE ProfileLoads(t)
  <2> PICK facts \in {{}, {"profile"}} :
        /\ Keeps(t, "profile", "zones", Loaded(turn[t].state, "profile", facts))
        /\ foundNone' = IF facts = {} THEN foundNone \cup {"profile"} ELSE foundNone
    BY <1>2 DEF ProfileLoads
  <2>1. /\ facts \in SUBSET FactsOf("profile") /\ "profile" \in Topics
        /\ turn[t].pc = "profile" /\ ~turn[t].state.preloaded["profile"]
        /\ UNCHANGED <<state, calm>>
    BY <1>2 DEF ProfileLoads, Fetches, FactsOf, Topics
  <2> QED BY <2>1, LoadKeeps
<1>3. CASE ZonesLoad(t)
  <2> PICK facts \in SUBSET FactsOf("zones") :
        /\ Keeps(t, "zones", "saving", Loaded(turn[t].state, "zones", facts))
        /\ foundNone' = IF facts = {} THEN foundNone \cup {"zones"} ELSE foundNone
    <3>1. PICK sleep \in {{}, {"sleep"}} :
            LET facts == sleep \cup (IF turn[t].read = "some" THEN {"zones"} ELSE {})
            IN  /\ Keeps(t, "zones", "saving", Loaded(turn[t].state, "zones", facts))
                /\ foundNone' = IF facts = {} THEN foundNone \cup {"zones"} ELSE foundNone
      BY <1>3 DEF ZonesLoad
    <3> PICK facts : facts = sleep \cup (IF turn[t].read = "some" THEN {"zones"} ELSE {})
      OBVIOUS
    <3>2. facts \in SUBSET FactsOf("zones")
      BY DEF FactsOf
    <3> QED BY <3>1, <3>2
  <2>1. /\ "zones" \in Topics
        /\ turn[t].pc = "sleep" /\ ~turn[t].state.preloaded["zones"]
        /\ UNCHANGED <<state, calm>>
    BY <1>1, <1>3 DEF ZonesLoad, Topics
  <2> QED BY <2>1, LoadKeeps
<1>4. CASE ProfileFails(t)
  BY <1>1, <1>4, FailKeeps DEF ProfileFails, Fetches, Topics
<1>5. CASE ZonesFail(t)
  BY <1>1, <1>5, FailKeeps DEF ZonesFail, Topics
<1> QED BY <1>2, <1>3, <1>4, <1>5

\* The invariant of the preloaded state, for any number of overlapping turns.
THEOREM PreloadInvariant == PreloadSpec => []PreloadInv
<1>1. PreloadInit => PreloadInv
  <2> SUFFICES ASSUME PreloadInit PROVE PreloadInv
    OBVIOUS
  <2>1. /\ state = Nothing /\ foundNone = {} /\ calm = TRUE
        /\ turn \in [Turns -> Turn] /\ \A t \in Turns : turn[t] = Idle
    BY NothingIsState DEF PreloadInit
  <2>2. PreloadTypeOK
    BY <2>1, NothingIsState DEF PreloadTypeOK
  <2>3. HonestInv
    BY <2>1, NothingIsState DEF HonestInv
  <2>4. CalmInv
    BY <2>1, NothingIsState DEF CalmInv
  <2> QED BY <2>2, <2>3, <2>4 DEF PreloadInv
<1>2. PreloadInv /\ [PreloadNext]_preloadVars => PreloadInv'
  <2> SUFFICES ASSUME PreloadInv, [PreloadNext]_preloadVars PROVE PreloadInv'
    OBVIOUS
  <2>1. CASE UNCHANGED preloadVars
    BY <2>1 DEF preloadVars, PreloadInv, PreloadTypeOK, HonestInv, CalmInv, Honest
  <2>2. ASSUME NEW t \in Turns, BeginTurn(t) PROVE PreloadInv'
    BY <2>2, TurnBegins
  <2>3. ASSUME NEW t \in Turns, TurnStep(t) PROVE PreloadInv'
    BY <2>3, TurnSaved, TurnGoesOn, TurnFetches DEF TurnStep
  <2> QED BY <2>1, <2>2, <2>3 DEF PreloadNext
<1> QED BY <1>1, <1>2, PTL DEF PreloadSpec

\* The model is told of an absence only if a fetch has found it, however turns
\* overlap and whatever fails (_build_instruction).
THEOREM NoneSafe == PreloadSpec => []NoneMeansNone
<1>1. PreloadInv => NoneMeansNone
  <2> SUFFICES ASSUME PreloadInv, NEW t \in Turns, turn[t].pc = "model",
                      NEW k \in Topics, SaysNone(turn[t].state, k)
               PROVE  k \in foundNone
    BY DEF NoneMeansNone
  <2>1. Honest(turn[t].state) /\ Tried(turn[t].state, k)
    BY DEF PreloadInv, HonestInv, Topics
  <2>2. turn[t].state.preloaded[k]
    BY <2>1 DEF Tried, SaysNone
  <2>3. \A f \in FactsOf(k) : ~turn[t].state.shown[f]
    BY DEF SaysNone, FactsOf
  <2> QED BY <2>1, <2>2, <2>3 DEF Honest
<1> QED BY <1>1, PreloadInvariant, PTL

\* While turns come one at a time, what failed is fetched again and preload_ok
\* is right (_preload_profile, _preload_zones, _refresh_preload_ok).
THEOREM CalmFailureSafe == PreloadSpec => []CalmFailureIsRetried
<1>1. PreloadInv => CalmFailureIsRetried
  <2> SUFFICES ASSUME PreloadInv, calm
               PROVE  /\ \A k \in Topics : ~(state.failed[k] /\ state.preloaded[k])
                      /\ state.ok = (\A k \in Topics : ~state.failed[k])
    BY DEF CalmFailureIsRetried
  <2>1. Sound(state) /\ state.ok \in BOOLEAN
    BY DEF PreloadInv, CalmInv, PreloadTypeOK, SessionState
  <2> QED BY <2>1 DEF Sound
<1> QED BY <1>1, PreloadInvariant, PTL

=============================================================================
