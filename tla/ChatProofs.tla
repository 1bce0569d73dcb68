----------------------------- MODULE ChatProofs -----------------------------
(***************************************************************************)
(* Theorems about Chat, for any number of requests, messages, sessions and *)
(* days, any limit and any mix of failures.                                *)
(***************************************************************************)
EXTENDS MCChat, TLAPS

LEMMA NullRecords ==
    Idle \in Request /\ Idle.pc = "idle"
  BY LimitsAreNumbers DEF Idle, Request, Stages, Days

\* The stages at which a handler has a message to send.
SendingStages == {"quota", "resolving", "checking", "creating", "streaming", "saving"}

Sending ==
    \A r \in Requests : req[r].pc \in SendingStages => req[r].message \in Messages

TypeInv == TypeOK /\ Sending

\* Everything but the handler that moves keeps its type.
LEMMA HandlerTyped ==
    ASSUME TypeOK, NEW r \in Requests, NEW q \in Request, Put(r, q)
    PROVE  /\ req' \in [Requests -> Request]
           /\ req'[r] = q
           /\ \A s \in Requests : s # r => req'[s] = req[s]
  BY DEF TypeOK, Put

\* Moving a handler on to another stage.
LEMMA MoveTyped ==
    ASSUME TypeOK, NEW r \in Requests, NEW stage \in Stages, Move(r, stage)
    PROVE  /\ req' \in [Requests -> Request]
           /\ req'[r].pc = stage /\ req'[r].message = req[r].message
           /\ \A s \in Requests : s # r => req'[s] = req[s]
<1> DEFINE q == [req[r] EXCEPT !.pc = stage]
<1>1. q \in Request /\ q.pc = stage /\ q.message = req[r].message
  BY DEF TypeOK, Request
<1>2. Put(r, q)
  BY DEF Move
<1> HIDE DEF q
<1> QED BY <1>1, <1>2, HandlerTyped

LEMMA ReturnTyped ==
    ASSUME TypeOK, NEW r \in Requests, Return(r)
    PROVE  /\ req' \in [Requests -> Request]
           /\ req'[r].pc = "idle"
           /\ \A s \in Requests : s # r => req'[s] = req[s]
  BY NullRecords, HandlerTyped DEF Return

\* What the quota knows.  spent is the limit for each late message so far: on
\* the stored day the count has been let through on top of it, on an earlier day
\* a whole limit may have been, on a later one nothing yet.
QuotaInv ==
    LET spent == DailyLimit * late IN
    \A d \in Days :
        /\ quota.date = d => /\ quota.count <= DailyLimit
                             /\ allowed[d] <= spent + quota.count
        /\ quota.date # Never /\ d < quota.date => allowed[d] <= spent + DailyLimit
        /\ quota.date = Never \/ quota.date < d => allowed[d] <= spent

\* A step that leaves the quota alone.
LEMMA QuotaUntouched ==
    ASSUME QuotaInv, UNCHANGED <<quota, allowed, late>>
    PROVE  QuotaInv'
  BY DEF QuotaInv

LEMMA ChatStep ==
    ASSUME TypeInv, NEW r \in Requests, NEW m \in Messages, Chat(r, m)
    PROVE  TypeInv' /\ (QuotaInv => QuotaInv')
<1> DEFINE q == [Idle EXCEPT !.pc = "quota", !.message = m, !.today = day,
                             !.stale = retired]
<1>1. q \in Request /\ q.pc = "quota" /\ q.today = day /\ q.message = m
  BY NullRecords DEF TypeInv, TypeOK, Request, Stages
<1>2. Put(r, q) /\ UNCHANGED <<day, quota, pointer, session, memory, allowed, late, retired>>
      /\ unsent' = unsent \ {m}
  BY DEF Chat
<1> HIDE DEF q
<1>3. /\ req' \in [Requests -> Request] /\ req'[r] = q
      /\ \A s \in Requests : s # r => req'[s] = req[s]
  BY <1>1, <1>2, HandlerTyped DEF TypeInv
<1>4. TypeInv'
  BY <1>1, <1>2, <1>3 DEF TypeInv, TypeOK, Sending
<1>5. QuotaInv => QuotaInv'
  BY <1>2, QuotaUntouched
<1> QED BY <1>4, <1>5

\* A message let through is one more on its day; a late one raises the bound of
\* every day by a limit, which makes up for the counts it starts over.
LEMMA QuotaCounted ==
    ASSUME TypeOK, QuotaInv, NEW today \in Days, CountOn(today) < DailyLimit,
           quota'.date = today, quota'.count = CountOn(today) + 1,
           late' = late + (IF IsLate(today) THEN 1 ELSE 0),
           allowed'[today] = allowed[today] + 1,
           \A d \in Days : d # today => allowed'[d] = allowed[d]
    PROVE  QuotaInv'
<1> DEFINE spent == DailyLimit * late
           spends == DailyLimit * late'
<1>0. /\ DailyLimit \in Nat /\ late \in Nat /\ Days \subseteq Nat
      /\ Never \in Nat /\ Never \notin Days
      /\ quota.date \in Nat /\ quota.count \in Nat
      /\ \A d \in Days : allowed[d] \in Nat
  BY LimitsAreNumbers DEF TypeOK, Quota, Days, Never
<1>1. spent \in Nat
  BY <1>0
<1>2. spends = IF IsLate(today) THEN spent + DailyLimit ELSE spent
  BY <1>0
<1>3. /\ \A d \in Days :
            /\ quota.date = d => /\ quota.count <= DailyLimit
                                 /\ allowed[d] <= spent + quota.count
            /\ quota.date # Never /\ d < quota.date => allowed[d] <= spent + DailyLimit
            /\ quota.date = Never \/ quota.date < d => allowed[d] <= spent
  BY DEF QuotaInv
<1> HIDE DEF spent, spends
<1>4. \A d \in Days :
         /\ today = d => /\ CountOn(today) + 1 <= DailyLimit
                         /\ allowed'[d] <= spends + CountOn(today) + 1
         /\ d < today => allowed'[d] <= spends + DailyLimit
         /\ today < d => allowed'[d] <= spends
  <2>1. CASE quota.date = Never
    BY <1>0, <1>1, <1>2, <1>3, <2>1 DEF CountOn, IsLate
  <2>2. CASE quota.date # Never /\ quota.date <= today
    BY <1>0, <1>1, <1>2, <1>3, <2>2 DEF CountOn, IsLate
  <2>3. CASE quota.date # Never /\ today < quota.date
    BY <1>0, <1>1, <1>2, <1>3, <2>3 DEF CountOn, IsLate
  <2> QED BY <1>0, <2>1, <2>2, <2>3
<1>5. \A d \in Days :
         /\ quota'.date = d => /\ quota'.count <= DailyLimit
                               /\ allowed'[d] <= spends + quota'.count
         /\ quota'.date # Never /\ d < quota'.date => allowed'[d] <= spends + DailyLimit
         /\ quota'.date = Never \/ quota'.date < d => allowed'[d] <= spends
  <2>1. quota'.date # Never /\ CountOn(today) \in Nat /\ spends \in Nat
    BY <1>0, <1>1, <1>2 DEF CountOn
  <2> QED BY <1>4, <2>1
<1> QED BY <1>5 DEF QuotaInv, spends

LEMMA ConsumeQuotaStep ==
    ASSUME TypeInv, NEW r \in Requests, ConsumeQuota(r)
    PROVE  TypeInv' /\ (QuotaInv => QuotaInv')
<1> DEFINE today == req[r].today
<1>0. /\ req[r] \in Request /\ today \in Days /\ At(r, "quota")
      /\ UNCHANGED <<day, pointer, session, memory, unsent, retired>>
      /\ TypeOK /\ req[r].message \in Messages
  BY DEF TypeInv, TypeOK, Request, ConsumeQuota, Sending, SendingStages, At
<1>1. CASE /\ CountOn(today) < DailyLimit
           /\ quota' = [date |-> today, count |-> CountOn(today) + 1]
           /\ allowed' = [allowed EXCEPT ![today] = @ + 1]
           /\ late' = late + (IF IsLate(today) THEN 1 ELSE 0)
           /\ Move(r, "resolving")
  <2>1. /\ req' \in [Requests -> Request] /\ req'[r].pc = "resolving"
        /\ req'[r].message = req[r].message
        /\ \A s \in Requests : s # r => req'[s] = req[s]
    BY <1>0, <1>1, MoveTyped DEF Stages
  <2>2. CountOn(today) \in Nat
    BY <1>0 DEF TypeOK, Quota, CountOn
  <2>3. quota' \in Quota /\ quota'.date = today /\ quota'.count = CountOn(today) + 1
    BY <1>0, <1>1, <2>2 DEF Quota
  <2>4. /\ allowed' \in [Days -> Nat] /\ allowed'[today] = allowed[today] + 1
        /\ \A d \in Days : d # today => allowed'[d] = allowed[d]
    BY <1>0, <1>1 DEF TypeOK
  <2>5. TypeInv'
    BY <1>0, <1>1, <2>1, <2>3, <2>4 DEF TypeInv, TypeOK, Sending
  <2>6. QuotaInv => QuotaInv'
    BY <1>0, <1>1, <2>2, <2>3, <2>4, QuotaCounted
  <2> QED BY <2>5, <2>6
<1>2. CASE Return(r) /\ UNCHANGED <<quota, allowed, late>>
  <2>1. /\ req' \in [Requests -> Request] /\ req'[r].pc = "idle"
        /\ \A s \in Requests : s # r => req'[s] = req[s]
    BY <1>0, <1>2, ReturnTyped
  <2> QED
    BY <1>0, <1>2, <2>1, QuotaUntouched DEF TypeInv, TypeOK, Sending, SendingStages
<1> QED BY <1>1, <1>2 DEF ConsumeQuota

\* The rest of a handler: it never touches the quota, and stays typed.
LEMMA RestStep ==
    ASSUME TypeInv, NEW r \in Requests, NEW q \in Request, q.pc # "quota", Put(r, q),
           q.pc \in SendingStages => q.message \in Messages,
           UNCHANGED <<day, quota, unsent, allowed, late>>,
           pointer' \in Pointer, session' \in [Sessions -> Session],
           memory' \in SUBSET Messages, retired' \in SUBSET Sessions
    PROVE  TypeInv' /\ (QuotaInv => QuotaInv')
<1>1. /\ req' \in [Requests -> Request] /\ req'[r] = q
      /\ \A s \in Requests : s # r => req'[s] = req[s]
  BY HandlerTyped DEF TypeInv
<1> QED BY <1>1, QuotaUntouched DEF TypeInv, TypeOK, Sending

\* The same for a handler that only changes its stage, or answers.
LEMMA StageStep ==
    ASSUME TypeInv, NEW r \in Requests, NEW stage \in Stages, stage # "quota",
           stage \in SendingStages => req[r].message \in Messages,
           Move(r, stage) \/ Return(r),
           UNCHANGED <<day, quota, unsent, allowed, late>>,
           pointer' \in Pointer, session' \in [Sessions -> Session],
           memory' \in SUBSET Messages, retired' \in SUBSET Sessions
    PROVE  TypeInv' /\ (QuotaInv => QuotaInv')
<1> DEFINE q == [req[r] EXCEPT !.pc = stage]
<1>1. q \in Request /\ q.pc = stage /\ q.message = req[r].message
  BY DEF TypeInv, TypeOK, Request
<1>2. Put(r, q) \/ Put(r, Idle)
  BY DEF Move, Return
<1> HIDE DEF q
<1> QED BY <1>1, <1>2, NullRecords, RestStep DEF SendingStages

LEMMA ArchiveStep ==
    ASSUME TypeInv, NEW r \in Requests, Archive(r)
    PROVE  TypeInv' /\ (QuotaInv => QuotaInv')
<1>0. /\ req[r] \in Request /\ pointer \in Pointer
      /\ session \in [Sessions -> Session] /\ memory \in SUBSET Messages
      /\ retired \in SUBSET Sessions
      /\ req[r].pc \in SendingStages => req[r].message \in Messages
  BY DEF TypeInv, TypeOK, Sending
<1>1. ASSUME Archived(r), UNCHANGED <<day, quota, pointer, memory, unsent, allowed, late, retired>>,
             session' \in [Sessions -> Session]
      PROVE  TypeInv' /\ (QuotaInv => QuotaInv')
  <2> DEFINE q == [req[r] EXCEPT !.pc = "creating", !.known = NoSession,
                                 !.session = NoSession, !.fetched = {}]
             p == [req[r] EXCEPT !.pc = "clearing"]
  <2>1. /\ q \in Request /\ q.pc = "creating" /\ q.message = req[r].message
        /\ p \in Request /\ p.pc = "clearing"
    BY <1>0 DEF Request, Stages
  <2>2. Put(r, p) \/ (Put(r, q) /\ req[r].message \in Messages)
    BY <1>0, <1>1 DEF Archived, Request
  <2> HIDE DEF q, p
  <2> QED BY <1>0, <1>1, <2>1, <2>2, RestStep DEF SendingStages
<1>2. CASE ArchiveFetch(r)
  <2> DEFINE s == req[r].session
             q == [req[r] EXCEPT !.pc = "flushing", !.fetched = session[s].turns]
  <2>1. CASE Live(s)
    <3>1. s \in Sessions
      BY <1>0, <2>1 DEF Live, Request
    <3>2. session[s].turns \in SUBSET Messages
      BY <1>0, <3>1 DEF Session
    <3>3. q \in Request /\ q.pc = "flushing"
      BY <1>0, <3>2 DEF Request, Stages
    <3>4. Put(r, q) /\ UNCHANGED <<day, quota, pointer, session, memory, unsent, allowed, late, retired>>
      BY <1>2, <2>1 DEF ArchiveFetch
    <3> HIDE DEF q
    <3> QED BY <1>0, <3>3, <3>4, RestStep DEF SendingStages
  <2>2. CASE ~Live(s)
    BY <1>0, <1>1, <1>2, <2>2 DEF ArchiveFetch
  <2> QED BY <2>1, <2>2
<1>3. CASE ArchiveFlush(r)
  <2>1. memory' \in SUBSET Messages
    BY <1>0, <1>3 DEF ArchiveFlush, Request
  <2> QED BY <1>0, <1>3, <2>1, StageStep DEF ArchiveFlush, Stages, SendingStages
<1>4. CASE ArchiveDelete(r)
  <2>1. session' \in [Sessions -> Session]
    <3>1. CASE UNCHANGED session
      BY <1>0, <3>1
    <3>2. CASE session' = [session EXCEPT ![req[r].session].state = "deleted"]
      BY <1>0, <3>2 DEF Session
    <3> QED BY <1>4, <3>1, <3>2 DEF ArchiveDelete
  <2> QED BY <1>1, <1>4, <2>1 DEF ArchiveDelete
<1> QED BY <1>2, <1>3, <1>4 DEF Archive

LEMMA SendMessageStep ==
    ASSUME TypeInv, NEW r \in Requests, SendMessage(r)
    PROVE  TypeInv' /\ (QuotaInv => QuotaInv')
<1>0. /\ req[r] \in Request /\ pointer \in Pointer
      /\ session \in [Sessions -> Session] /\ memory \in SUBSET Messages
      /\ retired \in SUBSET Sessions
      /\ req[r].pc \in SendingStages => req[r].message \in Messages
  BY DEF TypeInv, TypeOK, Sending
<1>1. CASE CheckSession(r)
  <2> DEFINE q == [req[r] EXCEPT !.pc = "creating", !.session = NoSession]
  <2>1. q \in Request /\ q.pc = "creating" /\ q.message = req[r].message
    BY <1>0 DEF Request, Stages
  <2>2. /\ Move(r, "streaming") \/ Put(r, q)
        /\ UNCHANGED <<day, quota, pointer, session, memory, unsent, allowed, late, retired>>
        /\ req[r].message \in Messages
    BY <1>0, <1>1 DEF CheckSession, At, SendingStages
  <2> HIDE DEF q
  <2> QED BY <1>0, <2>1, <2>2, RestStep, StageStep DEF Stages
<1>2. ASSUME NEW s \in Sessions, CreateSession(r, s)
      PROVE  TypeInv' /\ (QuotaInv => QuotaInv')
  <2> DEFINE q == [req[r] EXCEPT !.pc = "streaming", !.session = s]
  <2>1. q \in Request /\ q.pc = "streaming" /\ q.message = req[r].message
    BY <1>0 DEF Request, Stages
  <2>2. /\ Put(r, q) /\ UNCHANGED <<day, quota, pointer, memory, unsent, allowed, late, retired>>
        /\ req[r].message \in Messages
    BY <1>0, <1>2 DEF CreateSession, At, SendingStages
  <2>3. session' \in [Sessions -> Session]
    BY <1>0, <1>2 DEF CreateSession, Session
  <2> HIDE DEF q
  <2> QED BY <1>0, <2>1, <2>2, <2>3, RestStep
<1>3. ASSUME At(r, "streaming"),
             session' = [session EXCEPT
                           ![req[r].session].turns = @ \cup {req[r].message}]
      PROVE  session' \in [Sessions -> Session]
  BY <1>0, <1>3 DEF Session, At, SendingStages
<1>4. CASE Stream(r)
  BY <1>0, <1>3, <1>4, StageStep DEF Stream, At, Stages, SendingStages
<1>5. CASE StreamFails(r)
  <2>1. session' \in [Sessions -> Session]
    BY <1>0, <1>3, <1>5 DEF StreamFails
  <2> QED BY <1>0, <1>5, <2>1, StageStep DEF StreamFails, Stages, SendingStages
<1> QED BY <1>1, <1>2, <1>4, <1>5 DEF SendMessage

LEMMA HandleStep ==
    ASSUME TypeInv, NEW r \in Requests, Handle(r)
    PROVE  TypeInv' /\ (QuotaInv => QuotaInv')
<1>0. /\ req[r] \in Request /\ pointer \in Pointer
      /\ session \in [Sessions -> Session] /\ memory \in SUBSET Messages
      /\ retired \in SUBSET Sessions
      /\ req[r].pc \in SendingStages => req[r].message \in Messages
  BY DEF TypeInv, TypeOK, Sending
<1>1. CASE ResolveSession(r)
  <2> DEFINE q == [req[r] EXCEPT
                     !.known = pointer.session,
                     !.session = pointer.session,
                     !.pc = IF pointer.session = NoSession THEN "creating"
                            ELSE IF pointer.idle THEN "fetching" ELSE "checking"]
  <2>1. q \in Request /\ q.pc # "quota" /\ q.message = req[r].message
    BY <1>0 DEF Request, Stages, Pointer
  <2>2. /\ Put(r, q) /\ req[r].message \in Messages
        /\ UNCHANGED <<day, quota, pointer, session, memory, unsent, allowed, late, retired>>
    BY <1>0, <1>1 DEF ResolveSession, At, SendingStages
  <2> HIDE DEF q
  <2> QED BY <1>0, <2>1, <2>2, RestStep
<1>2. CASE SetAgentSession(r)
  <2>1. pointer' \in Pointer
    BY <1>0, <1>2 DEF SetAgentSession, Pointer, Request
  <2> QED BY <1>0, <1>2, <2>1, StageStep DEF SetAgentSession, Stages, SendingStages
<1>3. CASE Reset(r)
  BY <1>0, <1>3, StageStep DEF Reset, Stages, SendingStages
<1>4. CASE ResetRead(r)
  <2> DEFINE q == [req[r] EXCEPT
                     !.session = pointer.session,
                     !.pc = IF pointer.session = NoSession THEN "clearing"
                            ELSE "fetching"]
  <2>1. q \in Request /\ q.pc \in {"clearing", "fetching"}
    BY <1>0 DEF Request, Stages, Pointer
  <2>2. /\ Put(r, q)
        /\ UNCHANGED <<day, quota, pointer, session, memory, unsent, allowed, late, retired>>
    BY <1>4 DEF ResetRead
  <2> HIDE DEF q
  <2> QED BY <1>0, <2>1, <2>2, RestStep DEF SendingStages
<1>5. CASE ClearAgentSession(r)
  <2>1. pointer' \in Pointer /\ retired' \in SUBSET Sessions
    BY <1>0, <1>5 DEF ClearAgentSession, Pointer, Request
  <2> QED BY <1>0, <1>5, <2>1, StageStep DEF ClearAgentSession, Stages, SendingStages
<1>6. CASE Crash(r)
  BY <1>0, <1>6, StageStep DEF Crash, Stages, SendingStages
<1> QED
  BY <1>1, <1>2, <1>3, <1>4, <1>5, <1>6, ChatStep, ConsumeQuotaStep, ArchiveStep,
     SendMessageStep
  DEF Handle

LEMMA EnvironmentStep ==
    ASSUME TypeInv, (\E s \in Sessions : Expire(s)) \/ GoIdle
    PROVE  TypeInv' /\ (QuotaInv => QuotaInv')
<1>1. UNCHANGED <<day, quota, memory, req, unsent, allowed, late, retired>>
  BY DEF Expire, GoIdle
<1>2. pointer' \in Pointer /\ session' \in [Sessions -> Session]
  <2>0. pointer \in Pointer /\ session \in [Sessions -> Session]
    BY DEF TypeInv, TypeOK
  <2>1. ASSUME NEW s \in Sessions, Expire(s)
        PROVE  pointer' \in Pointer /\ session' \in [Sessions -> Session]
    BY <2>0, <2>1 DEF Expire, Session
  <2>2. CASE GoIdle
    BY <2>0, <2>2 DEF GoIdle, Pointer
  <2> QED BY <2>1, <2>2
<1> QED BY <1>1, <1>2 DEF TypeInv, TypeOK, Sending, QuotaInv

LEMMA MidnightStep ==
    ASSUME TypeInv, Midnight
    PROVE  TypeInv' /\ (QuotaInv => QuotaInv')
<1>1. /\ UNCHANGED <<quota, pointer, session, memory, req, unsent, allowed, late, retired>>
      /\ day' = day + 1 /\ day < MaxDay /\ day \in Days
  BY DEF Midnight, TypeInv, TypeOK
<1>2. TypeInv'
  BY <1>1, LimitsAreNumbers DEF TypeInv, TypeOK, Sending, Days
<1>3. QuotaInv => QuotaInv'
  BY <1>1, QuotaUntouched
<1> QED BY <1>2, <1>3

-----------------------------------------------------------------------------

\* Whatever interleaves, expires, fails or stops, every document and every
\* handler's record is of its declared type.
THEOREM TypeCorrect == Spec => []TypeOK
<1>1. Init => TypeInv
  BY NullRecords, LimitsAreNumbers
  DEF Init, TypeInv, TypeOK, Sending, SendingStages, Quota, Pointer, Session, Days, Never
<1>2. TypeInv /\ [Next]_vars => TypeInv'
  <2>1. TypeInv /\ UNCHANGED vars => TypeInv'
    BY DEF vars, TypeInv, TypeOK, Sending
  <2> QED BY <2>1, HandleStep, EnvironmentStep, MidnightStep DEF Next
<1>3. TypeInv => TypeOK
  BY DEF TypeInv
<1> QED BY <1>1, <1>2, <1>3, PTL DEF Spec

\* No day lets more messages through than the limit, and once more the limit for
\* each message that read its day before midnight and was counted after a message
\* of the next day, however many requests race and wherever midnight falls.
THEOREM QuotaSafe == Spec => []QuotaUnlessLate
<1>1. Init => TypeInv /\ QuotaInv
  BY NullRecords, LimitsAreNumbers
  DEF Init, TypeInv, TypeOK, Sending, SendingStages, Quota, Pointer, Session, Days,
      Never, QuotaInv
<1>2. TypeInv /\ QuotaInv /\ [Next]_vars => (TypeInv /\ QuotaInv)'
  <2>1. TypeInv /\ QuotaInv /\ UNCHANGED vars => (TypeInv /\ QuotaInv)'
    BY QuotaUntouched DEF vars, TypeInv, TypeOK, Sending
  <2> QED BY <2>1, HandleStep, EnvironmentStep, MidnightStep DEF Next
<1>3. TypeInv /\ QuotaInv => QuotaUnlessLate
  <2> DEFINE spent == DailyLimit * late
  <2> SUFFICES ASSUME TypeInv, QuotaInv, NEW d \in Days
               PROVE  allowed[d] <= DailyLimit * (1 + late)
    BY DEF QuotaUnlessLate
  <2>1. /\ spent \in Nat /\ DailyLimit \in Nat
        /\ DailyLimit * (1 + late) = spent + DailyLimit
    BY LimitsAreNumbers DEF TypeInv, TypeOK
  <2>2. quota.date \in Nat /\ quota.count \in Nat /\ allowed[d] \in Nat /\ d \in Nat
    BY LimitsAreNumbers DEF TypeInv, TypeOK, Quota, Days, Never
  <2>3. /\ quota.date = d => /\ quota.count <= DailyLimit
                             /\ allowed[d] <= spent + quota.count
        /\ quota.date # Never /\ d < quota.date => allowed[d] <= spent + DailyLimit
        /\ quota.date = Never \/ quota.date < d => allowed[d] <= spent
    BY DEF QuotaInv
  <2> HIDE DEF spent
  <2> QED BY <2>1, <2>2, <2>3
<1> QED BY <1>1, <1>2, <1>3, PTL DEF Spec

-----------------------------------------------------------------------------
(* Which session answers a message. *)

\* What a handler may become without writing into a transcript: it keeps its
\* message or lets it go, and the sessions it names are those it had, the
\* pointer's, or one just made.
Continues(r, q) ==
    /\ q \in Request /\ Put(r, q)
    /\ q.message = NoMessage \/ (q.message = req[r].message /\ ~At(r, "saving"))
    /\ q.pc = "idle" => q.message = NoMessage
    /\ q.known \in {NoSession, req[r].known, pointer.session}
    /\ \/ q.session \in {NoSession, req[r].session, pointer.session}
       \/ q.session \in Sessions /\ session[q.session].state = "unmade"
    /\ q.session # NoSession => session'[q.session].state # "unmade"
    /\ q.pc = "checking" => q.session = q.known
    /\ q.pc \in {"checking", "streaming"} => q.session # NoSession
    /\ q.pc = "streaming" =>
          q.session = q.known \/ session[q.session].state = "unmade"
    /\ q.pc # "saving"

\* The transcripts stay as they are, and no session is unmade.
SameTurns ==
    /\ session' \in [Sessions -> Session]
    /\ \A s \in Sessions :
          /\ session'[s].turns = session[s].turns
          /\ session'[s].state = "unmade" => session[s].state = "unmade"

LEMMA SessionsContinue ==
    ASSUME TypeInv, SessionsInv, NEW r \in Requests, NEW q, Continues(r, q),
           SameTurns, UNCHANGED unsent, pointer' \in Pointer,
           \/ pointer'.session \in {NoSession, pointer.session}
           \/ At(r, "saving") /\ pointer'.session = req[r].session /\ q = Idle
    PROVE  SessionsInv'
<1>1. /\ req' \in [Requests -> Request] /\ req'[r] = q
      /\ \A s \in Requests : s # r => req'[s] = req[s]
  BY HandlerTyped DEF TypeInv, Continues
<1>2. /\ pointer.session \in Sessions \cup {NoSession}
      /\ \A s \in Requests : /\ req[s].known \in Sessions \cup {NoSession}
                             /\ req[s].session \in Sessions \cup {NoSession}
  BY DEF TypeInv, TypeOK, Pointer, Request
<1>3. \A s \in Sessions : session[s].turns \subseteq Messages
  BY DEF TypeInv, TypeOK, Session
<1>4. OneHandlerEach'
  BY <1>1, <1>3, NullsAreOutside
  DEF SessionsInv, OneHandlerEach, Continues, SameTurns, At, TypeInv, TypeOK
<1>5. At(r, "saving") => Started(req[r].session)
  BY <1>2 DEF SessionsInv, SessionsMade, CreatorsAlone, Creator, NewSession, Started, At
<1>6. Started(pointer.session)'
  BY <1>2, <1>5 DEF SessionsInv, SessionsMade, Started, SameTurns
<1>7. SessionsMade'
  BY <1>1, <1>2, <1>6 DEF SessionsInv, SessionsMade, Started, Continues, SameTurns, At
<1>8. CreatorsAlone'
  <2> SUFFICES ASSUME NEW c \in Requests, Creator(c)'
               PROVE  /\ At(c, "streaming")' => session'[req'[c].session].turns = {}
                      /\ At(c, "saving")' =>
                            session'[req'[c].session].turns = {req'[c].message}
                      /\ pointer'.session # req'[c].session
                      /\ \A p \in Requests : p # c =>
                            /\ req'[p].session # req'[c].session
                            /\ req'[p].known # req'[c].session
    BY DEF CreatorsAlone
  <2>1. CASE c = r
    BY <1>1, <1>2, <2>1, NullsAreOutside
    DEF SessionsInv, SessionsMade, Started, Continues, SameTurns, Creator, NewSession, At, Idle
  <2>2. CASE c # r
    <3>1. /\ Creator(c) /\ req'[c] = req[c] /\ req[c].session \in Sessions
          /\ session[req[c].session].state # "unmade"
      BY <1>1, <1>2, <2>2 DEF SessionsInv, SessionsMade, Creator, NewSession
    <3>2. /\ At(c, "streaming") => session[req[c].session].turns = {}
          /\ At(c, "saving") => session[req[c].session].turns = {req[c].message}
          /\ pointer.session # req[c].session
          /\ \A p \in Requests : p # c =>
                req[p].session # req[c].session /\ req[p].known # req[c].session
      BY <3>1 DEF SessionsInv, CreatorsAlone
    <3>3. pointer'.session # req[c].session
      BY <2>2, <3>1, <3>2, NullsAreOutside
    <3>4. q.session # req[c].session /\ q.known # req[c].session
      BY <2>2, <3>1, <3>2, NullsAreOutside DEF Continues
    <3> QED
      BY <1>1, <3>1, <3>2, <3>3, <3>4 DEF SameTurns, At
  <2> QED BY <2>1, <2>2
<1> QED BY <1>4, <1>7, <1>8 DEF SessionsInv

\* A message written into the transcript of the session that answers it.
LEMMA SessionsWritten ==
    ASSUME TypeInv, SessionsInv, NEW r \in Requests, At(r, "streaming"),
           Move(r, "saving") \/ Return(r),
           session' = [session EXCEPT
                         ![req[r].session].turns = @ \cup {req[r].message}],
           UNCHANGED <<pointer, unsent>>
    PROVE  SessionsInv'
<1> DEFINE m == req[r].message
           s == req[r].session
<1>1. /\ m \in Messages /\ m \notin unsent
      /\ s \in Sessions
      /\ \A t \in Sessions : m \notin session[t].turns
  BY DEF TypeInv, TypeOK, Request, Sending, SendingStages, SessionsInv, SessionsMade,
         OneHandlerEach, At
<1>2. /\ session' \in [Sessions -> Session]
      /\ session'[s].turns = session[s].turns \cup {m}
      /\ \A t \in Sessions : /\ session'[t].state = session[t].state
                             /\ t # s => session'[t].turns = session[t].turns
  BY <1>1 DEF TypeInv, TypeOK, Session
<1>3. /\ \A q \in Requests : q # r => req'[q] = req[q]
      /\ \/ req'[r] = Idle
         \/ /\ req'[r].pc = "saving" /\ req'[r].message = m
            /\ req'[r].session = s /\ req'[r].known = req[r].known
  BY DEF Move, Return, Put, TypeInv, TypeOK, Request
<1>4. \A q \in Requests : q # r => req[q].message # m
  BY <1>1, NullsAreOutside DEF SessionsInv, OneHandlerEach
<1>5. /\ pointer.session \in Sessions \cup {NoSession}
      /\ \A q \in Requests : /\ req[q].known \in Sessions \cup {NoSession}
                             /\ req[q].session \in Sessions \cup {NoSession}
  BY DEF TypeInv, TypeOK, Pointer, Request
<1>6. session[s].state # "unmade"
  BY <1>1, NullsAreOutside DEF SessionsInv, SessionsMade
<1>7. OneHandlerEach'
  <2>1. NoMessage \notin unsent /\ \A t \in Sessions : NoMessage \notin session'[t].turns
    BY <1>2, NullsAreOutside DEF Session, TypeInv, TypeOK
  <2> QED
    BY <1>1, <1>2, <1>3, <1>4, <2>1 DEF SessionsInv, OneHandlerEach, At, Idle
<1>8. SessionsMade'
  <2>1. \A t \in Sessions : session'[t].state = "unmade" => session'[t].turns = {}
    BY <1>1, <1>2, <1>6 DEF SessionsInv, SessionsMade
  <2>2. \A t \in Sessions \cup {NoSession} : Started(t) => Started(t)'
    BY <1>1, <1>2 DEF Started
  <2>3. Started(pointer.session)'
    BY <1>5, <2>2 DEF SessionsInv, SessionsMade
  <2>4. ASSUME NEW c \in Requests
        PROVE  /\ Started(req[c].known)'
               /\ req'[c].session # NoSession => session'[req'[c].session].state # "unmade"
               /\ At(c, "checking")' => req'[c].session = req'[c].known
               /\ req'[c].pc \in {"checking", "streaming", "saving"} =>
                     req'[c].session # NoSession
    BY <1>1, <1>2, <1>3, <1>5, <1>6, <2>2, NullsAreOutside
    DEF SessionsInv, SessionsMade, Started, At, Idle
  <2>5. ASSUME NEW c \in Requests, At(c, "saving")', ~NewSession(req'[c])
        PROVE  session'[req'[c].session].turns # {req'[c].message}
    <3>1. CASE c = r
      <4>1. req'[c].message = m /\ req'[c].session = s /\ req[r].known = s
        BY <1>3, <2>5, <3>1 DEF At, NewSession, Idle
      <4>2. session[s].turns # {} /\ m \notin session[s].turns
        BY <1>1, <4>1, NullsAreOutside DEF SessionsInv, SessionsMade, Started
      <4> QED BY <1>2, <4>1, <4>2
    <3>2. CASE c # r
      <4>1. /\ req'[c] = req[c] /\ req[c].message # m /\ req[c].session \in Sessions
            /\ session[req[c].session].turns # {req[c].message}
        BY <1>3, <1>4, <1>5, <2>5, <3>2 DEF SessionsInv, SessionsMade, At
      <4> QED BY <1>2, <4>1
    <3> QED BY <3>1, <3>2
  <2> QED BY <2>1, <2>3, <2>4, <2>5 DEF SessionsMade
<1>9. CreatorsAlone'
  <2> SUFFICES ASSUME NEW c \in Requests, Creator(c)'
               PROVE  /\ At(c, "streaming")' => session'[req'[c].session].turns = {}
                      /\ At(c, "saving")' =>
                            session'[req'[c].session].turns = {req'[c].message}
                      /\ pointer'.session # req'[c].session
                      /\ \A p \in Requests : p # c =>
                            /\ req'[p].session # req'[c].session
                            /\ req'[p].known # req'[c].session
    BY DEF CreatorsAlone
  <2>1. CASE c = r
    BY <1>1, <1>2, <1>3, <2>1, NullsAreOutside
    DEF SessionsInv, CreatorsAlone, Creator, NewSession, At, Idle
  <2>2. CASE c # r
    <3>1. Creator(c) /\ req'[c] = req[c] /\ req[c].session # s
      BY <1>3, <2>2 DEF Creator, NewSession, SessionsInv, CreatorsAlone
    <3>2. req[c].session \in Sessions
      BY <1>5, <3>1 DEF Creator, SessionsInv, SessionsMade
    <3> QED
      BY <1>1, <1>2, <1>3, <2>2, <3>1, <3>2, NullsAreOutside
      DEF SessionsInv, CreatorsAlone, At, Idle
  <2> QED BY <2>1, <2>2
<1> QED BY <1>7, <1>8, <1>9 DEF SessionsInv

\* A handler that only moves to a stage where it neither checks, streams nor
\* saves, or lets everything go.
LEMMA StageContinues ==
    ASSUME TypeInv, SessionsInv, NEW r \in Requests, SameTurns, UNCHANGED unsent,
           \/ Return(r)
           \/ \E stage \in Stages \ {"idle", "checking", "streaming", "saving"} :
                 Move(r, stage) /\ ~At(r, "saving"),
           pointer' \in Pointer,
           pointer'.session \in {NoSession, pointer.session}
    PROVE  SessionsInv'
<1>1. CASE Return(r)
  <2>1. Continues(r, Idle)
    BY <1>1, NullRecords DEF Continues, Idle, Return
  <2> QED BY <2>1, SessionsContinue
<1>2. ASSUME NEW stage \in Stages \ {"idle", "checking", "streaming", "saving"},
             Move(r, stage), ~At(r, "saving")
      PROVE  SessionsInv'
  <2> DEFINE q == [req[r] EXCEPT !.pc = stage]
  <2>1. /\ q \in Request /\ q.pc = stage /\ q.message = req[r].message
        /\ q.known = req[r].known /\ q.session = req[r].session
    BY DEF TypeInv, TypeOK, Request
  <2>2. Put(r, q)
    BY <1>2 DEF Move
  <2> HIDE DEF q
  <2>3. q.session \in Sessions \cup {NoSession}
    BY <2>1 DEF Request
  <2>4. q.session # NoSession => session'[q.session].state # "unmade"
    BY <2>1, <2>3 DEF SessionsInv, SessionsMade, SameTurns
  <2>5. Continues(r, q)
    BY <1>2, <2>1, <2>2, <2>4 DEF Continues
  <2> QED BY <2>5, SessionsContinue
<1> QED BY <1>1, <1>2

LEMMA SessionsArchive ==
    ASSUME TypeInv, SessionsInv, NEW r \in Requests, Archive(r)
    PROVE  SessionsInv'
<1>0. /\ UNCHANGED <<pointer, unsent>> /\ pointer \in Pointer
      /\ session \in [Sessions -> Session] /\ req[r] \in Request
  BY DEF Archive, ArchiveFetch, ArchiveFlush, ArchiveDelete, TypeInv, TypeOK
<1>1. SameTurns /\ ~At(r, "saving")
  BY <1>0 DEF Archive, ArchiveFetch, ArchiveFlush, ArchiveDelete, SameTurns, Session, At
<1>2. ASSUME Archived(r) PROVE SessionsInv'
  <2> DEFINE q == [req[r] EXCEPT !.pc = "creating", !.known = NoSession,
                                 !.session = NoSession, !.fetched = {}]
  <2>1. /\ q \in Request /\ q.pc = "creating" /\ q.message = req[r].message
        /\ q.known = NoSession /\ q.session = NoSession
    BY <1>0 DEF Request, Stages
  <2>2. Move(r, "clearing") \/ Put(r, q)
    BY <1>2 DEF Archived, Move
  <2> HIDE DEF q
  <2>3. CASE Move(r, "clearing")
    BY <1>0, <1>1, <2>3, StageContinues DEF Stages
  <2>4. CASE Put(r, q)
    <3>1. Continues(r, q)
      BY <1>1, <2>1, <2>4 DEF Continues
    <3> QED BY <1>0, <1>1, <3>1, SessionsContinue
  <2> QED BY <2>2, <2>3, <2>4
<1>3. CASE ArchiveFetch(r)
  <2> DEFINE q == [req[r] EXCEPT !.pc = "flushing",
                                 !.fetched = session[req[r].session].turns]
  <2>1. CASE Live(req[r].session)
    <3>1. req[r].session \in Sessions
      BY <1>0, <2>1 DEF Live, Request
    <3>2. session[req[r].session].turns \in SUBSET Messages
      BY <1>0, <3>1 DEF Session
    <3>3. /\ q \in Request /\ q.pc = "flushing" /\ q.message = req[r].message
          /\ q.known = req[r].known /\ q.session = req[r].session
      BY <1>0, <3>2 DEF Request, Stages
    <3>4. Put(r, q)
      BY <1>3, <2>1 DEF ArchiveFetch
    <3> HIDE DEF q
    <3>5. session'[q.session].state # "unmade"
      BY <1>1, <2>1, <3>1, <3>3 DEF SameTurns, Live
    <3>6. Continues(r, q)
      BY <1>1, <3>3, <3>4, <3>5 DEF Continues
    <3> QED BY <1>0, <1>1, <3>6, SessionsContinue
  <2> QED BY <1>2, <1>3, <2>1 DEF ArchiveFetch
<1>4. CASE ArchiveFlush(r)
  BY <1>0, <1>1, <1>4, StageContinues DEF ArchiveFlush, Stages
<1>5. CASE ArchiveDelete(r)
  BY <1>2, <1>5 DEF ArchiveDelete
<1> QED BY <1>3, <1>4, <1>5 DEF Archive

LEMMA SessionsSend ==
    ASSUME TypeInv, SessionsInv, NEW r \in Requests, SendMessage(r)
    PROVE  SessionsInv'
<1>0. /\ UNCHANGED <<pointer, unsent>> /\ pointer \in Pointer
      /\ session \in [Sessions -> Session] /\ req[r] \in Request
      /\ ~At(r, "saving")
  BY DEF SendMessage, CheckSession, CreateSession, Stream, StreamFails, TypeInv, TypeOK, At
<1>1. CASE CheckSession(r)
  <2> DEFINE p == [req[r] EXCEPT !.pc = "streaming"]
             q == [req[r] EXCEPT !.pc = "creating", !.session = NoSession]
  <2>1. /\ p \in Request /\ p.pc = "streaming" /\ p.message = req[r].message
        /\ p.known = req[r].known /\ p.session = req[r].session
        /\ q \in Request /\ q.pc = "creating" /\ q.message = req[r].message
        /\ q.known = req[r].known /\ q.session = NoSession
    BY <1>0 DEF Request, Stages
  <2>2. SameTurns /\ (Put(r, p) \/ Put(r, q))
    BY <1>0, <1>1 DEF CheckSession, Move, SameTurns
  <2>3. /\ req[r].session = req[r].known /\ req[r].session # NoSession
        /\ session[req[r].session].state # "unmade"
    BY <1>1 DEF CheckSession, SessionsInv, SessionsMade, At
  <2> HIDE DEF p, q
  <2>4. Continues(r, p) \/ Continues(r, q)
    BY <1>0, <1>1, <2>1, <2>2, <2>3 DEF Continues, CheckSession
  <2> QED BY <1>0, <2>2, <2>4, SessionsContinue
<1>2. ASSUME NEW s \in Sessions, CreateSession(r, s) PROVE SessionsInv'
  <2> DEFINE q == [req[r] EXCEPT !.pc = "streaming", !.session = s]
  <2>1. /\ q \in Request /\ q.pc = "streaming" /\ q.message = req[r].message
        /\ q.known = req[r].known /\ q.session = s
    BY <1>0 DEF Request, Stages
  <2>2. /\ SameTurns /\ Put(r, q) /\ session[s].state = "unmade"
        /\ session'[s].state # "unmade"
    BY <1>0, <1>2 DEF CreateSession, SameTurns, Session
  <2> HIDE DEF q
  <2>3. Continues(r, q)
    BY <1>0, <2>1, <2>2, NullsAreOutside DEF Continues
  <2> QED BY <1>0, <2>2, <2>3, SessionsContinue
<1>3. CASE Stream(r)
  BY <1>3, SessionsWritten DEF Stream
<1>4. CASE StreamFails(r)
  <2>1. CASE UNCHANGED session
    BY <1>0, <1>4, <2>1, StageContinues DEF StreamFails, SameTurns
  <2> QED BY <1>4, <2>1, SessionsWritten DEF StreamFails
<1> QED BY <1>1, <1>2, <1>3, <1>4 DEF SendMessage

LEMMA SessionsHandle ==
    ASSUME TypeInv, SessionsInv, NEW r \in Requests, Handle(r)
    PROVE  SessionsInv'
<1>0. /\ pointer \in Pointer /\ session \in [Sessions -> Session]
      /\ req[r] \in Request
  BY DEF TypeInv, TypeOK
<1>1. ASSUME NEW m \in Messages, Chat(r, m) PROVE SessionsInv'
  <2> DEFINE q == [Idle EXCEPT !.pc = "quota", !.message = m, !.today = day,
                               !.stale = retired]
  <2>1. /\ q \in Request /\ q.pc = "quota" /\ q.message = m
        /\ q.known = NoSession /\ q.session = NoSession
    BY NullRecords DEF TypeInv, TypeOK, Request, Stages, Idle
  <2>2. /\ Put(r, q) /\ UNCHANGED <<pointer, session>> /\ m \in unsent
        /\ unsent' = unsent \ {m}
    BY <1>1 DEF Chat
  <2> HIDE DEF q
  <2>3. /\ req'[r] = q
        /\ \A s \in Requests : s # r => req'[s] = req[s]
    BY <2>1, <2>2, HandlerTyped DEF TypeInv
  <2>4. OneHandlerEach'
    BY <2>1, <2>2, <2>3, NullsAreOutside DEF SessionsInv, OneHandlerEach, At
  <2>5. SessionsMade'
    BY <2>1, <2>2, <2>3 DEF SessionsInv, SessionsMade, Started, At
  <2>6. CreatorsAlone'
    <3>1. \A c \in Requests : Creator(c)' =>
             c # r /\ Creator(c) /\ req[c].session # NoSession
      BY <2>1, <2>3 DEF Creator, NewSession, SessionsInv, SessionsMade
    <3> QED BY <2>1, <2>2, <2>3, <3>1 DEF SessionsInv, CreatorsAlone, At
  <2> QED BY <2>4, <2>5, <2>6 DEF SessionsInv
<1>2. CASE ConsumeQuota(r)
  BY <1>0, <1>2, StageContinues DEF ConsumeQuota, SameTurns, Stages, At
<1>3. CASE ResolveSession(r)
  <2> DEFINE q == [req[r] EXCEPT
                     !.known = pointer.session,
                     !.session = pointer.session,
                     !.pc = IF pointer.session = NoSession THEN "creating"
                            ELSE IF pointer.idle THEN "fetching" ELSE "checking"]
  <2>1. /\ q \in Request /\ q.message = req[r].message
        /\ q.pc \in {"creating", "fetching", "checking"}
        /\ q.pc = "checking" => q.session # NoSession
        /\ q.known = pointer.session /\ q.session = pointer.session
    BY <1>0 DEF Request, Stages, Pointer
  <2>2. /\ Put(r, q) /\ UNCHANGED <<pointer, session, unsent>> /\ ~At(r, "saving")
    BY <1>3 DEF ResolveSession, At
  <2> HIDE DEF q
  <2>3. q.session # NoSession => session'[q.session].state # "unmade"
    BY <1>0, <2>1, <2>2 DEF SessionsInv, SessionsMade, Started, Pointer
  <2>4. Continues(r, q)
    BY <2>1, <2>2, <2>3 DEF Continues
  <2> QED BY <1>0, <2>2, <2>4, SessionsContinue DEF SameTurns
<1>4. CASE SetAgentSession(r)
  <2>1. pointer' \in Pointer /\ pointer'.session = req[r].session
    BY <1>0, <1>4 DEF SetAgentSession, Pointer, Request
  <2>2. Continues(r, Idle)
    BY <1>4, NullRecords DEF Continues, SetAgentSession, Return, Idle
  <2> QED BY <1>0, <1>4, <2>1, <2>2, SessionsContinue DEF SetAgentSession, SameTurns
<1>5. CASE Reset(r)
  BY <1>0, <1>5, StageContinues DEF Reset, SameTurns, Stages, At
<1>6. CASE ResetRead(r)
  <2> DEFINE q == [req[r] EXCEPT
                     !.session = pointer.session,
                     !.pc = IF pointer.session = NoSession THEN "clearing"
                            ELSE "fetching"]
  <2>1. /\ q \in Request /\ q.message = req[r].message
        /\ q.pc \in {"clearing", "fetching"}
        /\ q.known = req[r].known /\ q.session = pointer.session
    BY <1>0 DEF Request, Stages, Pointer
  <2>2. /\ Put(r, q) /\ UNCHANGED <<pointer, session, unsent>> /\ ~At(r, "saving")
    BY <1>6 DEF ResetRead, At
  <2> HIDE DEF q
  <2>3. q.session # NoSession => session'[q.session].state # "unmade"
    BY <1>0, <2>1, <2>2 DEF SessionsInv, SessionsMade, Started, Pointer
  <2>4. Continues(r, q)
    BY <2>1, <2>2, <2>3 DEF Continues
  <2> QED BY <1>0, <2>2, <2>4, SessionsContinue DEF SameTurns
<1>7. CASE ClearAgentSession(r)
  <2>1. pointer' \in Pointer /\ pointer'.session = NoSession
    BY <1>7 DEF ClearAgentSession, Pointer
  <2> QED BY <1>0, <1>7, <2>1, StageContinues DEF ClearAgentSession, SameTurns
<1>8. CASE Crash(r)
  BY <1>0, <1>8, StageContinues DEF Crash, SameTurns
<1> QED
  BY <1>1, <1>2, <1>3, <1>4, <1>5, <1>6, <1>7, <1>8, SessionsArchive, SessionsSend
  DEF Handle

\* The sessions follow from no one but the handlers: time and Agent Engine
\* change nothing of what is known of them.
LEMMA SessionsRest ==
    ASSUME TypeInv, SessionsInv, GoIdle \/ Midnight \/ (\E s \in Sessions : Expire(s))
    PROVE  SessionsInv'
<1>1. UNCHANGED <<req, unsent>> /\ pointer'.session = pointer.session
  BY DEF GoIdle, Midnight, Expire, TypeInv, TypeOK, Pointer
<1>2. SameTurns
  BY DEF GoIdle, Midnight, Expire, TypeInv, TypeOK, Session, SameTurns
<1>3. pointer.session \in Sessions \cup {NoSession}
      /\ \A r \in Requests : /\ req[r].known \in Sessions \cup {NoSession}
                             /\ req[r].session \in Sessions \cup {NoSession}
  BY DEF TypeInv, TypeOK, Pointer, Request
<1>4. OneHandlerEach'
  BY <1>1, <1>2 DEF SessionsInv, OneHandlerEach, SameTurns, At
<1>5. SessionsMade'
  BY <1>1, <1>2, <1>3 DEF SessionsInv, SessionsMade, Started, SameTurns, At
<1>6. CreatorsAlone'
  <2>1. \A r \in Requests : Creator(r)' => Creator(r) /\ req[r].session \in Sessions
    BY <1>1, <1>3 DEF Creator, NewSession, SessionsInv, SessionsMade
  <2> QED BY <1>1, <1>2, <2>1 DEF SessionsInv, CreatorsAlone, SameTurns, At
<1> QED BY <1>4, <1>5, <1>6 DEF SessionsInv

\* Which messages are where, and which sessions are whose, at every moment.
LEMMA SessionsInvariant == Spec => [](TypeInv /\ SessionsInv)
<1>1. Init => TypeInv /\ SessionsInv
  BY NullRecords, NullsAreOutside, LimitsAreNumbers
  DEF Init, TypeInv, TypeOK, Sending, SendingStages, Quota, Pointer, Session, Days, Never,
      SessionsInv, OneHandlerEach, SessionsMade, Started, CreatorsAlone, Creator, At, Idle
<1>2. TypeInv /\ SessionsInv /\ [Next]_vars => (TypeInv /\ SessionsInv)'
  <2>1. TypeInv /\ SessionsInv /\ UNCHANGED vars => (TypeInv /\ SessionsInv)'
    <3>1. TypeInv /\ UNCHANGED vars => TypeInv'
      BY DEF vars, TypeInv, TypeOK, Sending
    <3>2. SessionsInv /\ UNCHANGED vars => SessionsInv'
      BY DEF vars, SessionsInv, OneHandlerEach, SessionsMade, Started, CreatorsAlone,
             Creator, NewSession, At
    <3> QED BY <3>1, <3>2
  <2> QED
    BY <2>1, HandleStep, EnvironmentStep, MidnightStep, SessionsHandle, SessionsRest
    DEF Next
<1> QED BY <1>1, <1>2, PTL DEF Spec

\* What the app is told of a new session is true of the transcript that
\* answered, whoever else chats, resets, fails or stops in between.
THEOREM NewSessionIsTrue == Spec => []NewSessionIsNew
<1>1. TypeInv /\ SessionsInv => NewSessionIsNew
  <2> SUFFICES ASSUME TypeInv, SessionsInv, NEW r \in Requests, At(r, "saving")
               PROVE  NewSession(req[r]) <=>
                         session[req[r].session].turns = {req[r].message}
    BY DEF NewSessionIsNew
  <2>1. CASE NewSession(req[r])
    BY <2>1 DEF SessionsInv, CreatorsAlone, Creator, At
  <2>2. CASE ~NewSession(req[r])
    BY <2>2 DEF SessionsInv, SessionsMade
  <2> QED BY <2>1, <2>2
<1> QED BY <1>1, SessionsInvariant, PTL

-----------------------------------------------------------------------------
(* What a reset has retired. *)

\* Agent Engine brings no session back.
LEMMA DeadStays ==
    ASSUME TypeInv, SessionsInv, [Next]_vars, NEW s \in Sessions,
           session[s].state \notin {"live", "unmade"}
    PROVE  session'[s].state \notin {"live", "unmade"}
<1>0. session \in [Sessions -> Session]
  BY DEF TypeInv, TypeOK
<1>1. ASSUME NEW r \in Requests, Handle(r)
      PROVE  session'[s].state \notin {"live", "unmade"}
  <2>1. CASE \E t \in Sessions : CreateSession(r, t)
    BY <1>0, <2>1 DEF CreateSession, Session
  <2>2. CASE ArchiveDelete(r)
    BY <1>0, <2>2 DEF ArchiveDelete, Session
  <2>3. CASE Stream(r) \/ StreamFails(r)
    BY <1>0, <2>3 DEF Stream, StreamFails, Session
  <2> QED
    BY <1>1, <2>1, <2>2, <2>3
    DEF Handle, Chat, ConsumeQuota, ResolveSession, Archive, ArchiveFetch, ArchiveFlush,
        SendMessage, CheckSession, SetAgentSession, Reset, ResetRead,
        ClearAgentSession, Crash
<1>2. ASSUME NEW t \in Sessions, Expire(t)
      PROVE  session'[s].state \notin {"live", "unmade"}
  BY <1>0, <1>2 DEF Expire
<1> QED BY <1>1, <1>2 DEF Next, GoIdle, Midnight, vars

\* A handler's step that retires only what is dead, and answers from nothing
\* that was retired before its request.
LEMMA RetiredFollows ==
    ASSUME TypeInv, SessionsInv, RetiredAreDead, [Next]_vars, gone,
           NEW r \in Requests, NEW q \in Request, Put(r, q),
           retired \subseteq retired', retired' \in SUBSET Sessions,
           \A s \in retired' \ retired : session'[s].state \notin {"live", "unmade"},
           q.stale \subseteq retired',
           q.pc = "clearing" =>
              q.session = NoSession \/ session'[q.session].state # "live",
           q.pc = "saving" => q.session \notin q.stale
    PROVE  RetiredAreDead'
<1>1. /\ req' \in [Requests -> Request] /\ req'[r] = q
      /\ \A s \in Requests : s # r => req'[s] = req[s]
  BY HandlerTyped DEF TypeInv
<1>2. \A s \in retired' : ~Live(s)' /\ session'[s].state # "unmade"
  BY DeadStays, NullsAreOutside DEF RetiredAreDead, Live, TypeInv, TypeOK
<1>3. ASSUME NEW c \in Requests
      PROVE  /\ req'[c].stale \subseteq retired'
             /\ At(c, "clearing")' => ~Live(req[c].session)'
             /\ At(c, "saving")' => req'[c].session \notin req'[c].stale
  <2>1. CASE c = r
    BY <1>1, <2>1 DEF At, Live
  <2>2. CASE c # r
    <3>1. /\ req'[c] = req[c] /\ req[c].session \in Sessions \cup {NoSession}
          /\ req[c].session # NoSession => session[req[c].session].state # "unmade"
      BY <1>1, <2>2 DEF TypeInv, TypeOK, Request, SessionsInv, SessionsMade
    <3>2. At(c, "clearing") => ~Live(req[c].session)'
      BY <3>1, DeadStays DEF RetiredAreDead, Live
    <3> QED BY <3>1, <3>2 DEF RetiredAreDead, At, Live
  <2> QED BY <2>1, <2>2
<1> QED BY <1>2, <1>3 DEF RetiredAreDead

LEMMA RetiredHandle ==
    ASSUME TypeInv, SessionsInv, RetiredAreDead, NEW r \in Requests, Handle(r), gone,
           ~DeleteFailed(r)
    PROVE  RetiredAreDead'
<1>0. /\ req[r] \in Request /\ [Next]_vars /\ retired \in SUBSET Sessions
      /\ session \in [Sessions -> Session]
      /\ req[r].stale \subseteq retired
      /\ At(r, "saving") => req[r].session \notin req[r].stale
      /\ req[r].session \in Sessions \cup {NoSession}
      /\ req[r].session # NoSession => session[req[r].session].state # "unmade"
  BY DEF TypeInv, TypeOK, Next, RetiredAreDead, Request, SessionsInv, SessionsMade
<1>1. ASSUME UNCHANGED retired,
             NEW stage \in Stages \ {"clearing", "saving"}, Move(r, stage)
      PROVE  RetiredAreDead'
  <2> DEFINE q == [req[r] EXCEPT !.pc = stage]
  <2>1. q \in Request /\ q.pc = stage /\ q.stale = req[r].stale
    BY <1>0 DEF Request
  <2>2. Put(r, q)
    BY <1>1 DEF Move
  <2> HIDE DEF q
  <2> QED BY <1>0, <1>1, <2>1, <2>2, RetiredFollows
<1>2. ASSUME retired \subseteq retired', retired' \in SUBSET Sessions, Return(r),
             \A s \in retired' \ retired : session'[s].state \notin {"live", "unmade"}
      PROVE  RetiredAreDead'
  <2>1. Idle \in Request /\ Idle.pc = "idle" /\ Idle.stale = {}
    BY NullRecords DEF Idle
  <2> QED BY <1>0, <1>2, <2>1, RetiredFollows DEF Return
<1>3. ASSUME NEW m \in Messages, Chat(r, m) PROVE RetiredAreDead'
  <2> DEFINE q == [Idle EXCEPT !.pc = "quota", !.message = m, !.today = day,
                               !.stale = retired]
  <2>1. q \in Request /\ q.pc = "quota" /\ q.stale = retired
    BY NullRecords DEF TypeInv, TypeOK, Request, Stages, Idle
  <2>2. Put(r, q) /\ UNCHANGED retired
    BY <1>3 DEF Chat
  <2> HIDE DEF q
  <2> QED BY <1>0, <2>1, <2>2, RetiredFollows
<1>4. CASE ConsumeQuota(r)
  BY <1>0, <1>1, <1>2, <1>4 DEF ConsumeQuota, Stages
<1>5. CASE ResolveSession(r)
  <2> DEFINE q == [req[r] EXCEPT
                     !.known = pointer.session,
                     !.session = pointer.session,
                     !.pc = IF pointer.session = NoSession THEN "creating"
                            ELSE IF pointer.idle THEN "fetching" ELSE "checking"]
  <2>1. /\ q \in Request /\ q.stale = req[r].stale
        /\ q.pc \in {"creating", "fetching", "checking"}
    BY <1>0 DEF Request, Stages, Pointer, TypeInv, TypeOK
  <2>2. Put(r, q) /\ UNCHANGED retired
    BY <1>5 DEF ResolveSession
  <2> HIDE DEF q
  <2> QED BY <1>0, <2>1, <2>2, RetiredFollows
<1>6. ASSUME UNCHANGED retired, Archived(r),
             req[r].session = NoSession \/ session'[req[r].session].state # "live"
      PROVE  RetiredAreDead'
  <2> DEFINE q == [req[r] EXCEPT !.pc = "creating", !.known = NoSession,
                                 !.session = NoSession, !.fetched = {}]
             p == [req[r] EXCEPT !.pc = "clearing"]
  <2>1. /\ q \in Request /\ q.pc = "creating" /\ q.stale = req[r].stale
        /\ p \in Request /\ p.pc = "clearing" /\ p.stale = req[r].stale
        /\ p.session = req[r].session
    BY <1>0 DEF Request, Stages
  <2>2. Put(r, p) \/ Put(r, q)
    BY <1>6 DEF Archived
  <2> HIDE DEF q, p
  <2> QED BY <1>0, <1>6, <2>1, <2>2, RetiredFollows
<1>7. CASE ArchiveFetch(r)
  <2> DEFINE q == [req[r] EXCEPT !.pc = "flushing",
                                 !.fetched = session[req[r].session].turns]
  <2>0. UNCHANGED <<retired, session>>
    BY <1>7 DEF ArchiveFetch
  <2>1. CASE Live(req[r].session)
    <3>1. session[req[r].session].turns \in SUBSET Messages
      BY <1>0, <2>1 DEF Session, Live
    <3>2. q \in Request /\ q.pc = "flushing" /\ q.stale = req[r].stale
      BY <1>0, <3>1 DEF Request, Stages
    <3>3. Put(r, q)
      BY <1>7, <2>1 DEF ArchiveFetch
    <3> HIDE DEF q
    <3> QED BY <1>0, <2>0, <3>2, <3>3, RetiredFollows
  <2>2. CASE ~Live(req[r].session)
    BY <1>6, <1>7, <2>0, <2>2 DEF ArchiveFetch, Live
  <2> QED BY <2>1, <2>2
<1>8. CASE ArchiveFlush(r)
  BY <1>1, <1>8 DEF ArchiveFlush, Stages
<1>9. CASE ArchiveDelete(r)
  <2>1. req'[r].pc \in {"creating", "clearing"}
    BY <1>0, <1>9 DEF ArchiveDelete, Archived, Put, Request, TypeInv, TypeOK
  <2>2. req[r].session = NoSession \/ session'[req[r].session].state # "live"
    <3>1. CASE UNCHANGED session
      BY <1>9, <2>1, <3>1 DEF ArchiveDelete, DeleteFailed, Live
    <3>2. CASE session' = [session EXCEPT ![req[r].session].state = "deleted"]
      BY <1>0, <3>2 DEF Session
    <3> QED BY <1>9, <3>1, <3>2 DEF ArchiveDelete
  <2> QED BY <1>6, <1>9, <2>2 DEF ArchiveDelete
<1>10. CASE CheckSession(r)
  <2> DEFINE q == [req[r] EXCEPT !.pc = "creating", !.session = NoSession]
  <2>1. q \in Request /\ q.pc = "creating" /\ q.stale = req[r].stale
    BY <1>0 DEF Request, Stages
  <2>2. UNCHANGED retired /\ (Move(r, "streaming") \/ Put(r, q))
    BY <1>10 DEF CheckSession
  <2> HIDE DEF q
  <2> QED BY <1>0, <1>1, <2>1, <2>2, RetiredFollows DEF Stages
<1>11. ASSUME NEW s \in Sessions, CreateSession(r, s) PROVE RetiredAreDead'
  <2> DEFINE q == [req[r] EXCEPT !.pc = "streaming", !.session = s]
  <2>1. q \in Request /\ q.pc = "streaming" /\ q.stale = req[r].stale
    BY <1>0 DEF Request, Stages
  <2>2. UNCHANGED retired /\ Put(r, q)
    BY <1>11 DEF CreateSession
  <2> HIDE DEF q
  <2> QED BY <1>0, <2>1, <2>2, RetiredFollows
<1>12. CASE Stream(r)
  <2> DEFINE q == [req[r] EXCEPT !.pc = "saving"]
  <2>1. /\ q \in Request /\ q.pc = "saving" /\ q.stale = req[r].stale
        /\ q.session = req[r].session
    BY <1>0 DEF Request, Stages
  <2>2. UNCHANGED retired /\ Put(r, q) /\ Live(req[r].session)
    BY <1>12 DEF Stream, Move
  <2>3. req[r].session \notin req[r].stale
    BY <1>0, <2>2 DEF RetiredAreDead
  <2> HIDE DEF q
  <2> QED BY <1>0, <2>1, <2>2, <2>3, RetiredFollows
<1>13. CASE StreamFails(r) \/ SetAgentSession(r) \/ Crash(r)
  BY <1>0, <1>2, <1>13 DEF StreamFails, SetAgentSession, Crash
<1>14. CASE Reset(r)
  BY <1>1, <1>14 DEF Reset, Stages
<1>15. CASE ResetRead(r)
  <2> DEFINE q == [req[r] EXCEPT
                     !.session = pointer.session,
                     !.pc = IF pointer.session = NoSession THEN "clearing"
                            ELSE "fetching"]
  <2>1. /\ q \in Request /\ q.stale = req[r].stale
        /\ q.pc \in {"clearing", "fetching"}
        /\ q.pc = "clearing" => q.session = NoSession
    BY <1>0 DEF Request, Stages, Pointer, TypeInv, TypeOK
  <2>2. Put(r, q) /\ UNCHANGED retired
    BY <1>15 DEF ResetRead
  <2> HIDE DEF q
  <2> QED BY <1>0, <2>1, <2>2, RetiredFollows
<1>16. CASE ClearAgentSession(r)
  <2>1. /\ retired' = retired \cup ({req[r].session} \ {NoSession})
        /\ Return(r) /\ UNCHANGED session /\ At(r, "clearing")
    BY <1>16 DEF ClearAgentSession
  <2>2. req[r].session # NoSession =>
           session[req[r].session].state \notin {"live", "unmade"}
    BY <1>0, <2>1 DEF RetiredAreDead, Live
  <2> QED BY <1>0, <1>2, <2>1, <2>2
<1> QED
  BY <1>3, <1>4, <1>5, <1>7, <1>8, <1>9, <1>10, <1>11, <1>12, <1>13, <1>14, <1>15, <1>16
  DEF Handle, Archive, SendMessage

\* The monitors calm and gone only watch.
LEMMA CalmRefinesSpec == CalmSpec => Spec
<1>1. CalmInit => Init
  BY DEF CalmInit
<1>2. [CalmNext]_<<vars, calm, gone>> => [Next]_vars
  BY DEF CalmNext
<1> QED BY <1>1, <1>2, PTL DEF CalmSpec, Spec

\* While every session that was to be deleted was, a message sent after a
\* reset was answered is never answered from what that reset retired: a slow
\* chat may put the pointer back, but a dead session only makes it start anew.
THEOREM ResetHolds == CalmSpec => []GoneResetStartsFresh
<1> DEFINE Inv == TypeInv /\ SessionsInv /\ RetiredAreDead
<1>1. CalmInit => RetiredAreDead
  BY DEF CalmInit, Init, RetiredAreDead, At, Idle
<1>2. Inv /\ [CalmNext]_<<vars, calm, gone>> => RetiredAreDead'
  <2> SUFFICES ASSUME Inv, [CalmNext]_<<vars, calm, gone>>, gone' PROVE RetiredAreDead'
    BY DEF RetiredAreDead
  <2>1. ASSUME NEW r \in Requests, Handle(r), CalmNext PROVE RetiredAreDead'
    BY <2>1, RetiredHandle DEF CalmNext
  <2>2. ASSUME [Next]_vars, UNCHANGED <<req, retired>>, gone PROVE RetiredAreDead'
    <3>1. \A s \in Sessions : session[s].state \notin {"live", "unmade"} =>
             session'[s].state \notin {"live", "unmade"}
      BY <2>2, DeadStays
    <3>2. /\ retired \in SUBSET Sessions
          /\ \A r \in Requests :
                /\ req[r].session \in Sessions \cup {NoSession}
                /\ req[r].session # NoSession => session[req[r].session].state # "unmade"
      BY DEF TypeInv, TypeOK, Request, SessionsInv, SessionsMade
    <3>3. \A s \in retired : ~Live(s)' /\ session'[s].state # "unmade"
      BY <2>2, <3>1, <3>2, NullsAreOutside DEF RetiredAreDead, Live
    <3>4. \A r \in Requests : At(r, "clearing") => ~Live(req[r].session)'
      BY <2>2, <3>1, <3>2 DEF RetiredAreDead, Live
    <3> QED BY <2>2, <3>3, <3>4 DEF RetiredAreDead, At
  <2>3. CASE (\E s \in Sessions : Expire(s)) \/ GoIdle \/ Midnight
    BY <2>2, <2>3 DEF Next, Expire, GoIdle, Midnight, CalmNext
  <2>4. CASE UNCHANGED <<vars, calm, gone>>
    BY <2>2, <2>4 DEF vars
  <2> QED BY <2>1, <2>3, <2>4 DEF CalmNext, Next
<1>3. RetiredAreDead => GoneResetStartsFresh
  BY DEF RetiredAreDead, GoneResetStartsFresh, ResetStartsFresh
<1>4. CalmSpec => [](TypeInv /\ SessionsInv)
  BY CalmRefinesSpec, SessionsInvariant, PTL
<1>5. CalmSpec => []RetiredAreDead
  BY <1>1, <1>2, <1>4, PTL DEF CalmSpec
<1> QED BY <1>3, <1>5, PTL

-----------------------------------------------------------------------------
(* What is remembered while requests come one at a time. *)

\* CalmHandler of the record q, in the state after the step.
CalmRecord(q) ==
    /\ q.pc \in {"checking", "fetching", "flushing", "deleting"} =>
          q.session = pointer'.session
    /\ q.pc \in {"flushing", "deleting"} =>
          q.session \in Sessions /\ q.fetched = session'[q.session].turns
    /\ q.pc = "deleting" => q.fetched \subseteq memory'
    /\ q.pc \in {"creating", "clearing"} => Flushed(pointer.session)'
    /\ q.pc \in {"streaming", "saving"} =>
          q.session = pointer'.session \/ Flushed(pointer.session)'
    /\ q.pc = "streaming" =>
          q.session = pointer'.session \/ session'[q.session].turns = {}

\* r is the one handler in flight, and what holds of it.
Alone(r) ==
    /\ ~At(r, "idle")
    /\ \A c \in Requests : c # r => At(c, "idle")
    /\ NothingLost
    /\ CalmHandler(r)
    /\ \A s \in Sessions :
          s = pointer.session \/ Flushed(s) \/ (At(r, "saving") /\ s = req[r].session)

\* What has to be shown of the step of the one handler in flight.
LEMMA CalmFollows ==
    ASSUME TypeInv, NEW r \in Requests, Alone(r), NEW q \in Request, Put(r, q),
           NothingLost', CalmRecord(q),
           \A s \in Sessions : \/ s = pointer'.session
                               \/ Flushed(s)'
                               \/ q.pc = "saving" /\ s = q.session
    PROVE  CalmInv'
<1>1. /\ req' \in [Requests -> Request] /\ req'[r] = q
      /\ \A c \in Requests : c # r => req'[c] = req[c]
  BY HandlerTyped DEF TypeInv
<1>2. \A s \in Sessions : Kept(s)'
  BY <1>1 DEF Kept, At
<1>3. CalmHandler(r)'
  BY <1>1 DEF CalmHandler, CalmRecord, At
<1>4. ASSUME NEW c \in Requests, c # r PROVE CalmHandler(c)'
  <2>1. req'[c].pc = "idle"
    BY <1>1, <1>4 DEF Alone, At
  <2> QED BY <2>1 DEF CalmHandler, At
<1> QED BY <1>2, <1>3, <1>4 DEF CalmInv

\* The same when documents, sessions and memory stay put.
LEMMA CalmStays ==
    ASSUME TypeInv, NEW r \in Requests, Alone(r), ~At(r, "saving"),
           NEW q \in Request, Put(r, q), CalmRecord(q),
           UNCHANGED <<pointer, session, memory>>
    PROVE  CalmInv'
<1>1. NothingLost'
  BY DEF Alone, NothingLost
<1>2. \A s \in Sessions : s = pointer'.session \/ Flushed(s)'
  BY DEF Alone, Flushed, Live
<1> QED BY <1>1, <1>2, CalmFollows

\* The archive is over, and what the pointer names needs it no more.
LEMMA CalmArchived ==
    ASSUME TypeInv, NEW r \in Requests, Alone(r), Archived(r),
           NothingLost', Flushed(pointer.session)',
           \A s \in Sessions : s = pointer'.session \/ Flushed(s)'
    PROVE  CalmInv'
<1> DEFINE q == [req[r] EXCEPT !.pc = "creating", !.known = NoSession,
                               !.session = NoSession, !.fetched = {}]
           p == [req[r] EXCEPT !.pc = "clearing"]
<1>1. /\ q \in Request /\ q.pc = "creating"
      /\ p \in Request /\ p.pc = "clearing"
  BY DEF TypeInv, TypeOK, Request, Stages
<1>2. Put(r, p) \/ Put(r, q)
  BY DEF Archived
<1> HIDE DEF q, p
<1>3. CalmRecord(p) /\ CalmRecord(q)
  BY <1>1 DEF CalmRecord
<1> QED BY <1>1, <1>2, <1>3, CalmFollows

LEMMA CalmArchive ==
    ASSUME TypeInv, NEW r \in Requests, Alone(r), Archive(r), ~FlushFailed(r)
    PROVE  CalmInv'
<1>0. /\ req[r] \in Request /\ session \in [Sessions -> Session]
      /\ ~At(r, "saving") /\ UNCHANGED pointer
      /\ memory \in SUBSET Messages
  BY DEF TypeInv, TypeOK, Archive, ArchiveFetch, ArchiveFlush, ArchiveDelete, At
<1>1. CASE ArchiveFetch(r)
  <2>0. /\ UNCHANGED <<pointer, session, memory>>
        /\ req[r].session = pointer.session
    BY <1>1 DEF ArchiveFetch, Alone, CalmHandler, At
  <2>1. CASE Live(req[r].session)
    <3> DEFINE q == [req[r] EXCEPT !.pc = "flushing",
                                   !.fetched = session[req[r].session].turns]
    <3>1. req[r].session \in Sessions
      BY <1>0, <2>1 DEF Live, Request
    <3>2. session[req[r].session].turns \in SUBSET Messages
      BY <1>0, <3>1 DEF Session
    <3>3. /\ q \in Request /\ q.pc = "flushing" /\ q.session = req[r].session
          /\ q.fetched = session[req[r].session].turns
      BY <1>0, <3>2 DEF Request, Stages
    <3>4. Put(r, q)
      BY <1>1, <2>1 DEF ArchiveFetch
    <3> HIDE DEF q
    <3>5. CalmRecord(q)
      BY <2>0, <3>1, <3>3 DEF CalmRecord
    <3> QED BY <1>0, <2>0, <3>3, <3>4, <3>5, CalmStays
  <2>2. CASE ~Live(req[r].session)
    <3>1. Archived(r)
      BY <1>1, <2>2 DEF ArchiveFetch
    <3>2. NothingLost' /\ Flushed(pointer.session)'
      BY <2>0, <2>2 DEF Alone, NothingLost, Flushed, Live
    <3>3. \A s \in Sessions : s = pointer'.session \/ Flushed(s)'
      BY <1>0, <2>0 DEF Alone, Flushed, Live
    <3> QED BY <3>1, <3>2, <3>3, CalmArchived
  <2> QED BY <2>1, <2>2
<1>2. CASE ArchiveFlush(r)
  <2> DEFINE q == [req[r] EXCEPT !.pc = "deleting"]
  <2>1. /\ q \in Request /\ q.pc = "deleting" /\ q.session = req[r].session
        /\ q.fetched = req[r].fetched
    BY <1>0 DEF Request, Stages
  <2>2. /\ Put(r, q) /\ UNCHANGED <<pointer, session>>
        /\ memory \subseteq memory' /\ At(r, "flushing")
    BY <1>2 DEF ArchiveFlush, Move
  <2>3. req'[r].pc = "deleting"
    BY <2>1, <2>2, HandlerTyped DEF TypeInv
  <2>4. req[r].fetched \subseteq memory'
    BY <2>2, <2>3 DEF FlushFailed
  <2> HIDE DEF q
  <2>5. CalmRecord(q)
    BY <2>1, <2>2, <2>4 DEF CalmRecord, Alone, CalmHandler, At
  <2>6. NothingLost'
    BY <2>2 DEF Alone, NothingLost
  <2>7. \A s \in Sessions : s = pointer'.session \/ Flushed(s)'
    BY <1>0, <2>2 DEF Alone, Flushed, Live
  <2> QED BY <2>1, <2>2, <2>5, <2>6, <2>7, CalmFollows
<1>3. CASE ArchiveDelete(r)
  <2>1. /\ Archived(r) /\ UNCHANGED memory
        /\ req[r].session = pointer.session /\ req[r].session \in Sessions
        /\ session[req[r].session].turns \subseteq memory
    BY <1>3 DEF ArchiveDelete, Alone, CalmHandler, At
  <2>2. \A s \in Sessions :
           /\ session'[s].turns = session[s].turns
           /\ \/ session'[s].state = session[s].state
              \/ s = req[r].session /\ session'[s].state = "deleted"
    BY <1>0, <1>3 DEF ArchiveDelete, Session
  <2>3. NothingLost'
    BY <2>1, <2>2 DEF Alone, NothingLost
  <2>4. Flushed(pointer.session)'
    BY <1>0, <2>1, <2>2 DEF Flushed, Live
  <2>5. \A s \in Sessions : s = pointer'.session \/ Flushed(s)'
    BY <1>0, <2>1, <2>2 DEF Alone, Flushed, Live
  <2> QED BY <2>1, <2>3, <2>4, <2>5, CalmArchived
<1> QED BY <1>1, <1>2, <1>3 DEF Archive

LEMMA CalmSend ==
    ASSUME TypeInv, SessionsInv, NEW r \in Requests, Alone(r), SendMessage(r), ~Stopped(r)
    PROVE  CalmInv'
<1>0. /\ req[r] \in Request /\ session \in [Sessions -> Session]
      /\ ~At(r, "saving") /\ UNCHANGED <<pointer, memory>>
      /\ pointer.session \in Sessions \cup {NoSession}
      /\ pointer.session # NoSession => session[pointer.session].state # "unmade"
  BY DEF TypeInv, TypeOK, SendMessage, CheckSession, CreateSession, Stream, StreamFails,
         At, Pointer, SessionsInv, SessionsMade, Started
<1>1. CASE CheckSession(r)
  <2> DEFINE p == [req[r] EXCEPT !.pc = "streaming"]
             q == [req[r] EXCEPT !.pc = "creating", !.session = NoSession]
  <2>1. /\ p \in Request /\ p.pc = "streaming" /\ p.session = req[r].session
        /\ q \in Request /\ q.pc = "creating"
    BY <1>0 DEF Request, Stages
  <2>2. /\ UNCHANGED <<pointer, session, memory>>
        /\ req[r].session = pointer.session
        /\ \/ Live(req[r].session) /\ Put(r, p)
           \/ ~Live(req[r].session) /\ Put(r, q)
    BY <1>1 DEF CheckSession, Move, Alone, CalmHandler, At
  <2> HIDE DEF p, q
  <2>3. CalmRecord(p)
    BY <2>1, <2>2 DEF CalmRecord
  <2>4. ~Live(req[r].session) => CalmRecord(q)
    BY <2>1, <2>2 DEF CalmRecord, Flushed, Live
  <2> QED BY <1>0, <2>1, <2>2, <2>3, <2>4, CalmStays
<1>2. ASSUME NEW s \in Sessions, CreateSession(r, s) PROVE CalmInv'
  <2> DEFINE q == [req[r] EXCEPT !.pc = "streaming", !.session = s]
  <2>1. q \in Request /\ q.pc = "streaming" /\ q.session = s
    BY <1>0 DEF Request, Stages
  <2>2. /\ Put(r, q) /\ session[s].state = "unmade" /\ session[s].turns = {}
        /\ At(r, "creating")
    BY <1>2 DEF CreateSession, SessionsInv, SessionsMade
  <2>3. /\ session'[s].state = "live" /\ session'[s].turns = {}
        /\ \A t \in Sessions : t # s => session'[t] = session[t]
    BY <1>0, <1>2, <2>2 DEF CreateSession, Session
  <2> HIDE DEF q
  <2>4. Flushed(pointer.session)'
    <3>1. Flushed(pointer.session) /\ pointer.session # s
      BY <1>0, <2>2, NullsAreOutside DEF Alone, CalmHandler, At
    <3> QED BY <1>0, <2>3, <3>1 DEF Flushed, Live
  <2>5. CalmRecord(q)
    BY <2>1, <2>3, <2>4 DEF CalmRecord
  <2>6. NothingLost'
    BY <1>0, <2>3 DEF Alone, NothingLost
  <2>7. \A t \in Sessions : t = pointer'.session \/ Flushed(t)'
    BY <1>0, <2>3 DEF Alone, Flushed, Live
  <2> QED BY <2>1, <2>2, <2>5, <2>6, <2>7, CalmFollows
<1>3. CASE Stream(r)
  <2> DEFINE q == [req[r] EXCEPT !.pc = "saving"]
             s == req[r].session
  <2>1. q \in Request /\ q.pc = "saving" /\ q.session = s
    BY <1>0 DEF Request, Stages
  <2>2. /\ Put(r, q) /\ s \in Sessions /\ session[s].state = "live"
        /\ s = pointer.session \/ Flushed(pointer.session)
    BY <1>0, <1>3 DEF Stream, Move, Live, Request, Alone, CalmHandler, At
  <2>3. /\ session'[s].state = "live"
        /\ \A t \in Sessions : t # s => session'[t] = session[t]
    BY <1>0, <1>3, <2>2 DEF Stream, Session
  <2> HIDE DEF q, s
  <2>4. s = pointer.session \/ Flushed(pointer.session)'
    BY <1>0, <2>2, <2>3 DEF Flushed, Live
  <2>5. CalmRecord(q)
    BY <1>0, <2>1, <2>4 DEF CalmRecord
  <2>6. NothingLost'
    BY <1>0, <2>3 DEF Alone, NothingLost
  <2>7. \A t \in Sessions : t = pointer'.session \/ Flushed(t)' \/ t = q.session
    BY <1>0, <2>1, <2>3 DEF Alone, Flushed, Live
  <2> QED BY <2>1, <2>2, <2>5, <2>6, <2>7, CalmFollows
<1>4. ~StreamFails(r)
  BY ReturnTyped DEF StreamFails, Stopped, At, TypeInv
<1> QED BY <1>1, <1>2, <1>3, <1>4 DEF SendMessage

LEMMA CalmHandle ==
    ASSUME TypeInv, SessionsInv, NEW r \in Requests, Alone(r), Handle(r),
           ~FlushFailed(r), ~Stopped(r)
    PROVE  CalmInv'
<1>0. /\ req[r] \in Request /\ session \in [Sessions -> Session]
      /\ pointer.session \in Sessions \cup {NoSession}
  BY DEF TypeInv, TypeOK, Pointer
<1>1. Idle \in Request /\ CalmRecord(Idle)
  BY NullRecords DEF CalmRecord
<1>2. ASSUME Return(r), ~At(r, "saving"), UNCHANGED <<pointer, session, memory>>
      PROVE  CalmInv'
  BY <1>1, <1>2, CalmStays DEF Return
<1>3. CASE ConsumeQuota(r)
  <2> DEFINE q == [req[r] EXCEPT !.pc = "resolving"]
  <2>1. q \in Request /\ q.pc = "resolving"
    BY <1>0 DEF Request, Stages
  <2>2. /\ Put(r, q) \/ Return(r)
        /\ UNCHANGED <<pointer, session, memory>> /\ ~At(r, "saving")
    BY <1>3 DEF ConsumeQuota, Move, At
  <2> HIDE DEF q
  <2>3. CalmRecord(q)
    BY <2>1 DEF CalmRecord
  <2> QED BY <1>2, <2>1, <2>2, <2>3, CalmStays
<1>4. CASE ResolveSession(r) \/ ResetRead(r)
  <2> DEFINE q == [req[r] EXCEPT
                     !.known = pointer.session,
                     !.session = pointer.session,
                     !.pc = IF pointer.session = NoSession THEN "creating"
                            ELSE IF pointer.idle THEN "fetching" ELSE "checking"]
             p == [req[r] EXCEPT
                     !.session = pointer.session,
                     !.pc = IF pointer.session = NoSession THEN "clearing"
                            ELSE "fetching"]
  <2>1. /\ q \in Request /\ q.session = pointer.session
        /\ q.pc \in {"fetching", "checking"} \/ (q.pc = "creating" /\ pointer.session = NoSession)
        /\ p \in Request /\ p.session = pointer.session
        /\ p.pc = "fetching" \/ (p.pc = "clearing" /\ pointer.session = NoSession)
    BY <1>0 DEF Request, Stages
  <2>2. /\ Put(r, q) \/ Put(r, p)
        /\ UNCHANGED <<pointer, session, memory>> /\ ~At(r, "saving")
    BY <1>4 DEF ResolveSession, ResetRead, At
  <2> HIDE DEF q, p
  <2>3. CalmRecord(q) /\ CalmRecord(p)
    BY <2>1, <2>2 DEF CalmRecord, Flushed, Live
  <2> QED BY <2>1, <2>2, <2>3, CalmStays
<1>5. CASE SetAgentSession(r)
  <2>1. /\ Put(r, Idle) /\ pointer'.session = req[r].session
        /\ UNCHANGED <<session, memory>> /\ At(r, "saving")
    BY <1>5 DEF SetAgentSession, Return
  <2>2. NothingLost'
    BY <2>1 DEF Alone, NothingLost
  <2>3. req[r].session = pointer.session \/ Flushed(pointer.session)
    BY <2>1 DEF Alone, CalmHandler, At
  <2>4. \A s \in Sessions : s = pointer'.session \/ Flushed(s)'
    BY <1>0, <2>1, <2>3 DEF Alone, Flushed, Live
  <2> QED BY <1>1, <2>1, <2>2, <2>4, CalmFollows
<1>6. CASE ClearAgentSession(r)
  <2>1. /\ Put(r, Idle) /\ UNCHANGED <<session, memory>> /\ At(r, "clearing")
        /\ Flushed(pointer.session)
    BY <1>6 DEF ClearAgentSession, Return, Alone, CalmHandler, At
  <2>2. NothingLost'
    BY <2>1 DEF Alone, NothingLost
  <2>3. \A s \in Sessions : Flushed(s)'
    BY <1>0, <2>1 DEF Alone, Flushed, Live, At
  <2> QED BY <1>1, <2>1, <2>2, <2>3, CalmFollows
<1>7. CASE Crash(r)
  <2>1. Put(r, Idle) /\ UNCHANGED <<pointer, session, memory>> /\ req'[r].pc = "idle"
    BY <1>7, ReturnTyped DEF Crash, Return, TypeInv
  <2>2. NothingLost'
    BY <2>1 DEF Alone, NothingLost
  <2>3. At(r, "saving") => pointer.session = req[r].session
    BY <2>1 DEF Alone, Stopped, At
  <2>4. \A s \in Sessions : s = pointer'.session \/ Flushed(s)'
    BY <1>0, <2>1, <2>3 DEF Alone, Flushed, Live
  <2> QED BY <1>1, <2>1, <2>2, <2>4, CalmFollows
<1>8. ~Reset(r) /\ ~\E m \in Messages : Chat(r, m)
  BY DEF Reset, Chat, Alone
<1> QED
  BY <1>3, <1>4, <1>5, <1>6, <1>7, <1>8, CalmArchive, CalmSend DEF Handle

\* A request that comes in disturbs nothing yet.
LEMMA CalmBegin ==
    ASSUME TypeInv, CalmInv, calm, NEW r \in Requests, At(r, "idle"), Handle(r)
    PROVE  CalmInv'
<1>1. /\ UNCHANGED <<pointer, session, memory>>
      /\ Move(r, "reset") \/ (\E m \in Messages : Chat(r, m))
  BY DEF Handle, Chat, ConsumeQuota, ResolveSession, Archive, ArchiveFetch, ArchiveFlush,
         ArchiveDelete, SendMessage, CheckSession, CreateSession, Stream, StreamFails,
         SetAgentSession, Reset, ResetRead, ClearAgentSession, Crash, At
<1>2. /\ req'[r].pc \in {"reset", "quota"}
      /\ \A c \in Requests : c # r => req'[c] = req[c]
  <2>1. CASE Move(r, "reset")
    BY <2>1, MoveTyped DEF Stages, TypeInv
  <2>2. ASSUME NEW m \in Messages, Chat(r, m)
        PROVE  /\ req'[r].pc = "quota"
               /\ \A c \in Requests : c # r => req'[c] = req[c]
    BY <2>2 DEF Chat, Put, TypeInv, TypeOK, Request, Idle
  <2> QED BY <1>1, <2>1, <2>2
<1>3. \A c \in Requests : CalmHandler(c)'
  <2>1. CalmHandler(r)'
    BY <1>2 DEF CalmHandler, At
  <2>2. ASSUME NEW c \in Requests, c # r PROVE CalmHandler(c)'
    BY <1>1, <1>2, <2>2 DEF CalmInv, CalmHandler, Flushed, Live, At
  <2> QED BY <2>1, <2>2
<1>4. NothingLost'
  BY <1>1 DEF CalmInv, NothingLost
<1>5. ASSUME NEW s \in Sessions PROVE Kept(s)'
  BY <1>1, <1>2 DEF CalmInv, Kept, Flushed, Live, At
<1> QED BY <1>3, <1>4, <1>5 DEF CalmInv

\* Time and Agent Engine at most take sessions away.
LEMMA CalmRest ==
    ASSUME TypeInv, SessionsInv, CalmInv, calm, UNCHANGED <<req, memory>>,
           pointer'.session = pointer.session,
           \A s \in Sessions : /\ session'[s].turns = session[s].turns
                               /\ \/ session'[s].state = session[s].state
                                  \/ session'[s].state = "expired"
    PROVE  CalmInv'
<1>1. /\ pointer.session \in Sessions \cup {NoSession}
      /\ \A r \in Requests : req[r].session \in Sessions \cup {NoSession}
  BY DEF TypeInv, TypeOK, Pointer, Request
<1>2. NothingLost'
  BY DEF CalmInv, NothingLost
<1>3. \A s \in Sessions : Flushed(s) => Flushed(s)'
  BY DEF Flushed, Live
<1>4. Flushed(pointer.session) => Flushed(pointer.session)'
  BY <1>1 DEF Flushed, Live
<1>5. \A s \in Sessions : Kept(s)'
  BY <1>3 DEF CalmInv, Kept, At
<1>6. ASSUME NEW r \in Requests PROVE CalmHandler(r)'
  <2>1. CalmHandler(r)
    BY DEF CalmInv
  <2>2. At(r, "streaming") => req[r].session \in Sessions
    BY <1>1 DEF SessionsInv, SessionsMade, At
  <2> QED BY <1>1, <1>4, <2>1, <2>2 DEF CalmHandler, At
<1> QED BY <1>2, <1>5, <1>6 DEF CalmInv

\* What holds while requests come one at a time keeps holding.
LEMMA CalmInvariant == CalmSpec => []CalmInv
<1> DEFINE Inv == TypeInv /\ SessionsInv /\ CalmInv
<1>1. CalmInit => CalmInv
  BY DEF CalmInit, Init, CalmInv, NothingLost, CalmHandler, Kept, Flushed, Live, At, Idle
<1>2. Inv /\ [CalmNext]_<<vars, calm, gone>> => CalmInv'
  <2> SUFFICES ASSUME Inv, [CalmNext]_<<vars, calm, gone>>, calm' PROVE CalmInv'
    BY DEF CalmInv
  <2>1. calm /\ (CalmNext \/ UNCHANGED <<vars, calm, gone>>)
    BY DEF CalmNext
  <2>2. ASSUME CalmNext, NEW r \in Requests, Handle(r) PROVE CalmInv'
    <3>1. ~FlushFailed(r) /\ ~Stopped(r)
      BY <2>2 DEF CalmNext
    <3>2. CASE At(r, "idle")
      BY <2>1, <2>2, <3>2, CalmBegin
    <3>3. CASE ~At(r, "idle")
      <4>1. \A c \in Requests : c # r => At(c, "idle")
        BY <2>2, <3>3 DEF CalmNext
      <4>2. NothingLost /\ CalmHandler(r) /\ \A s \in Sessions : Kept(s)
        BY <2>1 DEF CalmInv
      <4>3. \A s \in Sessions :
               s = pointer.session \/ Flushed(s) \/ (At(r, "saving") /\ s = req[r].session)
        BY <4>1, <4>2 DEF Kept, At
      <4>4. Alone(r)
        BY <3>3, <4>1, <4>2, <4>3 DEF Alone
      <4> QED BY <2>2, <3>1, <4>4, CalmHandle
    <3> QED BY <3>2, <3>3
  <2>3. CASE (\E s \in Sessions : Expire(s)) \/ GoIdle \/ Midnight \/ UNCHANGED vars
    <3>1. UNCHANGED <<req, memory>> /\ pointer'.session = pointer.session
      BY <2>3 DEF Expire, GoIdle, Midnight, vars, TypeInv, TypeOK, Pointer
    <3>2. \A s \in Sessions : /\ session'[s].turns = session[s].turns
                              /\ \/ session'[s].state = session[s].state
                                 \/ session'[s].state = "expired"
      BY <2>3 DEF Expire, GoIdle, Midnight, vars, TypeInv, TypeOK, Session
    <3> QED BY <2>1, <3>1, <3>2, CalmRest
  <2> QED BY <2>1, <2>2, <2>3 DEF CalmNext, Next
<1>3. CalmSpec => [](TypeInv /\ SessionsInv)
  BY CalmRefinesSpec, SessionsInvariant, PTL
<1> QED BY <1>1, <1>2, <1>3, PTL DEF CalmSpec

\* While requests come one at a time and neither a flush nor a stream fails,
\* a deleted session is in Memory Bank turn for turn.
THEOREM CalmLosesNothing == CalmSpec => []CalmNothingLost
<1>1. CalmInv => CalmNothingLost
  BY DEF CalmInv, CalmNothingLost
<1> QED BY <1>1, CalmInvariant, PTL

\* Then, too, a session that stays live beside the one the user is in is one
\* whose delete failed after its flush.
THEOREM CalmLeavesOneSession == CalmSpec => []CalmOneLiveSession
<1>1. CalmInv => CalmOneLiveSession
  BY DEF CalmInv, CalmOneLiveSession, OneLiveSession, Kept, Flushed, At
<1> QED BY <1>1, CalmInvariant, PTL

=============================================================================
