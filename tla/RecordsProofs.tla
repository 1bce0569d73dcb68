----------------------------- MODULE RecordsProofs -----------------------------
(***************************************************************************)
(* Theorems about Records and Throttle, for any number of requests,        *)
(* documents and fields, and for any maxima.                               *)
(***************************************************************************)
EXTENDS Records, Throttle, TLAPS

-----------------------------------------------------------------------------
(* The throttle. *)

\* What the TTL may have taken of the count.
Forgone == IF forgotten THEN MaxAttempts - 1 ELSE 0

\* Before the key is locked, whatever was allowed is counted, about to be, lost
\* or forgotten. Once it is locked nobody finds it unlocked any more: those that
\* have may still be allowed something.
CountInv ==
    /\ lock # "ahead" => allowed <= count + wrong + lost + Forgone
    /\ lock = "ahead" => allowed + open <= MaxAttempts - 1 + MaxInFlight + lost + Forgone
    /\ lock = "past" => ~forgotten
    /\ kind = "reset" => wrong = 0 /\ right = 0

ThrottleInv == ThrottleTypeOK /\ CountInv

LEMMA Numbers ==
    ASSUME ThrottleTypeOK
    PROVE  /\ MaxAttempts \in Nat /\ 0 < MaxAttempts /\ MaxInFlight \in Nat /\ MaxLost \in Nat
           /\ count \in Nat /\ count <= MaxAttempts - 1
           /\ open \in Nat /\ wrong \in Nat /\ right \in Nat /\ allowed \in Nat /\ lost \in Nat
           /\ lost <= MaxLost /\ open + wrong + right <= MaxInFlight
           /\ Forgone \in Nat
  BY ThrottleAssumption DEF ThrottleTypeOK, Forgone

\* Counting one more: the key stays unlocked with the count raised, or is locked.
LEMMA BumpCounts ==
    ASSUME ThrottleTypeOK, Bump
    PROVE  /\ count' \in 0 .. MaxAttempts - 1
           /\ lock' \in {"none", "ahead", "past"}
           /\ \/ count' = count + 1 /\ lock' = lock
              \/ count = MaxAttempts - 1 /\ lock' = "ahead"
  BY Numbers DEF Bump, ThrottleTypeOK

LEMMA ThrottleStep ==
    ASSUME ThrottleInv, ThrottleNext
    PROVE  ThrottleInv'
<1>1. ThrottleTypeOK
  BY DEF ThrottleInv
<1>2. CASE Check
  BY <1>1, <1>2, Numbers DEF Check, ThrottleInv, ThrottleTypeOK, CountInv, Forgone
<1>3. CASE VerifyWrong
  BY <1>1, <1>3, Numbers DEF VerifyWrong, ThrottleInv, ThrottleTypeOK, CountInv, Forgone
<1>4. CASE VerifyRight
  BY <1>1, <1>4, Numbers DEF VerifyRight, ThrottleInv, ThrottleTypeOK, CountInv, Forgone
<1>5. CASE RecordFailure
  BY <1>1, <1>5, Numbers, BumpCounts
     DEF RecordFailure, ThrottleInv, ThrottleTypeOK, CountInv, Forgone
<1>6. CASE RecordAttempt
  BY <1>1, <1>6, Numbers, BumpCounts
     DEF RecordAttempt, ThrottleInv, ThrottleTypeOK, CountInv, Forgone
<1>7. CASE Clear
  <2>1. Forgone' = 0 /\ ~forgotten'
    BY <1>7 DEF Clear, Forgone
  <2>2. ThrottleTypeOK'
    <3>1. /\ right' \in Nat /\ open' + wrong' + right' <= MaxInFlight
          /\ 0 \in 0 .. MaxAttempts - 1
      BY <1>1, <1>7, Numbers DEF Clear
    <3> QED BY <1>1, <1>7, <3>1 DEF Clear, ThrottleTypeOK
  <2>3. CountInv'
    BY <1>1, <1>7, <2>1, Numbers DEF Clear, ThrottleInv, CountInv
  <2> QED BY <2>2, <2>3 DEF ThrottleInv
<1>8. CASE Lose
  BY <1>1, <1>8, Numbers DEF Lose, ThrottleInv, ThrottleTypeOK, CountInv, Forgone
<1>9. CASE LockPasses
  <2>1. Forgone' = 0 /\ ~forgotten'
    BY <1>9 DEF LockPasses, Forgone
  <2>2. ThrottleTypeOK'
    BY <1>1, <1>9, Numbers DEF LockPasses, ThrottleTypeOK
  <2>3. CountInv'
    BY <1>1, <1>9, <2>1, Numbers DEF LockPasses, ThrottleInv, CountInv
  <2> QED BY <2>2, <2>3 DEF ThrottleInv
<1>10. CASE Forget
  BY <1>1, <1>10, Numbers DEF Forget, ThrottleInv, ThrottleTypeOK, CountInv, Forgone
<1> QED BY <1>2, <1>3, <1>4, <1>5, <1>6, <1>7, <1>8, <1>9, <1>10 DEF ThrottleNext

\* The throttle's invariant, for any maximum and any number of handlers.
THEOREM ThrottleInvariant == ThrottleSpec => []ThrottleInv
<1>1. ThrottleInit => ThrottleInv
  <2> SUFFICES ASSUME ThrottleInit PROVE ThrottleInv
    OBVIOUS
  <2>1. Forgone = 0 /\ ~forgotten
    BY DEF ThrottleInit, Forgone
  <2>2. ThrottleTypeOK
    <3>1. /\ 0 \in 0 .. MaxAttempts - 1 /\ 0 \in 0 .. MaxLost
          /\ 0 + 0 + 0 <= MaxInFlight
      BY ThrottleAssumption
    <3> QED BY <3>1 DEF ThrottleInit, ThrottleTypeOK
  <2>3. CountInv
    BY <2>1 DEF ThrottleInit, CountInv
  <2> QED BY <2>2, <2>3 DEF ThrottleInv
<1>2. ThrottleInv /\ [ThrottleNext]_throttleVars => ThrottleInv'
  <2> SUFFICES ASSUME ThrottleInv, [ThrottleNext]_throttleVars PROVE ThrottleInv'
    OBVIOUS
  <2>1. CASE UNCHANGED throttleVars
    BY <2>1 DEF throttleVars, ThrottleInv, ThrottleTypeOK, CountInv, Forgone
  <2>2. CASE ThrottleNext
    BY <2>2, ThrottleStep
  <2> QED BY <2>1, <2>2
<1> QED BY <1>1, <1>2, PTL DEF ThrottleSpec

\* However requests race, what is tried or mailed before the lock is bounded
\* (LoginThrottleRepository, PasswordResetThrottleRepository, api/routes/auth.py).
THEOREM AttemptsSafe == ThrottleSpec => []AttemptsBounded
<1>1. ThrottleInv => AttemptsBounded
  BY Numbers DEF ThrottleInv, CountInv, AttemptsBounded, Forgone
<1> QED BY <1>1, ThrottleInvariant, PTL

-----------------------------------------------------------------------------
(* Zones, habits and the sleep schedule. *)

Whole(d, data) == data.created_at /\ (d = Sleep \/ \A f \in Texts : data.by[f] # Unset)

\* What a handler relies on when it comes to its write.
Relies(q) ==
    /\ q.op = "create" /\ q.pc = "insert" =>
           /\ q.id \in ZoneIds \cup HabitIds /\ Texts \subseteq q.given
           /\ ~doc[q.id].stored /\ q.id \notin deleted
    /\ q.op = "update" /\ q.pc # "new" => q.id \in ZoneIds \cup HabitIds
    /\ q.op = "update" /\ q.pc = "merge" => doc[q.id].stored \/ q.id \in deleted
    /\ q.op = "delete" /\ q.pc = "remove" => doc[q.id].stored \/ q.id \in deleted
    /\ q.op = "set" /\ q.pc # "new" => q.id = Sleep
    /\ q.op = "set" /\ q.pc = "merge" /\ q.saw.stored => doc[Sleep].stored
    /\ q.op = "delete" /\ q.pc # "new" => q.id \in ZoneIds

Asked(q) == q.pc # "new"

\* A new id is nobody else's.
OwnIds ==
    /\ \A r, s \in Requests :
           (r # s /\ Asked(req[r]) /\ Asked(req[s]) /\ req[r].op = "create" /\ req[s].op = "create")
           => req[r].id # req[s].id
    /\ \A d \in deleted : \E r \in Requests : Asked(req[r]) /\ req[r].id = d

RecordsInv ==
    /\ RecordsTypeOK
    /\ \A d \in Ids : doc[d].stored => Whole(d, doc[d]) \/ d \in deleted
    /\ \A r \in Requests : Relies(req[r])
    /\ OwnIds

LEMMA ReadableIsWhole ==
    \A d \in Ids : Readable(d) <=> Whole(d, doc[d])
  BY IdsDiffer DEF Ids, Readable, ZoneReads, HabitReads, SleepReads, Whole

LEMMA RequestMoves ==
    ASSUME RecordsTypeOK, NEW r \in Requests, NEW q \in Request,
           req' = [req EXCEPT ![r] = q]
    PROVE  /\ req' \in [Requests -> Request]
           /\ req'[r] = q
           /\ \A s \in Requests \ {r} : req'[s] = req[s]
  BY DEF RecordsTypeOK

LEMMA NowhereIsDocument == Nowhere \in Document /\ ~Nowhere.stored
  BY DEF Nowhere, Document

\* A handler goes on without writing, or a request is made.
LEMMA NoWriteKeeps ==
    ASSUME RecordsInv, NEW r \in Requests, NEW q \in Request,
           req' = [req EXCEPT ![r] = q], doc' = doc, deleted' = deleted,
           Relies(q),
           Asked(req[r]) => Asked(q) /\ q.id = req[r].id /\ q.op = req[r].op,
           (~Asked(req[r]) /\ Asked(q) /\ q.op = "create")
               => \A s \in Requests \ {r} : Asked(req[s]) => req[s].id # q.id
    PROVE  RecordsInv'
<1>1. /\ req' \in [Requests -> Request] /\ req'[r] = q
      /\ \A s \in Requests \ {r} : req'[s] = req[s]
  BY RequestMoves DEF RecordsInv
<1>2. RecordsTypeOK'
  BY <1>1 DEF RecordsInv, RecordsTypeOK
<1>3. \A d \in Ids : doc'[d].stored => Whole(d, doc'[d]) \/ d \in deleted'
  BY DEF RecordsInv
<1>4. \A s \in Requests : Relies(req[s])'
  BY <1>1 DEF RecordsInv, Relies
<1>5. OwnIds'
  <2>1. \A d \in deleted : \E s \in Requests : Asked(req'[s]) /\ req'[s].id = d
    BY <1>1 DEF RecordsInv, OwnIds
  <2>2. ASSUME NEW x \in Requests, NEW y \in Requests, x # y,
               Asked(req'[x]), Asked(req'[y]), req'[x].op = "create", req'[y].op = "create"
        PROVE  req'[x].id # req'[y].id
    <3>1. CASE x # r /\ y # r
      BY <1>1, <2>2, <3>1 DEF RecordsInv, OwnIds
    <3>2. CASE x = r
      BY <1>1, <2>2, <3>2 DEF RecordsInv, OwnIds
    <3>3. CASE y = r
      BY <1>1, <2>2, <3>3 DEF RecordsInv, OwnIds
    <3> QED BY <3>1, <3>2, <3>3
  <2> QED BY <2>1, <2>2 DEF OwnIds, Asked
<1> QED BY <1>2, <1>3, <1>4, <1>5, IdsDiffer DEF RecordsInv, Whole

\* A handler writes a document that is whole, unless its zone was deleted.
LEMMA WriteKeeps ==
    ASSUME RecordsInv, NEW r \in Requests, NEW q \in Request, NEW new \in Document,
           Asked(req[r]), req' = [req EXCEPT ![r] = q],
           q.pc \in {"reread", "ended"}, q.id = req[r].id, q.op = req[r].op,
           doc' = [doc EXCEPT ![q.id] = new], deleted' = deleted,
           new.stored, Whole(q.id, new) \/ q.id \in deleted,
           \A s \in Requests \ {r} :
               req[s].op = "create" /\ req[s].pc = "insert" => req[s].id # q.id
    PROVE  RecordsInv'
<1>1. /\ req' \in [Requests -> Request] /\ req'[r] = q
      /\ \A s \in Requests \ {r} : req'[s] = req[s]
  BY RequestMoves DEF RecordsInv
<1>2. /\ q.id \in Ids /\ doc' \in [Ids -> Document] /\ doc'[q.id] = new
      /\ \A d \in Ids \ {q.id} : doc'[d] = doc[d]
  BY DEF RecordsInv, RecordsTypeOK, Request
<1>3. RecordsTypeOK'
  BY <1>1, <1>2 DEF RecordsInv, RecordsTypeOK
<1>4. \A d \in Ids : doc'[d].stored => Whole(d, doc'[d]) \/ d \in deleted'
  BY <1>2 DEF RecordsInv
<1>5. ASSUME NEW s \in Requests
      PROVE  Relies(req[s])'
  <2>1. CASE s = r
    <3>1. Relies(req[r])
      BY DEF RecordsInv
    <3> QED BY <1>1, <2>1, <3>1 DEF Relies, Asked
  <2>2. CASE s # r
    <3>1. Relies(req[s]) /\ req'[s] = req[s] /\ req[s].id \in Ids /\ Sleep \in Ids
      BY <1>1, <2>2 DEF RecordsInv, RecordsTypeOK, Request, Ids
    <3>2. req[s].op = "create" /\ req[s].pc = "insert" => req[s].id # q.id
      BY <2>2
    <3>3. doc[req[s].id].stored => doc'[req[s].id].stored
      BY <1>2, <3>1
    <3>4. doc[Sleep].stored => doc'[Sleep].stored
      BY <1>2, <3>1
    <3>5. req[s].id # q.id => doc'[req[s].id] = doc[req[s].id]
      BY <1>2, <3>1
    <3> QED BY <3>1, <3>2, <3>3, <3>4, <3>5 DEF Relies
  <2> QED BY <2>1, <2>2
<1>6. OwnIds'
  <2>1. Asked(q)
    BY DEF Asked
  <2> QED BY <1>1, <2>1 DEF RecordsInv, OwnIds, Asked
<1> QED BY <1>3, <1>4, <1>5, <1>6 DEF RecordsInv, Whole

\* A request is made: of what is there or not, or for a new document.
LEMMA AskKeeps ==
    ASSUME RecordsInv, NEW r \in Requests, NEW pc \in {"insert", "read"},
           NEW op \in Ops, NEW d \in Ids, NEW given \in SUBSET Fields,
           Ask(r, pc, op, d, given),
           op = "create" <=> pc = "insert",
           op = "create" => New(d) /\ d \in ZoneIds \cup HabitIds /\ Texts \subseteq given,
           op = "update" => d \in ZoneIds \cup HabitIds,
           op = "set" => d = Sleep,
           op = "delete" => d \in ZoneIds
    PROVE  RecordsInv'
<1> PICK q : q = [pc |-> pc, op |-> op, id |-> d, given |-> given,
                  saw |-> Nowhere, told |-> "nothing"]
  OBVIOUS
<1>1. /\ req' = [req EXCEPT ![r] = q] /\ doc' = doc /\ deleted' = deleted
      /\ req[r].pc = "new"
  BY DEF Ask
<1>2. q \in Request /\ q.pc = pc /\ q.op = op /\ q.id = d /\ q.given = given
  BY NowhereIsDocument DEF Request
<1>3. op = "create" => d \notin deleted
  BY <1>1 DEF New, RecordsInv, OwnIds, Asked
<1>4. Relies(q)
  BY <1>2, <1>3 DEF Relies, New
<1>5. ~Asked(req[r]) /\ Asked(q)
  BY <1>1, <1>2 DEF Asked
<1>6. q.op = "create" => \A s \in Requests \ {r} : Asked(req[s]) => req[s].id # q.id
  BY <1>2 DEF New, Asked
<1> QED BY <1>1, <1>2, <1>4, <1>5, <1>6, NoWriteKeeps

LEMMA AsksKeep ==
    ASSUME RecordsInv, NEW r \in Requests, Asks(r)
    PROVE  RecordsInv'
<1>1. /\ ZoneIds \subseteq Ids /\ HabitIds \subseteq Ids /\ Sleep \in Ids
      /\ Texts \in SUBSET Fields /\ Texts \subseteq Texts /\ Texts \subseteq Fields
      /\ Fields \in SUBSET Fields /\ {} \in SUBSET Fields
  BY DEF Ids, Fields
<1>2. CASE WebCreatesZone(r) \/ AgentCreatesZone(r)
  <2> PICK d \in ZoneIds : New(d) /\ Ask(r, "insert", "create", d, Fields)
    BY <1>2 DEF WebCreatesZone, AgentCreatesZone
  <2> QED BY <1>1, AskKeeps DEF Ops
<1>3. CASE WebCreatesHabit(r) \/ AgentCreatesHabit(r)
  <2> PICK d \in HabitIds : New(d) /\ Ask(r, "insert", "create", d, Texts)
    BY <1>3 DEF WebCreatesHabit, AgentCreatesHabit
  <2> QED BY <1>1, AskKeeps DEF Ops
<1>4. CASE \/ WebUpdatesZone(r) \/ AgentUpdatesZone(r)
           \/ WebUpdatesHabit(r) \/ AgentUpdatesHabit(r)
  <2> PICK d \in ZoneIds \cup HabitIds, given \in SUBSET Fields :
             Ask(r, "read", "update", d, given)
    BY <1>4 DEF WebUpdatesZone, AgentUpdatesZone, WebUpdatesHabit, AgentUpdatesHabit
  <2> QED BY <1>1, AskKeeps DEF Ops
<1>5. CASE WebDeletesZone(r)
  <2> PICK d \in ZoneIds : Ask(r, "read", "delete", d, {})
    BY <1>5 DEF WebDeletesZone
  <2> QED BY <1>1, AskKeeps DEF Ops
<1>6. CASE WebListsZones(r) \/ AgentListsZones(r) \/ WebListsHabits(r) \/ AgentListsHabits(r)
  <2> PICK d \in ZoneIds \cup HabitIds : Ask(r, "read", "list", d, {})
    BY <1>6 DEF WebListsZones, AgentListsZones, WebListsHabits, AgentListsHabits
  <2> QED BY <1>1, AskKeeps DEF Ops
<1>7. CASE WebSetsSleep(r) \/ AgentSetsSleep(r)
  <2> PICK given \in SUBSET Fields : Ask(r, "read", "set", Sleep, given)
    BY <1>7 DEF WebSetsSleep, AgentSetsSleep
  <2> QED BY <1>1, AskKeeps DEF Ops
<1>8. CASE WebGetsSleep(r) \/ AgentGetsSleep(r)
  BY <1>1, <1>8, AskKeeps DEF WebGetsSleep, AgentGetsSleep, Ops
<1> QED BY <1>2, <1>3, <1>4, <1>5, <1>6, <1>7, <1>8 DEF Asks

\* What a handler leaves of its request when it ends.
LEMMA EndsMoves ==
    ASSUME RecordsTypeOK, NEW r \in Requests,
           NEW answer \in {"nothing", "success", "not_found", "error"}, Ends(r, answer)
    PROVE  \E q \in Request : /\ req' = [req EXCEPT ![r] = q]
                              /\ q.pc = "ended" /\ q.id = req[r].id /\ q.op = req[r].op
<1> PICK told : told = IF req[r].told = "nothing" THEN answer ELSE req[r].told
  OBVIOUS
<1> PICK q : q = [req[r] EXCEPT !.pc = "ended", !.told = told]
  OBVIOUS
<1>1. req[r] \in Request /\ req' = [req EXCEPT ![r] = q]
  BY DEF RecordsTypeOK, Ends
<1>2. told \in {"nothing", "success", "not_found", "error"}
  BY <1>1 DEF Request
<1>3. q \in Request /\ q.pc = "ended" /\ q.id = req[r].id /\ q.op = req[r].op
  BY <1>1, <1>2 DEF Request
<1> QED BY <1>1, <1>3

\* One that ends without writing keeps the invariant.
LEMMA EndKeeps ==
    ASSUME RecordsInv, NEW r \in Requests, req[r].pc # "new",
           NEW answer \in {"nothing", "success", "not_found", "error"}, Ends(r, answer),
           doc' = doc, deleted' = deleted
    PROVE  RecordsInv'
<1>1. PICK q \in Request : /\ req' = [req EXCEPT ![r] = q]
                           /\ q.pc = "ended" /\ q.id = req[r].id /\ q.op = req[r].op
  BY EndsMoves DEF RecordsInv
<1>2. Relies(q)
  BY <1>1 DEF RecordsInv, Relies
<1> QED BY <1>1, <1>2, NoWriteKeeps DEF Asked

\* One that has read keeps it, if its write may rely on what it read.
LEMMA SawKeeps ==
    ASSUME RecordsInv, NEW r \in Requests, NEW pc \in {"merge", "remove"}, Saw(r, pc),
           req[r].pc = "read", doc' = doc, deleted' = deleted,
           req[r].op \in {"update", "set", "delete"},
           req[r].op \in {"update", "delete"} => doc[req[r].id].stored
    PROVE  RecordsInv'
<1> PICK q : q = [req[r] EXCEPT !.pc = pc, !.saw = doc[req[r].id]]
  OBVIOUS
<1>1. req' = [req EXCEPT ![r] = q] /\ req[r] \in Request /\ doc[req[r].id] \in Document
  BY DEF Saw, RecordsInv, RecordsTypeOK, Request
<1>2. /\ q \in Request /\ q.pc = pc /\ q.id = req[r].id /\ q.op = req[r].op
      /\ q.saw = doc[req[r].id]
  BY <1>1 DEF Request
<1>3. Relies(q)
  BY <1>2 DEF RecordsInv, Relies
<1> QED BY <1>1, <1>2, <1>3, NoWriteKeeps DEF Asked

\* A document that is inserted, or merged into, is typed as it should be.
LEMMA MergedIsDocument ==
    ASSUME NEW data \in Document, NEW r \in Requests
    PROVE  /\ Merged(data, r) \in Document /\ Merged(data, r).stored
           /\ Merged(data, r).created_at = data.created_at
           /\ \A f \in Fields : Merged(data, r).by[f] = r \/ Merged(data, r).by[f] = data.by[f]
  BY DEF Merged, Document

LEMMA CreateKeeps ==
    ASSUME RecordsInv, NEW r \in Requests, Create(r)
    PROVE  RecordsInv'
<1> PICK new : new = [stored |-> TRUE, created_at |-> TRUE,
                      by |-> [f \in Fields |-> IF f \in req[r].given THEN r ELSE Unset]]
  OBVIOUS
<1>1. /\ doc' = [doc EXCEPT ![req[r].id] = new] /\ deleted' = deleted
      /\ req[r].pc = "insert" /\ req[r].op = "create" /\ Relies(req[r])
  BY DEF Create, At, RecordsInv
<1>2. PICK q \in Request : /\ req' = [req EXCEPT ![r] = q]
                           /\ q.pc = "ended" /\ q.id = req[r].id /\ q.op = req[r].op
  BY EndsMoves DEF Create, RecordsInv
<1>3. new \in Document /\ new.stored /\ new.created_at
  BY DEF Document
<1>4. \A f \in Texts : f \in Fields /\ new.by[f] # Unset
  BY <1>1, UnsetIsNone DEF Fields, Relies
<1>5. \A s \in Requests \ {r} :
        req[s].op = "create" /\ req[s].pc = "insert" => req[s].id # q.id
  BY <1>1, <1>2 DEF RecordsInv, OwnIds, Asked
<1>6. Whole(q.id, new) /\ Asked(req[r])
  BY <1>1, <1>3, <1>4 DEF Whole, Asked
<1> QED BY <1>1, <1>2, <1>3, <1>5, <1>6, WriteKeeps

\* A handler that merges goes on to read again.
LEMMA MergeMoves ==
    ASSUME RecordsTypeOK, NEW r \in Requests, req' = [req EXCEPT ![r].pc = "reread"]
    PROVE  \E q \in Request : /\ req' = [req EXCEPT ![r] = q]
                              /\ q.pc = "reread" /\ q.id = req[r].id /\ q.op = req[r].op
<1> PICK q : q = [req[r] EXCEPT !.pc = "reread"]
  OBVIOUS
<1>1. req[r] \in Request /\ req' = [req EXCEPT ![r] = q]
  BY DEF RecordsTypeOK
<1>2. q \in Request /\ q.pc = "reread" /\ q.id = req[r].id /\ q.op = req[r].op
  BY <1>1 DEF Request
<1> QED BY <1>1, <1>2

LEMMA UpdateMergesKeeps ==
    ASSUME RecordsInv, NEW r \in Requests, UpdateMerges(r)
    PROVE  RecordsInv'
<1> PICK old : old = doc[req[r].id]
  OBVIOUS
<1> PICK new : new = Merged(old, r)
  OBVIOUS
<1>1. /\ doc' = [doc EXCEPT ![req[r].id] = new] /\ deleted' = deleted
      /\ req[r].pc = "merge" /\ req[r].op = "update" /\ Relies(req[r])
      /\ req[r].id \in Ids /\ old \in Document
  BY DEF UpdateMerges, At, RecordsInv, RecordsTypeOK, Request
<1>2. PICK q \in Request : /\ req' = [req EXCEPT ![r] = q]
                           /\ q.pc = "reread" /\ q.id = req[r].id /\ q.op = req[r].op
  BY MergeMoves DEF UpdateMerges, RecordsInv
<1>3. /\ new \in Document /\ new.stored /\ new.created_at = old.created_at
      /\ \A f \in Fields : new.by[f] = r \/ new.by[f] = old.by[f]
  BY <1>1, MergedIsDocument
<1>4. \A s \in Requests \ {r} :
        req[s].op = "create" /\ req[s].pc = "insert" => req[s].id # q.id
  BY <1>1, <1>2 DEF RecordsInv, Relies
<1>5. Whole(q.id, new) \/ q.id \in deleted
  <2>1. CASE q.id \notin deleted
    <3>1. Whole(q.id, old)
      BY <1>1, <1>2, <2>1 DEF RecordsInv, Relies
    <3>2. \A f \in Texts : f \in Fields
      BY DEF Fields
    <3> QED BY <1>3, <3>1, <3>2, UnsetIsNone DEF Whole
  <2> QED BY <2>1
<1> QED BY <1>1, <1>2, <1>3, <1>4, <1>5, WriteKeeps DEF Asked

LEMMA SetMergesKeeps ==
    ASSUME RecordsInv, NEW r \in Requests, SetMerges(r)
    PROVE  RecordsInv'
<1> PICK merged : merged = Merged(doc[Sleep], r)
  OBVIOUS
<1> PICK created : created = (doc[Sleep].created_at \/ ~req[r].saw.stored)
  OBVIOUS
<1> PICK new : new = [merged EXCEPT !.created_at = created]
  OBVIOUS
<1>1. /\ doc' = [doc EXCEPT ![Sleep] = new] /\ deleted' = deleted
      /\ req[r].pc = "merge" /\ req[r].op = "set" /\ Relies(req[r])
      /\ Sleep \in Ids /\ doc[Sleep] \in Document
  BY DEF SetMerges, At, RecordsInv, RecordsTypeOK, Ids
<1>2. PICK q \in Request : /\ req' = [req EXCEPT ![r] = q]
                           /\ q.pc = "reread" /\ q.id = req[r].id /\ q.op = req[r].op
  BY MergeMoves DEF SetMerges, RecordsInv
<1>3. q.id = Sleep
  BY <1>1, <1>2 DEF Relies
<1>4. merged \in Document /\ merged.stored
  BY <1>1, MergedIsDocument
<1>5. new \in Document /\ new.stored /\ (new.created_at <=> created)
  BY <1>4 DEF Document
<1>6. \A s \in Requests \ {r} :
        req[s].op = "create" /\ req[s].pc = "insert" => req[s].id # q.id
  BY <1>3, IdsDiffer DEF RecordsInv, Relies
<1>7. Sleep \notin deleted
  BY IdsDiffer DEF RecordsInv, RecordsTypeOK
<1>8. Whole(q.id, new)
  <2>1. CASE req[r].saw.stored
    BY <1>1, <1>3, <1>5, <1>7, <2>1 DEF RecordsInv, Relies, Whole
  <2>2. CASE ~req[r].saw.stored
    BY <1>3, <1>5, <2>2 DEF Whole
  <2> QED BY <2>1, <2>2
<1> QED BY <1>1, <1>2, <1>3, <1>5, <1>6, <1>8, WriteKeeps DEF Asked

LEMMA DeletesKeeps ==
    ASSUME RecordsInv, NEW r \in Requests, Deletes(r)
    PROVE  RecordsInv'
<1>1. PICK q \in Request : /\ req' = [req EXCEPT ![r] = q]
                           /\ q.pc = "ended" /\ q.id = req[r].id /\ q.op = req[r].op
  BY EndsMoves DEF Deletes, RecordsInv
<1>2. /\ doc' = [doc EXCEPT ![q.id] = Nowhere] /\ deleted' = deleted \cup {q.id}
      /\ req[r].pc = "remove" /\ req[r].op = "delete" /\ q.id \in ZoneIds
  BY <1>1 DEF Deletes, At, RecordsInv, Relies
<1>3. /\ req' \in [Requests -> Request] /\ req'[r] = q
      /\ \A s \in Requests \ {r} : req'[s] = req[s]
  BY <1>1, RequestMoves DEF RecordsInv
<1>4. /\ q.id \in Ids /\ doc' \in [Ids -> Document] /\ doc'[q.id] = Nowhere
      /\ \A d \in Ids \ {q.id} : doc'[d] = doc[d]
  BY <1>2, NowhereIsDocument DEF RecordsInv, RecordsTypeOK, Ids
<1>5. RecordsTypeOK'
  BY <1>2, <1>3, <1>4 DEF RecordsInv, RecordsTypeOK
<1>6. \A d \in Ids : doc'[d].stored => Whole(d, doc'[d]) \/ d \in deleted'
  BY <1>2, <1>4 DEF RecordsInv
<1>7. ASSUME NEW s \in Requests
      PROVE  Relies(req[s])'
  <2>1. CASE s = r
    BY <1>1, <1>2, <1>3, <2>1 DEF Relies
  <2>2. CASE s # r
    <3>1. Relies(req[s]) /\ req'[s] = req[s] /\ req[s].id \in Ids /\ Sleep \in Ids
      BY <1>3, <2>2 DEF RecordsInv, RecordsTypeOK, Request, Ids
    <3>2. doc'[Sleep] = doc[Sleep]
      BY <1>2, <1>4, <3>1, IdsDiffer
    <3>3. doc[req[s].id].stored => doc'[req[s].id].stored \/ req[s].id \in deleted'
      BY <1>2, <1>4, <3>1
    <3>4. ~doc[req[s].id].stored => ~doc'[req[s].id].stored
      BY <1>4, <3>1, NowhereIsDocument
    <3>5. req[s].op = "create" /\ req[s].pc = "insert" => req[s].id # q.id
      BY <1>1, <1>2 DEF RecordsInv, Relies
    <3> QED BY <1>2, <3>1, <3>2, <3>3, <3>4, <3>5 DEF Relies
  <2> QED BY <2>1, <2>2
<1>8. OwnIds'
  BY <1>1, <1>2, <1>3 DEF RecordsInv, OwnIds, Asked
<1> QED BY <1>5, <1>6, <1>7, <1>8 DEF RecordsInv, Whole

LEMMA HandlerKeeps ==
    ASSUME RecordsInv, NEW r \in Requests,
           \/ HandlesZone(r) \/ HandlesHabit(r) \/ HandlesSleep(r)
           \/ CallerGivesUp(r) \/ Fails(r)
    PROVE  RecordsInv'
<1>1. CASE Create(r)
  BY <1>1, CreateKeeps
<1>2. CASE UpdateMerges(r) \/ SetMerges(r) \/ Deletes(r)
  BY <1>2, UpdateMergesKeeps, SetMergesKeeps, DeletesKeeps
<1>3. CASE UpdateReads(r) \/ SetReads(r) \/ DeleteReads(r)
  <2>1. /\ req[r].pc = "read" /\ req[r].op \in {"update", "set", "delete"}
        /\ doc' = doc /\ deleted' = deleted
        /\ \/ Ends(r, "not_found")
           \/ \E pc \in {"merge", "remove"} :
                 /\ Saw(r, pc)
                 /\ req[r].op \in {"update", "delete"} => doc[req[r].id].stored
    BY <1>3 DEF UpdateReads, SetReads, DeleteReads, At
  <2> QED BY <2>1, EndKeeps, SawKeeps
<1>4. CASE \/ Rereads(r) \/ ListsZones(r) \/ ListsHabits(r) \/ GetsSleep(r) \/ Fails(r)
  <2>1. PICK answer \in {"nothing", "success", "not_found", "error"} :
           /\ Ends(r, answer) /\ req[r].pc # "new"
           /\ doc' = doc /\ deleted' = deleted
    BY <1>4 DEF Rereads, ListsZones, ListsHabits, GetsSleep, Fails, At
  <2> QED BY <2>1, EndKeeps
<1>5. CASE CallerGivesUp(r)
  <2> PICK q : q = [req[r] EXCEPT !.told = "error"]
    OBVIOUS
  <2>1. /\ req' = [req EXCEPT ![r] = q] /\ doc' = doc /\ deleted' = deleted
        /\ req[r] \in Request /\ req[r].pc # "new" /\ Relies(req[r])
    BY <1>5 DEF CallerGivesUp, RecordsInv, RecordsTypeOK
  <2>2. /\ q \in Request /\ q.pc = req[r].pc /\ q.id = req[r].id /\ q.op = req[r].op
        /\ q.given = req[r].given /\ q.saw = req[r].saw
    BY <2>1 DEF Request
  <2>3. Relies(q)
    BY <2>1, <2>2 DEF Relies
  <2> QED BY <2>1, <2>2, <2>3, NoWriteKeeps DEF Asked
<1> QED BY <1>1, <1>2, <1>3, <1>4, <1>5 DEF HandlesZone, HandlesHabit, HandlesSleep

\* The invariant of the records, for any number of requests and documents.
THEOREM RecordsInvariant == RecordsSpec => []RecordsInv
<1>1. RecordsInit => RecordsInv
  <2> SUFFICES ASSUME RecordsInit PROVE RecordsInv
    OBVIOUS
  <2> PICK q : q = [pc |-> "new", op |-> "get", id |-> Sleep,
                    given |-> {}, saw |-> Nowhere, told |-> "nothing"]
    OBVIOUS
  <2>1. q \in Request /\ q.pc = "new"
    BY NowhereIsDocument DEF Request, Ops, Ids
  <2>2. /\ req = [r \in Requests |-> q] /\ doc = [d \in Ids |-> Nowhere] /\ deleted = {}
    BY DEF RecordsInit
  <2>3. RecordsTypeOK
    BY <2>1, <2>2, NowhereIsDocument DEF RecordsTypeOK
  <2>4. \A d \in Ids : ~doc[d].stored
    BY <2>2, NowhereIsDocument
  <2>5. \A r \in Requests : Relies(req[r]) /\ ~Asked(req[r])
    BY <2>1, <2>2 DEF Relies, Asked
  <2>6. OwnIds
    BY <2>2, <2>5 DEF OwnIds
  <2> QED BY <2>3, <2>4, <2>5, <2>6 DEF RecordsInv
<1>2. RecordsInv /\ [RecordsNext]_recordsVars => RecordsInv'
  <2> SUFFICES ASSUME RecordsInv, [RecordsNext]_recordsVars PROVE RecordsInv'
    OBVIOUS
  <2>1. CASE UNCHANGED recordsVars
    BY <2>1 DEF recordsVars, RecordsInv, RecordsTypeOK, Relies, OwnIds, Whole
  <2>2. ASSUME NEW r \in Requests, Asks(r) PROVE RecordsInv'
    BY <2>2, AsksKeep
  <2>3. ASSUME NEW r \in Requests,
               \/ HandlesZone(r) \/ HandlesHabit(r) \/ HandlesSleep(r)
               \/ CallerGivesUp(r) \/ Fails(r)
        PROVE  RecordsInv'
    BY <2>3, HandlerKeeps
  <2> QED BY <2>1, <2>2, <2>3 DEF RecordsNext
<1> QED BY <1>1, <1>2, PTL DEF RecordsSpec

\* A document that is there can be read, unless it is a zone that was deleted
\* under an update (ZoneRepository, HabitRepository, SleepScheduleRepository).
THEOREM ReadableSafe == RecordsSpec => []DocumentsReadable
<1>1. RecordsInv => DocumentsReadable
  BY ReadableIsWhole DEF RecordsInv, DocumentsReadable
<1> QED BY <1>1, RecordsInvariant, PTL

\* No update undoes another that came between its read and its merge.
THEOREM NoneUndone == RecordsSpec => NoUpdateUndone
<1> DEFINE Own ==
      \A d \in Ids, f \in Fields :
         (doc[d].stored /\ doc'[d].stored /\ doc'[d].by[f] # doc[d].by[f])
         => \E r \in Requests :
              doc'[d].by[f] = r /\ req[r].pc = "merge" /\ f \in req[r].given
<1>1. RecordsInv /\ [RecordsNext]_recordsVars => [Own]_recordsVars
  <2> SUFFICES ASSUME RecordsInv, RecordsNext,
                      NEW d \in Ids, NEW f \in Fields, doc[d].stored, doc'[d].stored,
                      doc'[d].by[f] # doc[d].by[f]
               PROVE  \E r \in Requests :
                         doc'[d].by[f] = r /\ req[r].pc = "merge" /\ f \in req[r].given
    OBVIOUS
  <2>1. PICK r \in Requests : Create(r) \/ UpdateMerges(r) \/ SetMerges(r) \/ Deletes(r)
    BY DEF RecordsNext, Asks, HandlesZone, HandlesHabit, HandlesSleep, CallerGivesUp, Fails,
           WebCreatesZone, AgentCreatesZone, WebUpdatesZone, AgentUpdatesZone, WebDeletesZone,
           WebListsZones, AgentListsZones, WebCreatesHabit, AgentCreatesHabit,
           WebUpdatesHabit, AgentUpdatesHabit, WebListsHabits, AgentListsHabits,
           WebSetsSleep, AgentSetsSleep, WebGetsSleep, AgentGetsSleep, Ask,
           UpdateReads, SetReads, DeleteReads, Rereads, ListsZones, ListsHabits, GetsSleep
  <2>2. doc \in [Ids -> Document] /\ req[r].id \in Ids /\ Relies(req[r]) /\ Sleep \in Ids
    BY DEF RecordsInv, RecordsTypeOK, Request, Ids
  <2>3. CASE Create(r)
    BY <2>2, <2>3 DEF Create, At, Relies
  <2>4. CASE Deletes(r)
    BY <2>2, <2>4, NowhereIsDocument DEF Deletes, At
  <2>5. CASE UpdateMerges(r)
    BY <2>2, <2>5 DEF UpdateMerges, At, Merged
  <2>6. CASE SetMerges(r)
    <3> PICK merged : merged = Merged(doc[Sleep], r)
      OBVIOUS
    <3> PICK created : created = (doc[Sleep].created_at \/ ~req[r].saw.stored)
      OBVIOUS
    <3> PICK new : new = [merged EXCEPT !.created_at = created]
      OBVIOUS
    <3>1. doc' = [doc EXCEPT ![Sleep] = new] /\ req[r].pc = "merge"
      BY <2>6 DEF SetMerges, At
    <3>2. merged \in Document /\ new.by = merged.by
      BY <2>2, MergedIsDocument DEF Document
    <3>3. d = Sleep /\ doc'[d].by = merged.by
      BY <2>2, <3>1, <3>2
    <3>4. merged.by[f] = IF f \in req[r].given THEN r ELSE doc[Sleep].by[f]
      BY DEF Merged
    <3> QED BY <3>1, <3>3, <3>4
  <2> QED BY <2>1, <2>3, <2>4, <2>5, <2>6
<1> QED BY <1>1, RecordsInvariant, PTL DEF RecordsSpec, NoUpdateUndone

=============================================================================
