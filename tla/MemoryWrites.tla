------------------------------ MODULE MemoryWrites ------------------------------
(***************************************************************************)
(* Writes into long-term memory (day_planner_agent/memory_tools.py).       *)
(* update_profile and save_memory answer the model at once; the write is a *)
(* background task of its own that makes up to three attempts and can tell *)
(* nobody but the log when it fails.                                       *)
(***************************************************************************)
EXTENDS Naturals

CONSTANTS
    Writes,             \* statements that the user makes
    MaxAttempts,        \* _BACKGROUND_WRITE_MAX_ATTEMPTS
    NoWrite

ASSUME MaxAttemptsAssumption == MaxAttempts \in Nat \ {0}
ASSUME NoWriteIsNone == NoWrite \notin Writes

VARIABLES
    task,               \* the background task of each statement
    adrift,             \* its attempts that Memory Bank still works on, unwaited for
    settled,            \* the writes that nothing was left of when it was made
    landed,             \* the statements that Memory Bank has received
    latest              \* the one it received last, which supersedes the others

memoryVars == <<task, adrift, settled, landed, latest>>

\* Under way; ended by themselves; cut off by the end of the process.
Pending == {"attempting", "answered", "pausing"}
Over == {"saved", "lost"}
Cut == {"cut"}

Task == [pc : {"unsaid", "declined"} \cup Pending \cup Over \cup Cut, tries : 0 .. MaxAttempts]

MemoryTypeOK ==
    /\ task \in [Writes -> Task]
    /\ adrift \in [Writes -> Nat]
    /\ settled \in [Writes -> SUBSET Writes]
    /\ landed \subseteq Writes
    /\ latest \in Writes \cup {NoWrite}

MemoryInit ==
    /\ task = [w \in Writes |-> [pc |-> "unsaid", tries |-> 0]]
    /\ adrift = [w \in Writes |-> 0]
    /\ settled = [w \in Writes |-> {}]
    /\ landed = {} /\ latest = NoWrite

\* The task has ended, and no attempt of it was left running.
Settled(w) == task[w].pc \in Over \cup Cut /\ adrift[w] = 0

\* No Memory Bank, nothing to save, or no client for it: the tool tells the model.
Decline(w) ==
    /\ task[w].pc = "unsaid"
    /\ task' = [task EXCEPT ![w].pc = "declined"]
    /\ UNCHANGED <<adrift, settled, landed, latest>>

\* The tool answers "success"; the first attempt begins.
ScheduleWrite(w) ==
    /\ task[w].pc = "unsaid"
    /\ task' = [task EXCEPT ![w] = [pc |-> "attempting", tries |-> 1]]
    /\ settled' = [settled EXCEPT ![w] = {v \in Writes : Settled(v)}]
    /\ UNCHANGED <<adrift, landed, latest>>

\* Faulty: without wait_for_completion the answer comes before the write.
LandsUnawaited(w) ==
    /\ task[w].pc \in {"attempting", "saved"}
    /\ task' = [task EXCEPT ![w].pc = IF task[w].pc = "attempting" THEN "answered" ELSE "saved"]
    /\ landed' = landed \cup {w} /\ latest' = w
    /\ UNCHANGED <<adrift, settled>>

\* generate or create, which waits for completion: the attempt is answered when
\* Memory Bank has the statement.
Lands(w) ==
    /\ task[w].pc = "attempting"
    /\ task' = [task EXCEPT ![w].pc = "answered"]
    /\ landed' = landed \cup {w} /\ latest' = w
    /\ UNCHANGED <<adrift, settled>>

Saved(w) ==
    /\ task[w].pc = "answered"
    /\ task' = [task EXCEPT ![w].pc = "saved"]
    /\ UNCHANGED <<adrift, settled, landed, latest>>

\* Faulty: whatever operation comes back is taken for a write that was made.
IgnoresOperationError(w) ==
    /\ task[w].pc \in {"attempting", "answered"}
    /\ task' = [task EXCEPT ![w].pc = "saved"]
    /\ UNCHANGED <<adrift, settled, landed, latest>>

\* An operation that carries an error, or an exception, whose operation may have
\* made the write or still be `running`. After the last attempt the loss is logged.
AttemptFails(w) ==
    /\ task[w].pc \in {"attempting", "answered"}
    /\ task' = [task EXCEPT ![w].pc = IF task[w].tries < MaxAttempts THEN "pausing" ELSE "lost"]
    /\ \E running \in IF task[w].pc = "attempting" THEN {0, 1} ELSE {0} :
           adrift' = [adrift EXCEPT ![w] = @ + running]
    /\ UNCHANGED <<settled, landed, latest>>

Resume(w) ==
    /\ task[w].pc = "pausing"
    /\ task' = [task EXCEPT ![w] = [pc |-> "attempting", tries |-> task[w].tries + 1]]
    /\ UNCHANGED <<adrift, settled, landed, latest>>

\* Memory Bank ends what nobody waits for any more: before or after the retry, the
\* end of the task, or what the user says next.
EndsUnheard(w) ==
    /\ adrift[w] > 0
    /\ adrift' = [adrift EXCEPT ![w] = @ - 1]
    /\ \/ landed' = landed \cup {w} /\ latest' = w
       \/ UNCHANGED <<landed, latest>>
    /\ UNCHANGED <<task, settled>>

\* The process ends, and with it every task that is pending; the operations of
\* their attempts may be `running` on.
Stop ==
    /\ \E w \in Writes : task[w].pc \in Pending
    /\ task' = [w \in Writes |->
                  IF task[w].pc \in Pending THEN [task[w] EXCEPT !.pc = "cut"] ELSE task[w]]
    /\ \E running \in SUBSET {w \in Writes : task[w].pc = "attempting"} :
           adrift' = [w \in Writes |-> IF w \in running THEN adrift[w] + 1 ELSE adrift[w]]
    /\ UNCHANGED <<settled, landed, latest>>

TaskStep(w) == Lands(w) \/ Saved(w) \/ AttemptFails(w) \/ Resume(w) \/ EndsUnheard(w)

\* The two tools differ in what they ask of Memory Bank: to merge a preference
\* into the profile, or to keep a fact.
UpdateProfile(w) == Decline(w) \/ ScheduleWrite(w)

SaveMemory(w) == Decline(w) \/ ScheduleWrite(w)

MemoryNext == Stop \/ \E w \in Writes : UpdateProfile(w) \/ SaveMemory(w) \/ TaskStep(w)

MemorySpec == MemoryInit /\ [][MemoryNext]_memoryVars

(***************************************************************************)
(* Properties.                                                             *)
(***************************************************************************)

\* A statement the model was told is being saved is lost for two reasons only:
\* every attempt failed, which is logged, or the process ended before.
NothingLostSilently ==
    \A w \in Writes \ landed :
        \/ task[w].pc \in {"unsaid", "declined"} \cup Pending \cup Cut
        \/ task[w].pc = "lost" /\ task[w].tries = MaxAttempts

\* A statement made when the write of an earlier one had ended, with none of its
\* attempts left running, supersedes it: the earlier one never lands on top of it.
\* Writes that are pending together may land in another order than the user spoke
\* (_write_with_retry's pauses), and so may an attempt whose wait was broken off by
\* an exception: its operation runs on, whatever the task and the user do next.
SettledOrder ==
    \A w \in landed : \A v \in settled[w] : latest # v

=============================================================================
