-------------------------- MODULE DurableSettlement --------------------------
(***************************************************************************)
(* How a Run's one terminal becomes durable (echo-sdk-host,                *)
(* core_profile/state.rs and persistence.rs, with the parts of handler.rs  *)
(* and mod.rs that call them).                                             *)
(*                                                                         *)
(* On disk: the run index, rewritten atomically under its own lock and     *)
(* pruned when it outgrows its bounds, and one journal per Run.  In        *)
(* memory: a slot per Run that still owes the index a settlement (the      *)
(* "debt"), the framework's receipts, the issued handles.  Everybody who   *)
(* sees a receipt may try to persist it: the collector spawned with the    *)
(* Run, every run/wait, the Session close, and the Host close that retries *)
(* what failed before.  The process may die between any two steps.         *)
(***************************************************************************)
EXTENDS Naturals, FiniteSets, FiniteSetsExt

CONSTANTS
  Runs,            \* Run identities, each allocated once by the framework
  Standard,        \* the Runs that standard session/prompt starts (no collector)
  Sessions,
  SessionOf,       \* Session of each Run
  Receipts,        \* the receipts the framework may settle a Run with
  Projectable,     \* those that receipt_wire and terminal_of accept
  Bytes,           \* bytes of an index record, by its receipt or None
  MaxEntries,      \* MAX_RUN_INDEX_ENTRIES
  MaxIndexBytes,   \* MAX_RUN_INDEX_BYTES
  MaxHandles,      \* limits.max_open_handles
  MaxSequence,     \* bound: events per Run
  MaxFaults,       \* bound: failed reads and writes of the index
  MaxGenerations,  \* bound: processes on one state root
  None             \* no receipt (Option::None)

ASSUME RunsAreFinite == IsFiniteSet(Runs) /\ Standard \subseteq Runs
ASSUME RunsHaveSessions == SessionOf \in [Runs -> Sessions]
ASSUME ReceiptData == /\ Projectable \subseteq Receipts
                      /\ Receipts \cap {None, "none", "open", "gone", "interrupted"} = {}
                      /\ None # "interrupted"
                      /\ Bytes \in [Receipts \cup {None} -> Nat]
ASSUME Bounds == /\ {MaxEntries, MaxIndexBytes, MaxHandles} \subseteq Nat
                 /\ {MaxSequence, MaxFaults, MaxGenerations} \subseteq Nat

VARIABLES
  index,           \* disk: run-index.json, a record for each Run in its domain
  journal,         \* disk: committed events of each Run
  generation,      \* disk: how many processes have started
  faults,          \* failed reads and writes so far
  begun,           \* Runs the framework has ever allocated (ids are not reused)
  process,         \* "down", "up", or "refused": install failed on the index
  recovered,       \* the index as this process loaded it
  stage,           \* run/start of each Run in this process
  receipt,         \* what RunEntry::receipt() answers
  debts,           \* durable_settlement_debt: None is a bare reservation
  owed,            \* Runs whose collector or driver has not persisted yet
  handle,          \* the Run handle: "none", "live" or "recovered"
  session,         \* "absent", "open", "closing" or "closed"
  closing,         \* Host close: its phase and the retries it still has to make
  settlementError, \* settlement_error
  told             \* what run/wait has answered about each Run, ever

disk == <<index, journal, generation, faults, begun, told>>
host == <<process, recovered, stage, receipt, debts, owed, handle, session,
          closing, settlementError>>
vars == <<disk, host>>

Stages == {"idle", "reserved", "recorded", "launched", "failed"}
Records == [status: {"running", "settled"}, receipt: Receipts \cup {None},
            last: 0..MaxSequence, place: Nat]
Phases == {"serving", "draining", "retrying", "failed", "closed"}
Interrupted == "interrupted"

TypeOK ==
  /\ DOMAIN index \subseteq Runs /\ \A r \in DOMAIN index : index[r] \in Records
  /\ DOMAIN recovered \subseteq Runs
  /\ \A r \in DOMAIN recovered : recovered[r] \in Records
  /\ journal \in [Runs -> 0..MaxSequence]
  /\ generation \in 0..MaxGenerations /\ faults \in 0..MaxFaults
  /\ begun \subseteq Runs
  /\ process \in {"down", "up", "refused"}
  /\ stage \in [Runs -> Stages]
  /\ receipt \in [Runs -> Receipts \cup {None}]
  /\ DOMAIN debts \subseteq Runs
  /\ \A r \in DOMAIN debts : debts[r] \in Receipts \cup {None}
  /\ owed \subseteq Runs
  /\ handle \in [Runs -> {"none", "live", "recovered"}]
  /\ session \in [Sessions -> {"absent", "open", "closing", "closed"}]
  /\ closing \in [phase: Phases, retries: SUBSET Runs, failed: BOOLEAN]
  /\ settlementError \in BOOLEAN
  /\ told \in [Runs -> SUBSET (Receipts \cup {Interrupted})]

-----------------------------------------------------------------------------
(* The run index: read-modify-write of one file, bounded by pruning.       *)

Without(f, S) == [r \in DOMAIN f \ S |-> f[r]]
With(f, r, v) == [q \in DOMAIN f \cup {r} |-> IF q = r THEN v ELSE f[q]]

IndexBytes(idx) == MapThenSumSet(LAMBDA r : Bytes[idx[r].receipt], DOMAIN idx)
Fits(idx) == Cardinality(DOMAIN idx) <= MaxEntries /\ IndexBytes(idx) <= MaxIndexBytes
RemovesAny(idx) == DOMAIN idx

\* A Run still marked running stays visible as Interrupted: it is never pruned.
Removable(idx) == {r \in DOMAIN idx : idx[r].status # "running"}

\* write_index drops the oldest settled records, in file order, until the rest fits.
Prunings(idx) ==
  {D \in SUBSET Removable(idx) :
     /\ \A d \in D, k \in Removable(idx) \ D : idx[d].place < idx[k].place
     /\ Fits(Without(idx, D))}
Written(idx) == Without(idx, CHOOSE D \in Prunings(idx) : \A E \in Prunings(idx) : D \subseteq E)

\* The index is replaced by idx, pruned; a write that fails leaves it as it was.
Writes(idx) == Prunings(idx) # {} /\ index' = Written(idx) /\ UNCHANGED faults
Fault == faults < MaxFaults /\ faults' = faults + 1 /\ UNCHANGED index
WriteFails(idx) == \/ Prunings(idx) = {} /\ UNCHANGED <<index, faults>>
                   \/ Fault

NextPlace == 1 + Max({0} \cup {index[r].place : r \in DOMAIN index})
Started(r) == With(index, r, [status |-> "running", receipt |-> None,
                              last |-> 0, place |-> NextPlace])
SettlesAtZero(r) == [index EXCEPT ![r].status = "settled", ![r].receipt = receipt[r]]
SettlesPastJournal(r) ==
  [index EXCEPT ![r].status = "settled", ![r].receipt = receipt[r], ![r].last = journal[r] + 1]

\* The record with its settlement: the receipt, and the ledger's last sequence.
Settled(r) == [index EXCEPT ![r].status = "settled", ![r].receipt = receipt[r],
                            ![r].last = journal[r]]

-----------------------------------------------------------------------------
(* persist_settled_receipt, one critical section of the debt lock.         *)

\* Without a slot only a durable record of the very same settlement will do.
Provable(r) ==
  /\ receipt[r] \in Projectable
  /\ r \in DOMAIN index
  /\ index[r].status = "settled"
  /\ index[r].receipt = receipt[r]
  /\ index[r].last = journal[r]

PersistsAgain(r) == r \notin DOMAIN debts /\ Provable(r) /\ UNCHANGED <<index, faults, debts>>
CannotProve(r) ==
  /\ r \notin DOMAIN debts
  /\ \/ ~Provable(r) /\ UNCHANGED <<index, faults>>
     \/ Fault
  /\ UNCHANGED debts

\* debts.remove, once the record is written.
Unburdened(r) == Without(debts, {r})

PersistsNow(r) ==
  /\ r \in DOMAIN debts
  /\ receipt[r] \in Projectable
  /\ r \in DOMAIN index
  /\ Writes(Settled(r))
  /\ debts' = Unburdened(r)

\* "Insert before fallible conversion/write": the receipt outlives the failure.
Burdened(r) == [debts EXCEPT ![r] = receipt[r]]

KeepsDebt(r) ==
  /\ r \in DOMAIN debts
  /\ \/ receipt[r] \notin Projectable /\ UNCHANGED <<index, faults>>
     \/ r \notin DOMAIN index /\ UNCHANGED <<index, faults>>
     \/ r \in DOMAIN index /\ WriteFails(Settled(r))
  /\ debts' = Burdened(r)

Persists(r) == PersistsAgain(r) \/ PersistsNow(r)
PersistFails(r) == CannotProve(r) \/ KeepsDebt(r)

-----------------------------------------------------------------------------
(* Starting a Run.                                                         *)

Launching(r) == stage[r] \in {"reserved", "recorded"}

ReleasesNothing(r) == UNCHANGED debts

\* release_durable_reservation: only a bare reservation is dropped.
Releases(r) == debts' = Without(debts, {q \in {r} : debts[q] = None})

\* reserve_durable_settlement, before anything else is done for the Run.
Reserve(r) ==
  /\ process = "up" /\ closing.phase = "serving"
  /\ r \notin begun \cup Standard /\ session[SessionOf[r]] = "open"
  /\ r \notin DOMAIN debts /\ Cardinality(DOMAIN debts) < MaxHandles
  /\ begun' = begun \cup {r}
  /\ debts' = With(debts, r, None)
  /\ stage' = [stage EXCEPT ![r] = "reserved"]
  /\ UNCHANGED <<index, journal, generation, faults, told, process, recovered, receipt,
                 owed, handle, session, closing, settlementError>>

\* record_run_started.
Record(r) ==
  /\ process = "up" /\ stage[r] = "reserved"
  /\ Writes(Started(r))
  /\ stage' = [stage EXCEPT ![r] = "recorded"]
  /\ UNCHANGED <<journal, generation, begun, told, process, recovered, receipt, debts,
                 owed, handle, session, closing, settlementError>>

\* A refusal before the record is written drops the reservation.
RefuseStart(r) ==
  /\ process = "up" /\ stage[r] = "reserved"
  /\ stage' = [stage EXCEPT ![r] = "failed"]
  /\ Releases(r)
  /\ UNCHANGED <<disk, process, recovered, receipt, owed, handle, session, closing,
                 settlementError>>

\* The driver and the collector are spawned and the reservation is admitted.
Launch(r) ==
  /\ process = "up" /\ stage[r] = "recorded"
  /\ stage' = [stage EXCEPT ![r] = "launched"]
  /\ handle' = [handle EXCEPT ![r] = "live"]
  /\ owed' = owed \cup {r}
  /\ UNCHANGED <<disk, process, recovered, receipt, debts, session, closing, settlementError>>

\* prepare_run, a handle or the spawn failed: the record is removed if that works.
Abandon(r) ==
  /\ process = "up" /\ stage[r] = "recorded"
  /\ Writes(Without(index, {r})) \/ Fault
  /\ stage' = [stage EXCEPT ![r] = "failed"]
  /\ Releases(r)
  /\ settlementError' \in {settlementError, TRUE}
  /\ UNCHANGED <<journal, generation, begun, told, process, recovered, receipt, owed,
                 handle, session, closing>>

\* register_standard_run: the framework's own driver will persist the receipt.
RegisterStandard(r) ==
  /\ process = "up" /\ closing.phase = "serving"
  /\ r \in Standard \ begun /\ session[SessionOf[r]] = "open"
  /\ r \notin DOMAIN debts /\ Cardinality(DOMAIN debts) < MaxHandles
  /\ Writes(Started(r))
  /\ begun' = begun \cup {r}
  /\ debts' = With(debts, r, None)
  /\ stage' = [stage EXCEPT ![r] = "launched"]
  /\ handle' = [handle EXCEPT ![r] = "live"]
  /\ owed' = owed \cup {r}
  /\ UNCHANGED <<journal, generation, told, process, recovered, receipt, session, closing,
                 settlementError>>

\* rollback_run: the framework could not start the Run it has just registered.
Rollback(r) ==
  /\ process = "up" /\ r \in Standard \cap owed /\ receipt[r] = None
  /\ handle[r] = "live"
  /\ Writes(Without(index, {r})) \/ Fault
  /\ Releases(r)
  /\ stage' = [stage EXCEPT ![r] = "failed"]
  /\ handle' = [handle EXCEPT ![r] = "none"]
  /\ owed' = owed \ {r}
  /\ UNCHANGED <<journal, generation, begun, told, process, recovered, receipt, session,
                 closing, settlementError>>

-----------------------------------------------------------------------------
(* The framework drives the Run (external): events, then one receipt.      *)

Running(r) == process = "up" /\ stage[r] = "launched" /\ receipt[r] = None

Append(r) ==
  /\ Running(r) /\ journal[r] < MaxSequence
  /\ journal' = [journal EXCEPT ![r] = @ + 1]
  /\ UNCHANGED <<index, generation, faults, begun, told, host>>

Settle(r) ==
  /\ Running(r)
  /\ \E x \in Receipts : receipt' = [receipt EXCEPT ![r] = x]
  /\ UNCHANGED <<disk, process, recovered, stage, debts, owed, handle, session, closing,
                 settlementError>>

-----------------------------------------------------------------------------
(* Those who persist the receipt.                                          *)

HasReceipt(r) == process = "up" /\ stage[r] = "launched" /\ receipt[r] # None

\* The collector (the driver of a standard Run) tries once; what fails stays a debt.
Collect(r) ==
  /\ HasReceipt(r) /\ r \in owed
  /\ Persists(r) \/ PersistFails(r)
  /\ owed' = owed \ {r}
  /\ UNCHANGED <<journal, generation, begun, told, process, recovered, stage, receipt,
                 handle, session, closing, settlementError>>

Answers(r, answer) == told' = [told EXCEPT ![r] = @ \cup {answer}]

\* The waiter gets an error it may retry.
Refuses(r) == PersistFails(r) /\ UNCHANGED told

\* run/wait on a live Run persists before it answers, and answers an error otherwise.
WaitLive(r) ==
  /\ HasReceipt(r) /\ handle[r] = "live"
  /\ \/ Persists(r) /\ Answers(r, receipt[r])
     \/ Refuses(r)
  /\ UNCHANGED <<journal, generation, begun, process, recovered, stage, receipt, owed,
                 handle, session, closing, settlementError>>

\* run/wait on a Run of an earlier process answers what the index said at install.
WaitRecovered(r) ==
  /\ process = "up" /\ handle[r] = "recovered"
  /\ Answers(r, IF recovered[r].status = "running" THEN Interrupted ELSE recovered[r].receipt)
  /\ UNCHANGED <<index, journal, generation, faults, begun, host>>

-----------------------------------------------------------------------------
(* Sessions: create or load, and close.                                    *)

RunsOf(s) == {r \in Runs : SessionOf[r] = s}

\* session/load registers the recovered Runs of the Session; a new one has none.
OpenSession(s) ==
  /\ process = "up" /\ session[s] \in {"absent", "closed"}
  /\ session' = [session EXCEPT ![s] = "open"]
  /\ handle' = [r \in Runs |-> IF r \in RunsOf(s) \cap DOMAIN recovered
                               THEN "recovered" ELSE handle[r]]
  /\ UNCHANGED <<disk, process, recovered, stage, receipt, debts, owed, closing,
                 settlementError>>

\* close_session_owned has the lifecycle lock: no start of the Session is under way.
BeginClose(s) ==
  /\ process = "up" /\ session[s] = "open"
  /\ \A r \in RunsOf(s) : ~Launching(r)
  /\ session' = [session EXCEPT ![s] = "closing"]
  /\ UNCHANGED <<disk, process, recovered, stage, receipt, debts, owed, handle, closing,
                 settlementError>>

\* The receipt has to be durable before the Run's handle goes.
MayForget(r) == HasReceipt(r) /\ Persists(r)

\* Each Run of the Session in turn, up to the first that cannot be persisted.
CloseRun(r) ==
  /\ session[SessionOf[r]] = "closing"
  /\ \/ handle[r] = "live" /\ MayForget(r)
     \/ process = "up" /\ handle[r] = "recovered" /\ UNCHANGED <<index, faults, debts>>
  /\ handle' = [handle EXCEPT ![r] = "none"]
  /\ UNCHANGED <<journal, generation, begun, told, process, recovered, stage, receipt,
                 owed, session, closing, settlementError>>

CloseRunFails(r) ==
  /\ session[SessionOf[r]] = "closing"
  /\ HasReceipt(r) /\ handle[r] = "live" /\ PersistFails(r)
  /\ UNCHANGED <<journal, generation, begun, told, process, recovered, stage, receipt,
                 owed, handle, session, closing, settlementError>>

EndClose(s) ==
  /\ process = "up" /\ session[s] = "closing"
  /\ \A r \in RunsOf(s) : handle[r] = "none"
  /\ session' = [session EXCEPT ![s] = "closed"]
  /\ UNCHANGED <<disk, process, recovered, stage, receipt, debts, owed, handle, closing,
                 settlementError>>

-----------------------------------------------------------------------------
(* Host close: fence, drain, retry the debts, answer.                      *)

\* pending_settlements: the collectors, and the publications that start a Run.
PendingSettlements == (owed \ Standard) \cup {r \in Runs : Launching(r)}

Fence ==
  /\ process = "up" /\ closing.phase \in {"serving", "failed"}
  /\ closing' = [closing EXCEPT !.phase = "draining"]
  /\ UNCHANGED <<disk, process, recovered, stage, receipt, debts, owed, handle, session,
                 settlementError>>

DrainTimesOut ==
  /\ process = "up" /\ closing.phase = "draining" /\ PendingSettlements # {}
  /\ closing' = [closing EXCEPT !.phase = "failed"]
  /\ UNCHANGED <<disk, process, recovered, stage, receipt, debts, owed, handle, session,
                 settlementError>>

\* The receipts to retry are read once, before the first of them is retried.
Drained ==
  /\ process = "up" /\ closing.phase = "draining" /\ PendingSettlements = {}
  /\ closing' = [phase |-> "retrying", failed |-> FALSE,
                 retries |-> {r \in DOMAIN debts : debts[r] # None}]
  /\ UNCHANGED <<disk, process, recovered, stage, receipt, debts, owed, handle, session,
                 settlementError>>

Retry(r) ==
  /\ HasReceipt(r) /\ closing.phase = "retrying" /\ r \in closing.retries
  /\ \/ Persists(r) /\ closing' = [closing EXCEPT !.retries = @ \ {r}]
     \/ PersistFails(r) /\ closing' = [closing EXCEPT !.retries = @ \ {r}, !.failed = TRUE]
  /\ UNCHANGED <<journal, generation, begun, told, process, recovered, stage, receipt,
                 owed, handle, session, settlementError>>

\* A recorded settlement error is reported once, after the debts are paid.
EndRetries ==
  /\ process = "up" /\ closing.phase = "retrying" /\ closing.retries = {}
  /\ closing' = [phase |-> IF closing.failed \/ settlementError THEN "failed" ELSE "closed",
                 retries |-> {}, failed |-> FALSE]
  /\ settlementError' = (settlementError /\ closing.failed)
  /\ UNCHANGED <<disk, process, recovered, stage, receipt, debts, owed, handle, session>>

-----------------------------------------------------------------------------
(* The process: it dies at any time; install reads the index again.        *)

Serving == [phase |-> "serving", retries |-> {}, failed |-> FALSE]

NoProcess ==
  /\ recovered = << >> /\ debts = << >> /\ owed = {}
  /\ stage = [r \in Runs |-> "idle"] /\ receipt = [r \in Runs |-> None]
  /\ handle = [r \in Runs |-> "none"] /\ session = [s \in Sessions |-> "absent"]
  /\ closing = Serving /\ settlementError = FALSE

Crash ==
  /\ process = "up"
  /\ process' = "down"
  /\ recovered' = << >> /\ debts' = << >> /\ owed' = {}
  /\ stage' = [r \in Runs |-> "idle"] /\ receipt' = [r \in Runs |-> None]
  /\ handle' = [r \in Runs |-> "none"] /\ session' = [s \in Sessions |-> "absent"]
  /\ closing' = Serving /\ settlementError' = FALSE
  /\ UNCHANGED disk

\* validate_recovered_journal: a settled record must end where its journal ends.
Valid(r) == index[r].status = "settled" =>
               index[r].receipt \in Projectable /\ index[r].last = journal[r]

Install ==
  /\ process = "down" /\ generation < MaxGenerations
  /\ generation' = generation + 1
  /\ process' = IF \A r \in DOMAIN index : Valid(r) THEN "up" ELSE "refused"
  /\ recovered' = [r \in DOMAIN index |-> [index[r] EXCEPT !.last = journal[r]]]
  /\ UNCHANGED <<index, journal, faults, begun, told, stage, receipt, debts, owed, handle,
                 session, closing, settlementError>>

Init ==
  /\ index = << >> /\ journal = [r \in Runs |-> 0] /\ generation = 0 /\ faults = 0
  /\ begun = {} /\ told = [r \in Runs |-> {}]
  /\ process = "down" /\ NoProcess

Next ==
  \/ \E r \in Runs :
       \/ Reserve(r) \/ Record(r) \/ RefuseStart(r) \/ Launch(r) \/ Abandon(r)
       \/ RegisterStandard(r) \/ Rollback(r)
       \/ Append(r) \/ Settle(r)
       \/ Collect(r) \/ WaitLive(r) \/ WaitRecovered(r)
       \/ CloseRun(r) \/ CloseRunFails(r) \/ Retry(r)
  \/ \E s \in Sessions : OpenSession(s) \/ BeginClose(s) \/ EndClose(s)
  \/ Fence \/ DrainTimesOut \/ Drained \/ EndRetries
  \/ Crash \/ Install

Spec == Init /\ [][Next]_vars

-----------------------------------------------------------------------------
(* Properties.                                                             *)

\* What run/wait has once answered is never contradicted, by a later answer or by
\* the index, in this process or after a restart; it may only be forgotten.
AnswersStand ==
  \A r \in Runs : \A answer \in told[r] :
    /\ told[r] = {answer}
    /\ answer = Interrupted => r \in DOMAIN index
    /\ r \in DOMAIN index =>
         answer = IF index[r].status = "running" THEN Interrupted ELSE index[r].receipt

\* A slot belongs to a start in progress or to a launched Run: none is leaked.  A
\* bare reservation of a launched Run has an observer that has still to persist it,
\* and the record its receipt has to rewrite is there: pruning spares what is owed.
DebtsAreKept ==
  \A r \in DOMAIN debts :
    \/ Launching(r)
    \/ /\ stage[r] = "launched"
       /\ debts[r] = None => r \in owed
       /\ r \in DOMAIN index /\ index[r].status = "running"

\* Whenever the process dies, the next one accepts the index and the journals it left.
RecoveryAccepts == process # "refused" /\ \A r \in DOMAIN index : Valid(r)

\* A Session that closed has left no receipt of its Runs that is not on disk, and a
\* Host close that succeeded no debt of a Run that has a collector.
ClosesAreDurable ==
  /\ \A r \in Runs : session[SessionOf[r]] = "closed" => r \notin DOMAIN debts
  /\ closing.phase = "closed" => (DOMAIN debts) \ Standard = {}

\* What was answered survives: no later answer, index or restart contradicts it, and
\* every process accepts what the one before it left on disk.
AnswersSurvive == AnswersStand /\ RecoveryAccepts

\* What is owed is settled before anything is declared closed, and forgotten nowhere.
DebtsAreSettled == DebtsAreKept /\ ClosesAreDurable

\* "Collector, RunWait and Session close may all observe the same completed receipt.
\* After the slot releases, prove idempotence from the durable projection" (state.rs):
\* once the slot is gone every further observer finds the proof it needs.
ReleasedIsProvable ==
  \A r \in Runs : stage[r] = "launched" /\ r \notin DOMAIN debts => Provable(r)

\* The durable life of each Run, as the index and the running process tell it.
History == [r \in Runs |->
  IF r \notin DOMAIN index
    THEN IF r \in begun /\ stage[r] # "reserved" THEN "gone" ELSE "none"
  ELSE IF index[r].status = "settled" THEN index[r].receipt
  ELSE IF stage[r] = "idle" THEN Interrupted ELSE "open"]

Durable == INSTANCE RunHistory WITH history <- History

\* The index, the debts and the restarts implement the life of a Run that
\* RunHistory states: settled once, interrupted for ever, never fabricated.
ImplementsHistory == Durable!Spec
=============================================================================
