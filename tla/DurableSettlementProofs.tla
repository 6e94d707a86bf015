----------------------- MODULE DurableSettlementProofs -----------------------
(***************************************************************************)
(* Theorems about DurableSettlement for every set of Runs and Sessions,    *)
(* any bounds of the index and any number of faults and restarts: its type *)
(* invariant, AnswersSurvive, DebtsAreSettled, and that the index and the  *)
(* process implement RunHistory.                                           *)
(*                                                                         *)
(* The proof rests on two facts.  The prunings of an index are nested, so  *)
(* a write forgets a well-defined set of settled records (WritesSpare);    *)
(* and RunInv says, for each stage of a Run, which of the slot, the record,*)
(* the receipt and the answers exist and agree.  A step of one Run then    *)
(* preserves RunInv of the others because it spares their records          *)
(* (OthersKeep), and its own by the stage it moves to.                     *)
(***************************************************************************)
EXTENDS DurableSettlement, FiniteSetTheorems, TLAPS

-----------------------------------------------------------------------------
(* Writing the index.                                                      *)

\* The prunings of an index are nested: one of them is the least.
LEMMA LeastPruning ==
  ASSUME NEW idx, IsFiniteSet(DOMAIN idx), \A r \in DOMAIN idx : idx[r].place \in Nat,
         Prunings(idx) # {}
  PROVE  \E D \in Prunings(idx) : \A E \in Prunings(idx) : D \subseteq E
<1> DEFINE U == DOMAIN idx
<1>1. Prunings(idx) \subseteq SUBSET Removable(idx) /\ Removable(idx) \subseteq U
  BY DEF Prunings, Removable
<1>2. FiniteSubsetsOf(U) = SUBSET U
  BY FS_FiniteSubsetsOfFinite
<1>3. Prunings(idx) \subseteq FiniteSubsetsOf(U)
  BY <1>1, <1>2
<1>4. PICK D \in Prunings(idx) : \A E \in Prunings(idx) : <<E, D>> \notin StrictSubsetOrdering(U)
  BY <1>3, FS_StrictSubsetOrderingWellFounded, WFMin
<1>5. ASSUME NEW E \in Prunings(idx)
      PROVE  D \subseteq E
  <2>1. ~(E \subseteq D /\ E # D)
    BY <1>1, <1>4 DEF StrictSubsetOrdering
  <2>2. SUFFICES ASSUME NEW d \in D, d \notin E, NEW e \in E, e \notin D
                 PROVE  FALSE
    BY <2>1
  <2>3. idx[d].place < idx[e].place /\ idx[e].place < idx[d].place
    BY <2>2, <1>1 DEF Prunings
  <2> QED
    BY <1>1, <2>2, <2>3
<1> QED
  BY <1>5

\* A write forgets settled records only, and changes none.
LEMMA WritesSpare ==
  ASSUME NEW idx, IsFiniteSet(DOMAIN idx), \A r \in DOMAIN idx : idx[r].place \in Nat,
         Writes(idx)
  PROVE  /\ DOMAIN index' \subseteq DOMAIN idx
         /\ \A r \in DOMAIN index' : index'[r] = idx[r]
         /\ \A r \in DOMAIN idx : idx[r].status = "running" => r \in DOMAIN index'
         /\ faults' = faults
<1>1. PICK D \in Prunings(idx) : index' = Without(idx, D)
  BY LeastPruning DEF Writes, Written
<1>2. D \subseteq {r \in DOMAIN idx : idx[r].status # "running"}
  BY DEF Prunings, Removable
<1> QED
  BY <1>1, <1>2 DEF Without, Writes

\* The file has a last record, so the next one has a place.
LEMMA NextPlaceIsNatural ==
  ASSUME IsFiniteSet(DOMAIN index), \A r \in DOMAIN index : index[r].place \in Nat
  PROVE  NextPlace \in Nat
<1> DEFINE U == DOMAIN index
           Above(r) == {q \in U : index[q].place > index[r].place}
           S == {0} \cup {index[r].place : r \in U}
<1>1. \E m \in S : \A n \in S : m >= n
  <2>1. CASE U = {}
    BY <2>1
  <2>2. CASE U # {}
    <3> DEFINE T == {Above(r) : r \in U}
    <3>1. T \subseteq FiniteSubsetsOf(U) /\ T # {}
      <4>1. FiniteSubsetsOf(U) = SUBSET U
        BY FS_FiniteSubsetsOfFinite
      <4>2. T \subseteq SUBSET U /\ T # {}
        BY <2>2
      <4> QED
        BY <4>1, <4>2
    <3>2. PICK A \in T : \A B \in T : <<B, A>> \notin StrictSubsetOrdering(U)
      BY <3>1, FS_StrictSubsetOrderingWellFounded, WFMin
    <3>3. PICK r \in U : A = Above(r)
      OBVIOUS
    <3>4. ASSUME NEW q \in Above(r)
          PROVE  FALSE
      <4>1. Above(q) \subseteq Above(r) /\ q \notin Above(q) /\ Above(q) \in T
        OBVIOUS
      <4> QED
        BY <3>2, <3>3, <4>1 DEF StrictSubsetOrdering
    <3>5. \A q \in U : index[r].place >= index[q].place
      BY <3>4
    <3> QED
      BY <3>5
  <2> QED
    BY <2>1, <2>2
<1>2. S \subseteq Nat
  OBVIOUS
<1>3. Max(S) \in S
  BY <1>1 DEF Max
<1> QED
  BY <1>2, <1>3 DEF NextPlace

-----------------------------------------------------------------------------
(* The inductive invariant.                                                *)

AnswerOf(r) == IF recovered[r].status = "running" THEN Interrupted ELSE recovered[r].receipt

\* A Run that has not begun has left no trace.
Fresh(r) ==
  r \notin begun => stage[r] = "idle" /\ r \notin DOMAIN index /\ r \notin DOMAIN recovered
                    /\ told[r] = {}

\* A Run of an earlier process is as that process left it on disk.
Idle(r) ==
  stage[r] = "idle" =>
    /\ r \notin DOMAIN debts /\ r \notin owed /\ receipt[r] = None /\ handle[r] # "live"
    /\ process = "up" /\ r \in DOMAIN index =>
         r \in DOMAIN recovered /\ recovered[r].status = index[r].status
                                /\ recovered[r].receipt = index[r].receipt

Recovered(r) ==
  /\ handle[r] = "recovered" => r \in DOMAIN recovered
  /\ r \in DOMAIN recovered =>
       /\ stage[r] = "idle" /\ told[r] \subseteq {AnswerOf(r)}
       /\ IF recovered[r].status = "running" THEN r \in DOMAIN index /\ index[r].status = "running"
          ELSE recovered[r].receipt \in Projectable

\* A start holds a bare reservation, and no one has seen the Run yet.
Unseen(r) ==
  r \notin owed /\ receipt[r] = None /\ handle[r] = "none" /\ told[r] = {}
Starting(r) ==
  /\ Launching(r) => /\ Unseen(r) /\ session[SessionOf[r]] = "open"
                     /\ r \in DOMAIN debts /\ debts[r] = None
  /\ stage[r] = "reserved" => r \notin DOMAIN index
  /\ stage[r] = "recorded" => r \in DOMAIN index /\ index[r].status = "running"
Failed(r) ==
  stage[r] = "failed" => /\ Unseen(r) /\ r \notin DOMAIN debts
                         /\ r \in DOMAIN index => index[r].status = "running"

\* A launched Run has a slot and a record to rewrite, or its receipt was written.
Launched(r) ==
  stage[r] = "launched" =>
    /\ told[r] # {} => told[r] = {receipt[r]} /\ r \notin DOMAIN debts
    /\ r \in DOMAIN debts => /\ r \in DOMAIN index /\ index[r].status = "running"
                             /\ debts[r] \in {None, receipt[r]} /\ handle[r] = "live"
                             /\ debts[r] = None => r \in owed
    /\ r \notin DOMAIN debts => /\ receipt[r] \in Projectable
                                /\ r \in DOMAIN index => /\ index[r].status = "settled"
                                                         /\ index[r].receipt = receipt[r]
                                                         /\ index[r].last = journal[r]

Consistent(r) ==
  /\ \A answer \in told[r] :
       /\ told[r] = {answer}
       /\ answer = Interrupted => r \in DOMAIN index
       /\ r \in DOMAIN index =>
            answer = IF index[r].status = "running" THEN Interrupted ELSE index[r].receipt
  /\ r \in DOMAIN index => Valid(r)

RunInv(r) ==
  /\ Fresh(r) /\ Idle(r) /\ Recovered(r) /\ Starting(r) /\ Failed(r) /\ Launched(r)
  /\ Consistent(r)
  /\ session[SessionOf[r]] = "closed" => handle[r] = "none"

\* From the drain on no collector is left, and what is owed is being retried.
Settling ==
  closing.phase \in {"retrying", "closed"} =>
    /\ PendingSettlements = {}
    /\ closing.phase = "closed" \/ ~closing.failed =>
         DOMAIN debts \ Standard \subseteq closing.retries
    /\ closing.phase = "closed" => closing.retries = {}

Down == process # "up" => process = "down" /\ NoProcess

IInv == TypeOK /\ Down /\ Settling /\ \A r \in Runs : RunInv(r)

-----------------------------------------------------------------------------
(* What the writers of the index do to it.                                 *)

Typed(idx) == DOMAIN idx \subseteq Runs /\ \A r \in DOMAIN idx : idx[r] \in Records

LEMMA RecordFields ==
  ASSUME NEW x \in Records
  PROVE  /\ x.place \in Nat /\ x.last \in 0..MaxSequence
         /\ x.receipt \in Receipts \cup {None} /\ x.status \in {"running", "settled"}
BY DEF Records

LEMMA TypedIndex ==
  ASSUME NEW idx, Typed(idx)
  PROVE  IsFiniteSet(DOMAIN idx) /\ \A r \in DOMAIN idx : idx[r].place \in Nat
<1>1. IsFiniteSet(DOMAIN idx)
  BY RunsAreFinite, FS_Subset DEF Typed
<1> QED
  BY <1>1, RecordFields DEF Typed

\* The record of a Run is as it was, or was settled and is forgotten.
Spares(q) ==
  /\ q \in DOMAIN index' => q \in DOMAIN index /\ index'[q] = index[q]
  /\ q \in DOMAIN index /\ index[q].status = "running" => q \in DOMAIN index'

LEMMA StartedWrites ==
  ASSUME Typed(index), NEW r \in Runs, Writes(Started(r))
  PROVE  /\ Typed(index)' /\ faults' = faults
         /\ r \in DOMAIN index' /\ index'[r].status = "running"
         /\ \A q \in Runs \ {r} : Spares(q)
<1> DEFINE x == [status |-> "running", receipt |-> None, last |-> 0, place |-> NextPlace]
<1>1. x \in Records
  BY TypedIndex, NextPlaceIsNatural, Bounds DEF Records
<1>2. /\ DOMAIN Started(r) = DOMAIN index \cup {r} /\ Started(r)[r] = x
      /\ \A q \in DOMAIN index \ {r} : Started(r)[q] = index[q]
  BY DEF Started, With
<1> HIDE DEF x
<1>3. Typed(Started(r))
  BY <1>1, <1>2 DEF Typed
<1>4. /\ DOMAIN index' \subseteq DOMAIN Started(r) /\ faults' = faults
      /\ \A q \in DOMAIN index' : index'[q] = Started(r)[q]
      /\ \A q \in DOMAIN Started(r) : Started(r)[q].status = "running" => q \in DOMAIN index'
  BY <1>3, TypedIndex, WritesSpare
<1>5. x.status = "running"
  BY DEF x
<1> QED
  BY <1>1, <1>2, <1>3, <1>4, <1>5 DEF Typed, Spares

LEMMA WithdrawnWrites ==
  ASSUME Typed(index), NEW r \in Runs, Writes(Without(index, {r}))
  PROVE  /\ Typed(index)' /\ faults' = faults /\ r \notin DOMAIN index'
         /\ \A q \in Runs \ {r} : Spares(q)
<1> DEFINE idx == Without(index, {r})
<1>1. DOMAIN idx = DOMAIN index \ {r} /\ \A q \in DOMAIN index \ {r} : idx[q] = index[q]
  BY DEF Without
<1> HIDE DEF idx
<1>2. Typed(idx)
  BY <1>1 DEF Typed
<1>3. /\ DOMAIN index' \subseteq DOMAIN idx /\ faults' = faults
      /\ \A q \in DOMAIN index' : index'[q] = idx[q]
      /\ \A q \in DOMAIN idx : idx[q].status = "running" => q \in DOMAIN index'
  BY <1>2, TypedIndex, WritesSpare DEF idx
<1> QED
  BY <1>1, <1>2, <1>3 DEF Typed, Spares

LEMMA SettledWrites ==
  ASSUME TypeOK, NEW r \in Runs, r \in DOMAIN index, receipt[r] \in Projectable,
         Writes(Settled(r))
  PROVE  /\ Typed(index)' /\ faults' = faults
         /\ r \in DOMAIN index' => /\ index'[r].status = "settled" /\ index'[r].receipt = receipt[r]
                                   /\ index'[r].last = journal[r]
         /\ \A q \in Runs \ {r} : Spares(q)
<1> DEFINE x == [status |-> "settled", receipt |-> receipt[r], last |-> journal[r],
                 place |-> index[r].place]
<1>1. Typed(index) /\ receipt[r] \in Receipts /\ journal[r] \in 0..MaxSequence
  BY ReceiptData DEF TypeOK, Typed
<1>2. index[r] \in Records
  BY <1>1 DEF Typed
<1>3. x \in Records
  BY <1>1, <1>2 DEF Records
<1>4. Settled(r)[r] = x
  BY <1>2 DEF Settled, Records
<1>5. DOMAIN Settled(r) = DOMAIN index /\ \A q \in DOMAIN index \ {r} : Settled(r)[q] = index[q]
  BY DEF Settled
<1>6. x.status = "settled" /\ x.receipt = receipt[r] /\ x.last = journal[r]
  OBVIOUS
<1> HIDE DEF x
<1>7. Typed(Settled(r))
  BY <1>1, <1>3, <1>4, <1>5 DEF Typed
<1>8. /\ DOMAIN index' \subseteq DOMAIN Settled(r) /\ faults' = faults
      /\ \A q \in DOMAIN index' : index'[q] = Settled(r)[q]
      /\ \A q \in DOMAIN Settled(r) : Settled(r)[q].status = "running" => q \in DOMAIN index'
  BY <1>7, TypedIndex, WritesSpare
<1> QED
  BY <1>1, <1>3, <1>4, <1>5, <1>6, <1>7, <1>8 DEF Typed, Spares

\* The slot of a Run is as it was.
SlotStays(q) ==
  /\ q \in DOMAIN debts' <=> q \in DOMAIN debts
  /\ q \in DOMAIN debts => debts'[q] = debts[q]

\* The index and the debts of a step that fails or that settles a Run.
LEMMA PersistsMoves ==
  ASSUME TypeOK, NEW r \in Runs, Persists(r)
  PROVE  /\ Typed(index)' /\ faults' \in 0..MaxFaults /\ r \notin DOMAIN debts'
         /\ receipt[r] \in Projectable
         /\ r \in DOMAIN index' => /\ r \in DOMAIN index /\ index'[r].status = "settled"
                                   /\ index'[r].receipt = receipt[r] /\ index'[r].last = journal[r]
         /\ \A q \in Runs \ {r} : Spares(q) /\ SlotStays(q)
         /\ DOMAIN debts' \subseteq DOMAIN debts
<1>1. CASE PersistsAgain(r)
  BY <1>1 DEF PersistsAgain, Provable, Spares, SlotStays, TypeOK, Typed
<1>2. CASE PersistsNow(r)
  <2>1. r \in DOMAIN index /\ receipt[r] \in Projectable /\ Writes(Settled(r))
        /\ debts' = Without(debts, {r})
    BY <1>2 DEF PersistsNow, Unburdened
  <2>2. r \notin DOMAIN debts' /\ DOMAIN debts' \subseteq DOMAIN debts
        /\ \A q \in Runs \ {r} : SlotStays(q)
    BY <2>1 DEF Without, SlotStays
  <2>3. r \in DOMAIN index' => r \in DOMAIN index
    BY <2>1
  <2>4. faults' \in 0..MaxFaults
    BY <2>1, SettledWrites DEF TypeOK
  <2> QED
    BY <2>1, <2>2, <2>3, <2>4, SettledWrites
<1> QED
  BY <1>1, <1>2 DEF Persists

LEMMA PersistFailsMoves ==
  ASSUME TypeOK, NEW r \in Runs, PersistFails(r)
  PROVE  /\ index' = index /\ faults' \in 0..MaxFaults
         /\ \A q \in Runs \ {r} : Spares(q) /\ SlotStays(q)
         /\ DOMAIN debts' = DOMAIN debts
         /\ r \in DOMAIN debts => debts'[r] = receipt[r]
<1> USE DEF Fault, WriteFails, Spares, SlotStays, TypeOK
<1>1. CASE CannotProve(r)
  BY <1>1, Bounds DEF CannotProve
<1>2. CASE KeepsDebt(r)
  BY <1>2, Bounds DEF KeepsDebt, Burdened
<1> QED
  BY <1>1, <1>2 DEF PersistFails

LEMMA ReleasesMoves ==
  ASSUME NEW r \in Runs, Releases(r)
  PROVE  /\ \A q \in Runs \ {r} : SlotStays(q)
         /\ r \in DOMAIN debts /\ debts[r] = None => r \notin DOMAIN debts'
         /\ DOMAIN debts' \subseteq DOMAIN debts
         /\ \A q \in DOMAIN debts' : debts'[q] = debts[q]
BY DEF Releases, Without, SlotStays

-----------------------------------------------------------------------------
(* The steps of a Run.                                                     *)

RunStep(r) ==
  \/ Reserve(r) \/ Record(r) \/ RefuseStart(r) \/ Launch(r) \/ Abandon(r)
  \/ RegisterStandard(r) \/ Rollback(r) \/ Append(r) \/ Settle(r)
  \/ Collect(r) \/ WaitLive(r) \/ WaitRecovered(r)
  \/ CloseRun(r) \/ CloseRunFails(r) \/ Retry(r)

USE DEF disk, host

LEMMA IndexIsTyped == TypeOK => Typed(index)
BY DEF TypeOK, Typed

\* The other Runs are as they were, but for settled records that make room.
LEMMA ElsewhereIndex ==
  ASSUME NEW r \in Runs, TypeOK, RunStep(r)
  PROVE  \A q \in Runs \ {r} : Spares(q) /\ SlotStays(q)
<1>1. CASE Reserve(r)
  BY <1>1 DEF Reserve, With, Spares, SlotStays, Fault, Typed, TypeOK
<1>2. CASE Record(r)
  BY <1>2, StartedWrites, IndexIsTyped DEF Record, Spares, SlotStays, Fault, Typed, TypeOK
<1>3. CASE RefuseStart(r)
  BY <1>3, ReleasesMoves DEF RefuseStart, Spares, SlotStays, Fault, Typed, TypeOK
<1>4. CASE Launch(r)
  BY <1>4 DEF Launch, Spares, SlotStays, Fault, Typed, TypeOK
<1>5. CASE Abandon(r)
  BY <1>5, WithdrawnWrites, ReleasesMoves, IndexIsTyped DEF Abandon, Fault, Spares, SlotStays,
       Typed, TypeOK
<1>6. CASE RegisterStandard(r)
  BY <1>6, StartedWrites, IndexIsTyped DEF RegisterStandard, With, Spares, SlotStays, Fault,
       Typed, TypeOK
<1>7. CASE Rollback(r)
  BY <1>7, WithdrawnWrites, ReleasesMoves, IndexIsTyped DEF Rollback, Fault, Spares, SlotStays,
       Typed, TypeOK
<1>8. CASE Append(r)
  BY <1>8 DEF Append, Running, Spares, SlotStays, Fault, Typed, TypeOK
<1>9. CASE Settle(r)
  BY <1>9 DEF Settle, Running, Spares, SlotStays, Fault, Typed, TypeOK
<1>10. CASE Collect(r)
  BY <1>10, PersistsMoves, PersistFailsMoves DEF Collect, HasReceipt
<1>11. CASE WaitLive(r)
  BY <1>11, PersistsMoves, PersistFailsMoves DEF WaitLive, HasReceipt, Refuses, Answers
<1>12. CASE WaitRecovered(r)
  BY <1>12 DEF WaitRecovered, Answers, Spares, SlotStays, Fault, Typed, TypeOK
<1>13. CASE CloseRun(r)
  BY <1>13, PersistsMoves, PersistFailsMoves DEF CloseRun, MayForget, HasReceipt, Spares,
       SlotStays, Fault, Typed, TypeOK
<1>14. CASE CloseRunFails(r)
  BY <1>14, PersistsMoves, PersistFailsMoves DEF CloseRunFails, HasReceipt
<1>15. CASE Retry(r)
  BY <1>15, PersistsMoves, PersistFailsMoves DEF Retry, HasReceipt
<1> QED
  BY <1>1, <1>2, <1>3, <1>4, <1>5, <1>6, <1>7, <1>8, <1>9, <1>10, <1>11, <1>12, <1>13, <1>14,
       <1>15 DEF RunStep

LEMMA ElsewhereState ==
  ASSUME NEW r \in Runs, TypeOK, Down, RunStep(r)
  PROVE  /\ process = "up" /\ UNCHANGED <<process, recovered, session>>
         /\ \A q \in Runs \ {r} :
              /\ stage'[q] = stage[q] /\ receipt'[q] = receipt[q] /\ handle'[q] = handle[q]
              /\ told'[q] = told[q] /\ journal'[q] = journal[q]
              /\ (q \in owed' <=> q \in owed) /\ (q \in begun' <=> q \in begun)
<1> USE DEF TypeOK
<1>1. CASE Reserve(r)
  BY <1>1 DEF Reserve, With
<1>2. CASE Record(r)
  BY <1>2, StartedWrites, IndexIsTyped DEF Record
<1>3. CASE RefuseStart(r)
  BY <1>3, ReleasesMoves DEF RefuseStart
<1>4. CASE Launch(r)
  BY <1>4 DEF Launch
<1>5. CASE Abandon(r)
  BY <1>5, WithdrawnWrites, ReleasesMoves, IndexIsTyped DEF Abandon, Fault
<1>6. CASE RegisterStandard(r)
  BY <1>6, StartedWrites, IndexIsTyped DEF RegisterStandard, With
<1>7. CASE Rollback(r)
  BY <1>7, WithdrawnWrites, ReleasesMoves, IndexIsTyped DEF Rollback, Fault
<1>8. CASE Append(r)
  BY <1>8 DEF Append, Running
<1>9. CASE Settle(r)
  BY <1>9 DEF Settle, Running
<1>10. CASE Collect(r)
  BY <1>10, PersistsMoves, PersistFailsMoves DEF Collect, HasReceipt
<1>11. CASE WaitLive(r)
  BY <1>11, PersistsMoves, PersistFailsMoves DEF WaitLive, HasReceipt, Refuses, Answers
<1>12. CASE WaitRecovered(r)
  BY <1>12 DEF WaitRecovered, Answers
<1>13. CASE CloseRun(r)
  BY <1>13, PersistsMoves, PersistFailsMoves DEF CloseRun, MayForget, HasReceipt, Down, NoProcess
<1>14. CASE CloseRunFails(r)
  BY <1>14, PersistsMoves, PersistFailsMoves DEF CloseRunFails, HasReceipt
<1>15. CASE Retry(r)
  BY <1>15, PersistsMoves, PersistFailsMoves DEF Retry, HasReceipt
<1> QED
  BY <1>1, <1>2, <1>3, <1>4, <1>5, <1>6, <1>7, <1>8, <1>9, <1>10, <1>11, <1>12, <1>13, <1>14,
       <1>15 DEF RunStep

LEMMA StepTypedDisk ==
  ASSUME NEW r \in Runs, TypeOK, RunStep(r)
  PROVE  Typed(index)' /\ faults' \in 0..MaxFaults
<1> USE DEF TypeOK, Typed
<1>1. CASE Reserve(r)
  BY <1>1, Bounds DEF Reserve, With
<1>2. CASE Record(r)
  BY <1>2, StartedWrites, IndexIsTyped, Bounds DEF Record
<1>3. CASE RefuseStart(r)
  BY <1>3, ReleasesMoves, Bounds DEF RefuseStart
<1>4. CASE Launch(r)
  BY <1>4, Bounds DEF Launch
<1>5. CASE Abandon(r)
  BY <1>5, WithdrawnWrites, ReleasesMoves, IndexIsTyped, Bounds DEF Abandon, Fault
<1>6. CASE RegisterStandard(r)
  BY <1>6, StartedWrites, IndexIsTyped, Bounds DEF RegisterStandard, With
<1>7. CASE Rollback(r)
  BY <1>7, WithdrawnWrites, ReleasesMoves, IndexIsTyped, Bounds DEF Rollback, Fault
<1>8. CASE Append(r)
  BY <1>8, Bounds DEF Append, Running
<1>9. CASE Settle(r)
  BY <1>9, Bounds DEF Settle, Running
<1>10. CASE Collect(r)
  BY <1>10, PersistsMoves, PersistFailsMoves, Bounds DEF Collect, HasReceipt
<1>11. CASE WaitLive(r)
  BY <1>11, PersistsMoves, PersistFailsMoves, Bounds DEF WaitLive, HasReceipt, Refuses, Answers
<1>12. CASE WaitRecovered(r)
  BY <1>12, Bounds DEF WaitRecovered, Answers
<1>13. CASE CloseRun(r)
  BY <1>13, PersistsMoves, PersistFailsMoves, Bounds DEF CloseRun, MayForget, HasReceipt
<1>14. CASE CloseRunFails(r)
  BY <1>14, PersistsMoves, PersistFailsMoves, Bounds DEF CloseRunFails, HasReceipt
<1>15. CASE Retry(r)
  BY <1>15, PersistsMoves, PersistFailsMoves, Bounds DEF Retry, HasReceipt
<1> QED
  BY <1>1, <1>2, <1>3, <1>4, <1>5, <1>6, <1>7, <1>8, <1>9, <1>10, <1>11, <1>12, <1>13, <1>14,
       <1>15 DEF RunStep

LEMMA StepTypedDebts ==
  ASSUME NEW r \in Runs, TypeOK, RunStep(r)
  PROVE  (/\ DOMAIN debts \subseteq Runs
             /\ \A q \in DOMAIN debts : debts[q] \in Receipts \cup {None})'
<1> USE DEF TypeOK
<1>1. CASE Reserve(r)
  BY <1>1, ReceiptData DEF Reserve, With, SlotStays
<1>2. CASE Record(r)
  BY <1>2, StartedWrites, IndexIsTyped, ReceiptData DEF Record, SlotStays
<1>3. CASE RefuseStart(r)
  BY <1>3, ReleasesMoves, ReceiptData DEF RefuseStart, SlotStays
<1>4. CASE Launch(r)
  BY <1>4, ReceiptData DEF Launch, SlotStays
<1>5. CASE Abandon(r)
  BY <1>5, WithdrawnWrites, ReleasesMoves, IndexIsTyped, ReceiptData DEF Abandon, Fault, SlotStays
<1>6. CASE RegisterStandard(r)
  BY <1>6, StartedWrites, IndexIsTyped, ReceiptData DEF RegisterStandard, With, SlotStays
<1>7. CASE Rollback(r)
  BY <1>7, WithdrawnWrites, ReleasesMoves, IndexIsTyped, ReceiptData DEF Rollback, Fault,
       SlotStays
<1>8. CASE Append(r)
  BY <1>8, ReceiptData DEF Append, Running, SlotStays
<1>9. CASE Settle(r)
  BY <1>9, ReceiptData DEF Settle, Running, SlotStays
<1>10. CASE Collect(r)
  BY <1>10, PersistsMoves, PersistFailsMoves, ReceiptData DEF Collect, HasReceipt, SlotStays
<1>11. CASE WaitLive(r)
  BY <1>11, PersistsMoves, PersistFailsMoves, ReceiptData DEF WaitLive, HasReceipt, Refuses,
       Answers, SlotStays
<1>12. CASE WaitRecovered(r)
  BY <1>12, ReceiptData DEF WaitRecovered, Answers, SlotStays
<1>13. CASE CloseRun(r)
  BY <1>13, PersistsMoves, PersistFailsMoves, ReceiptData DEF CloseRun, MayForget, HasReceipt,
       SlotStays
<1>14. CASE CloseRunFails(r)
  BY <1>14, PersistsMoves, PersistFailsMoves, ReceiptData DEF CloseRunFails, HasReceipt, SlotStays
<1>15. CASE Retry(r)
  BY <1>15, PersistsMoves, PersistFailsMoves, ReceiptData DEF Retry, HasReceipt, SlotStays
<1> QED
  BY <1>1, <1>2, <1>3, <1>4, <1>5, <1>6, <1>7, <1>8, <1>9, <1>10, <1>11, <1>12, <1>13, <1>14,
       <1>15 DEF RunStep

LEMMA StepTypedState ==
  ASSUME NEW r \in Runs, TypeOK, RunStep(r)
  PROVE  (/\ journal \in [Runs -> 0..MaxSequence] /\ generation \in 0..MaxGenerations
             /\ begun \subseteq Runs
         /\ stage \in [Runs -> Stages] /\ receipt \in [Runs -> Receipts \cup {None}] /\ owed \subseteq Runs
         /\ handle \in [Runs -> {"none", "live", "recovered"}] /\ settlementError \in BOOLEAN
         /\ closing \in [phase: Phases, retries: SUBSET Runs, failed: BOOLEAN])'
<1> USE DEF TypeOK, Stages
<1>1. CASE Reserve(r)
  BY <1>1, Bounds DEF Reserve, With
<1>2. CASE Record(r)
  BY <1>2, StartedWrites, IndexIsTyped, Bounds DEF Record
<1>3. CASE RefuseStart(r)
  BY <1>3, ReleasesMoves, Bounds DEF RefuseStart
<1>4. CASE Launch(r)
  BY <1>4, Bounds DEF Launch
<1>5. CASE Abandon(r)
  BY <1>5, WithdrawnWrites, ReleasesMoves, IndexIsTyped, Bounds DEF Abandon, Fault
<1>6. CASE RegisterStandard(r)
  BY <1>6, StartedWrites, IndexIsTyped, Bounds DEF RegisterStandard, With
<1>7. CASE Rollback(r)
  BY <1>7, WithdrawnWrites, ReleasesMoves, IndexIsTyped, Bounds DEF Rollback, Fault
<1>8. CASE Append(r)
  BY <1>8, Bounds DEF Append, Running
<1>9. CASE Settle(r)
  BY <1>9, Bounds DEF Settle, Running
<1>10. CASE Collect(r)
  BY <1>10, PersistsMoves, PersistFailsMoves, Bounds DEF Collect, HasReceipt
<1>11. CASE WaitLive(r)
  BY <1>11, PersistsMoves, PersistFailsMoves, Bounds DEF WaitLive, HasReceipt, Refuses, Answers
<1>12. CASE WaitRecovered(r)
  BY <1>12, Bounds DEF WaitRecovered, Answers
<1>13. CASE CloseRun(r)
  BY <1>13, PersistsMoves, PersistFailsMoves, Bounds DEF CloseRun, MayForget, HasReceipt
<1>14. CASE CloseRunFails(r)
  BY <1>14, PersistsMoves, PersistFailsMoves, Bounds DEF CloseRunFails, HasReceipt
<1>15. CASE Retry(r)
  <2>1. /\ UNCHANGED <<journal, generation, begun, stage, receipt, owed, handle, settlementError>>
        /\ \/ closing' = [closing EXCEPT !.retries = closing.retries \ {r}]
           \/ closing' = [closing EXCEPT !.retries = closing.retries \ {r}, !.failed = TRUE]
    BY <1>15 DEF Retry
  <2>2. closing' \in [phase: Phases, retries: SUBSET Runs, failed: BOOLEAN]
    <3>1. ASSUME NEW c \in [phase: Phases, retries: SUBSET Runs, failed: BOOLEAN], NEW d,
                 \/ d = [c EXCEPT !.retries = c.retries \ {r}]
                 \/ d = [c EXCEPT !.retries = c.retries \ {r}, !.failed = TRUE]
          PROVE  d \in [phase: Phases, retries: SUBSET Runs, failed: BOOLEAN]
      <4>1. c.retries \ {r} \subseteq Runs
        BY <3>1
      <4> QED
        BY <3>1, <4>1
    <3>2. closing \in [phase: Phases, retries: SUBSET Runs, failed: BOOLEAN]
      OBVIOUS
    <3> QED
      BY <2>1, <3>1, <3>2
  <2> QED
    BY <2>1, <2>2
<1> QED
  BY <1>1, <1>2, <1>3, <1>4, <1>5, <1>6, <1>7, <1>8, <1>9, <1>10, <1>11, <1>12, <1>13, <1>14,
       <1>15 DEF RunStep

LEMMA StepTypedTold ==
  ASSUME NEW r \in Runs, TypeOK, RunInv(r), RunStep(r)
  PROVE  told' \in [Runs -> SUBSET (Receipts \cup {Interrupted})]
<1> USE DEF TypeOK
<1>1. CASE Reserve(r)
  BY <1>1, ReceiptData DEF Reserve, With
<1>2. CASE Record(r)
  BY <1>2, StartedWrites, IndexIsTyped, ReceiptData DEF Record
<1>3. CASE RefuseStart(r)
  BY <1>3, ReleasesMoves, ReceiptData DEF RefuseStart
<1>4. CASE Launch(r)
  BY <1>4, ReceiptData DEF Launch
<1>5. CASE Abandon(r)
  BY <1>5, WithdrawnWrites, ReleasesMoves, IndexIsTyped, ReceiptData DEF Abandon, Fault
<1>6. CASE RegisterStandard(r)
  BY <1>6, StartedWrites, IndexIsTyped, ReceiptData DEF RegisterStandard, With
<1>7. CASE Rollback(r)
  BY <1>7, WithdrawnWrites, ReleasesMoves, IndexIsTyped, ReceiptData DEF Rollback, Fault
<1>8. CASE Append(r)
  BY <1>8, ReceiptData DEF Append, Running
<1>9. CASE Settle(r)
  BY <1>9, ReceiptData DEF Settle, Running
<1>10. CASE Collect(r)
  BY <1>10, PersistsMoves, PersistFailsMoves, ReceiptData DEF Collect, HasReceipt
<1>11. CASE WaitLive(r)
  BY <1>11, PersistsMoves, PersistFailsMoves, ReceiptData DEF WaitLive, HasReceipt, Refuses,
       Answers, Persists
<1>12. CASE WaitRecovered(r)
  BY <1>12, ReceiptData DEF WaitRecovered, Answers, RunInv, Recovered, Idle
<1>13. CASE CloseRun(r)
  BY <1>13, PersistsMoves, PersistFailsMoves, ReceiptData DEF CloseRun, MayForget, HasReceipt
<1>14. CASE CloseRunFails(r)
  BY <1>14, PersistsMoves, PersistFailsMoves, ReceiptData DEF CloseRunFails, HasReceipt
<1>15. CASE Retry(r)
  BY <1>15, PersistsMoves, PersistFailsMoves, ReceiptData DEF Retry, HasReceipt
<1> QED
  BY <1>1, <1>2, <1>3, <1>4, <1>5, <1>6, <1>7, <1>8, <1>9, <1>10, <1>11, <1>12, <1>13, <1>14,
       <1>15 DEF RunStep

\* What holds of a Run survives the steps of the others.
LEMMA OthersKeep ==
  ASSUME TypeOK, Down, NEW r \in Runs, RunStep(r), NEW q \in Runs \ {r}, RunInv(q)
  PROVE  RunInv(q)'
<1>1. Spares(q) /\ SlotStays(q)
  BY ElsewhereIndex
<1>2. /\ process = "up" /\ process' = process /\ recovered' = recovered /\ session' = session
      /\ stage'[q] = stage[q] /\ receipt'[q] = receipt[q] /\ handle'[q] = handle[q]
      /\ told'[q] = told[q] /\ journal'[q] = journal[q]
      /\ (q \in owed' <=> q \in owed) /\ (q \in begun' <=> q \in begun)
  BY ElsewhereState
<1> USE <1>1, <1>2 DEF RunInv, Spares, SlotStays
<1>3. (Fresh(q) /\ Idle(q))'
  BY DEF Fresh, Idle
<1>4. (Recovered(q) /\ Starting(q))'
  BY DEF Recovered, Starting, Unseen, Launching, AnswerOf
<1>5. (Failed(q) /\ Launched(q))'
  BY DEF Failed, Launched, Unseen
<1>6. (Consistent(q))'
  <2>1. q \in DOMAIN index => index[q].status \in {"running", "settled"}
    BY RecordFields DEF TypeOK
  <2>2. (q \in DOMAIN index => Valid(q))'
    BY DEF Consistent, Valid
  <2>3. ASSUME NEW answer \in told[q], answer = Interrupted
        PROVE  q \in DOMAIN index /\ index[q].status = "running"
    <3>1. q \in DOMAIN index
      BY <2>3 DEF Consistent
    <3>2. index[q].status = "settled" => index[q].receipt \in Receipts
      BY <3>1, ReceiptData DEF Consistent, Valid
    <3> QED
      BY <2>1, <2>3, <3>1, <3>2, ReceiptData DEF Consistent, Interrupted
  <2> QED
    BY <2>2, <2>3 DEF Consistent
<1>7. (session[SessionOf[q]] = "closed" => handle[q] = "none")'
  OBVIOUS
<1> QED
  BY <1>3, <1>4, <1>5, <1>6, <1>7

LEMMA OwnFresh ==
  ASSUME NEW r \in Runs, TypeOK, Down, RunInv(r), RunStep(r)
  PROVE  Fresh(r)'
<1> USE DEF Fresh, TypeOK
<1>1. CASE Reserve(r)
  BY <1>1 DEF Reserve, With, RunInv, Idle, Starting, Launching, Recovered
<1>2. CASE Record(r)
  BY <1>2, StartedWrites, IndexIsTyped DEF Record, RunInv, Idle, Starting, Launching, Recovered
<1>3. CASE RefuseStart(r)
  BY <1>3, ReleasesMoves DEF RefuseStart, RunInv, Idle, Starting, Launching, Recovered
<1>4. CASE Launch(r)
  BY <1>4 DEF Launch, RunInv, Idle, Starting, Launching, Recovered
<1>5. CASE Abandon(r)
  BY <1>5, WithdrawnWrites, ReleasesMoves, IndexIsTyped DEF Abandon, Fault, RunInv, Idle,
       Starting, Launching, Recovered
<1>6. CASE RegisterStandard(r)
  BY <1>6, StartedWrites, IndexIsTyped DEF RegisterStandard, With, RunInv, Idle, Starting,
       Launching, Recovered
<1>7. CASE Rollback(r)
  BY <1>7, WithdrawnWrites, ReleasesMoves, IndexIsTyped DEF Rollback, Fault, RunInv, Idle,
       Starting, Launching, Recovered
<1>8. CASE Append(r)
  BY <1>8 DEF Append, Running, RunInv, Idle, Starting, Launching, Recovered
<1>9. CASE Settle(r)
  BY <1>9 DEF Settle, Running, RunInv, Idle, Starting, Launching, Recovered
<1>10. CASE Collect(r)
  BY <1>10, PersistsMoves, PersistFailsMoves DEF Collect, HasReceipt, RunInv, Idle, Starting,
       Launching, Recovered
<1>11. CASE WaitLive(r)
  BY <1>11, PersistsMoves, PersistFailsMoves DEF WaitLive, HasReceipt, Refuses, Answers, RunInv,
       Idle, Starting, Launching, Recovered
<1>12. CASE WaitRecovered(r)
  BY <1>12 DEF WaitRecovered, Answers, RunInv, Idle, Starting, Launching, Recovered
<1>13. CASE CloseRun(r)
  BY <1>13, PersistsMoves, PersistFailsMoves DEF CloseRun, MayForget, HasReceipt, RunInv, Idle,
       Starting, Launching, Recovered
<1>14. CASE CloseRunFails(r)
  BY <1>14, PersistsMoves, PersistFailsMoves DEF CloseRunFails, HasReceipt, RunInv, Idle,
       Starting, Launching, Recovered
<1>15. CASE Retry(r)
  BY <1>15, PersistsMoves, PersistFailsMoves DEF Retry, HasReceipt, RunInv, Idle, Starting,
       Launching, Recovered
<1> QED
  BY <1>1, <1>2, <1>3, <1>4, <1>5, <1>6, <1>7, <1>8, <1>9, <1>10, <1>11, <1>12, <1>13, <1>14,
       <1>15 DEF RunStep

LEMMA OwnIdle ==
  ASSUME NEW r \in Runs, TypeOK, Down, RunInv(r), RunStep(r)
  PROVE  Idle(r)'
<1> USE DEF Idle, TypeOK
<1>1. CASE Reserve(r)
  BY <1>1 DEF Reserve, With, RunInv, Fresh, Recovered, Launched
<1>2. CASE Record(r)
  BY <1>2, StartedWrites, IndexIsTyped DEF Record, RunInv, Fresh, Recovered, Launched
<1>3. CASE RefuseStart(r)
  BY <1>3, ReleasesMoves DEF RefuseStart, RunInv, Fresh, Recovered, Launched
<1>4. CASE Launch(r)
  BY <1>4 DEF Launch, RunInv, Fresh, Recovered, Launched
<1>5. CASE Abandon(r)
  BY <1>5, WithdrawnWrites, ReleasesMoves, IndexIsTyped DEF Abandon, Fault, RunInv, Fresh,
       Recovered, Launched
<1>6. CASE RegisterStandard(r)
  BY <1>6, StartedWrites, IndexIsTyped DEF RegisterStandard, With, RunInv, Fresh, Recovered,
       Launched
<1>7. CASE Rollback(r)
  BY <1>7, WithdrawnWrites, ReleasesMoves, IndexIsTyped DEF Rollback, Fault, RunInv, Fresh,
       Recovered, Launched
<1>8. CASE Append(r)
  BY <1>8 DEF Append, Running, RunInv, Fresh, Recovered, Launched
<1>9. CASE Settle(r)
  BY <1>9 DEF Settle, Running, RunInv, Fresh, Recovered, Launched
<1>10. CASE Collect(r)
  BY <1>10, PersistsMoves, PersistFailsMoves DEF Collect, HasReceipt, RunInv, Fresh, Recovered,
       Launched
<1>11. CASE WaitLive(r)
  BY <1>11, PersistsMoves, PersistFailsMoves DEF WaitLive, HasReceipt, Refuses, Answers, RunInv,
       Fresh, Recovered, Launched
<1>12. CASE WaitRecovered(r)
  BY <1>12 DEF WaitRecovered, Answers, RunInv, Fresh, Recovered, Launched
<1>13. CASE CloseRun(r)
  BY <1>13, PersistsMoves, PersistFailsMoves DEF CloseRun, MayForget, HasReceipt, RunInv, Fresh,
       Recovered, Launched
<1>14. CASE CloseRunFails(r)
  BY <1>14, PersistsMoves, PersistFailsMoves DEF CloseRunFails, HasReceipt, RunInv, Fresh,
       Recovered, Launched
<1>15. CASE Retry(r)
  BY <1>15, PersistsMoves, PersistFailsMoves DEF Retry, HasReceipt, RunInv, Fresh, Recovered,
       Launched
<1> QED
  BY <1>1, <1>2, <1>3, <1>4, <1>5, <1>6, <1>7, <1>8, <1>9, <1>10, <1>11, <1>12, <1>13, <1>14,
       <1>15 DEF RunStep

LEMMA OwnRecovered ==
  ASSUME NEW r \in Runs, TypeOK, Down, RunInv(r), RunStep(r)
  PROVE  Recovered(r)'
<1> USE DEF Recovered, TypeOK, AnswerOf
<1>1. CASE Reserve(r)
  BY <1>1 DEF Reserve, With, RunInv, Fresh, Idle, Starting, Unseen, Failed
<1>2. CASE Record(r)
  BY <1>2, StartedWrites, IndexIsTyped DEF Record, RunInv, Fresh, Idle, Starting, Unseen, Failed
<1>3. CASE RefuseStart(r)
  BY <1>3, ReleasesMoves DEF RefuseStart, RunInv, Fresh, Idle, Starting, Unseen, Failed
<1>4. CASE Launch(r)
  BY <1>4 DEF Launch, RunInv, Fresh, Idle, Starting, Unseen, Failed
<1>5. CASE Abandon(r)
  BY <1>5, WithdrawnWrites, ReleasesMoves, IndexIsTyped DEF Abandon, Fault, RunInv, Fresh, Idle,
       Starting, Unseen, Failed
<1>6. CASE RegisterStandard(r)
  BY <1>6, StartedWrites, IndexIsTyped DEF RegisterStandard, With, RunInv, Fresh, Idle,
       Starting, Unseen, Failed
<1>7. CASE Rollback(r)
  BY <1>7, WithdrawnWrites, ReleasesMoves, IndexIsTyped DEF Rollback, Fault, RunInv, Fresh,
       Idle, Starting, Unseen, Failed
<1>8. CASE Append(r)
  BY <1>8 DEF Append, Running, RunInv, Fresh, Idle, Starting, Unseen, Failed
<1>9. CASE Settle(r)
  BY <1>9 DEF Settle, Running, RunInv, Fresh, Idle, Starting, Unseen, Failed
<1>10. CASE Collect(r)
  BY <1>10, PersistsMoves, PersistFailsMoves DEF Collect, HasReceipt, RunInv, Fresh, Idle,
       Starting, Unseen, Failed
<1>11. CASE WaitLive(r)
  BY <1>11, PersistsMoves, PersistFailsMoves DEF WaitLive, HasReceipt, Refuses, Answers, RunInv,
       Fresh, Idle, Starting, Unseen, Failed
<1>12. CASE WaitRecovered(r)
  BY <1>12 DEF WaitRecovered, Answers, RunInv, Fresh, Idle, Starting, Unseen, Failed
<1>13. CASE CloseRun(r)
  BY <1>13, PersistsMoves, PersistFailsMoves DEF CloseRun, MayForget, HasReceipt, RunInv, Fresh,
       Idle, Starting, Unseen, Failed
<1>14. CASE CloseRunFails(r)
  BY <1>14, PersistsMoves, PersistFailsMoves DEF CloseRunFails, HasReceipt, RunInv, Fresh, Idle,
       Starting, Unseen, Failed
<1>15. CASE Retry(r)
  BY <1>15, PersistsMoves, PersistFailsMoves DEF Retry, HasReceipt, RunInv, Fresh, Idle,
       Starting, Unseen, Failed
<1> QED
  BY <1>1, <1>2, <1>3, <1>4, <1>5, <1>6, <1>7, <1>8, <1>9, <1>10, <1>11, <1>12, <1>13, <1>14,
       <1>15 DEF RunStep

LEMMA OwnStarting ==
  ASSUME NEW r \in Runs, TypeOK, Down, RunInv(r), RunStep(r)
  PROVE  Starting(r)'
<1> USE DEF Starting, TypeOK, Unseen, Launching
<1>1. CASE Reserve(r)
  BY <1>1 DEF Reserve, With, RunInv, Fresh, Idle, Recovered
<1>2. CASE Record(r)
  BY <1>2, StartedWrites, IndexIsTyped DEF Record, RunInv, Fresh, Idle, Recovered
<1>3. CASE RefuseStart(r)
  BY <1>3, ReleasesMoves DEF RefuseStart, RunInv, Fresh, Idle, Recovered
<1>4. CASE Launch(r)
  BY <1>4 DEF Launch, RunInv, Fresh, Idle, Recovered
<1>5. CASE Abandon(r)
  BY <1>5, WithdrawnWrites, ReleasesMoves, IndexIsTyped DEF Abandon, Fault, RunInv, Fresh, Idle,
       Recovered
<1>6. CASE RegisterStandard(r)
  BY <1>6, StartedWrites, IndexIsTyped DEF RegisterStandard, With, RunInv, Fresh, Idle, Recovered
<1>7. CASE Rollback(r)
  BY <1>7, WithdrawnWrites, ReleasesMoves, IndexIsTyped DEF Rollback, Fault, RunInv, Fresh,
       Idle, Recovered
<1>8. CASE Append(r)
  BY <1>8 DEF Append, Running, RunInv, Fresh, Idle, Recovered
<1>9. CASE Settle(r)
  BY <1>9 DEF Settle, Running, RunInv, Fresh, Idle, Recovered
<1>10. CASE Collect(r)
  BY <1>10, PersistsMoves, PersistFailsMoves DEF Collect, HasReceipt, RunInv, Fresh, Idle,
       Recovered
<1>11. CASE WaitLive(r)
  BY <1>11, PersistsMoves, PersistFailsMoves DEF WaitLive, HasReceipt, Refuses, Answers, RunInv,
       Fresh, Idle, Recovered
<1>12. CASE WaitRecovered(r)
  BY <1>12 DEF WaitRecovered, Answers, RunInv, Fresh, Idle, Recovered
<1>13. CASE CloseRun(r)
  BY <1>13, PersistsMoves, PersistFailsMoves DEF CloseRun, MayForget, HasReceipt, RunInv, Fresh,
       Idle, Recovered
<1>14. CASE CloseRunFails(r)
  BY <1>14, PersistsMoves, PersistFailsMoves DEF CloseRunFails, HasReceipt, RunInv, Fresh, Idle,
       Recovered
<1>15. CASE Retry(r)
  BY <1>15, PersistsMoves, PersistFailsMoves DEF Retry, HasReceipt, RunInv, Fresh, Idle, Recovered
<1> QED
  BY <1>1, <1>2, <1>3, <1>4, <1>5, <1>6, <1>7, <1>8, <1>9, <1>10, <1>11, <1>12, <1>13, <1>14,
       <1>15 DEF RunStep

LEMMA OwnFailed ==
  ASSUME NEW r \in Runs, TypeOK, Down, RunInv(r), RunStep(r)
  PROVE  Failed(r)'
<1> USE DEF Failed, TypeOK, Unseen, Stages
<1>1. CASE Reserve(r)
  BY <1>1 DEF Reserve, With, RunInv, Starting, Launching, Launched, Recovered, Idle
<1>2. CASE Record(r)
  BY <1>2, StartedWrites, IndexIsTyped DEF Record, RunInv, Starting, Launching, Launched,
       Recovered, Idle
<1>3. CASE RefuseStart(r)
  BY <1>3, ReleasesMoves DEF RefuseStart, RunInv, Starting, Launching, Launched, Recovered, Idle
<1>4. CASE Launch(r)
  BY <1>4 DEF Launch, RunInv, Starting, Launching, Launched, Recovered, Idle
<1>5. CASE Abandon(r)
  BY <1>5, WithdrawnWrites, ReleasesMoves, IndexIsTyped DEF Abandon, Fault, RunInv, Starting,
       Launching, Launched, Recovered, Idle
<1>6. CASE RegisterStandard(r)
  BY <1>6, StartedWrites, IndexIsTyped DEF RegisterStandard, With, RunInv, Starting, Launching,
       Launched, Recovered, Idle
<1>7. CASE Rollback(r)
  BY <1>7, WithdrawnWrites, ReleasesMoves, IndexIsTyped, ReceiptData DEF Rollback, Fault,
       RunInv, Starting, Launching, Launched, Recovered, Idle
<1>8. CASE Append(r)
  BY <1>8 DEF Append, Running, RunInv, Starting, Launching, Launched, Recovered, Idle
<1>9. CASE Settle(r)
  BY <1>9 DEF Settle, Running, RunInv, Starting, Launching, Launched, Recovered, Idle
<1>10. CASE Collect(r)
  BY <1>10, PersistsMoves, PersistFailsMoves DEF Collect, HasReceipt, RunInv, Starting,
       Launching, Launched, Recovered, Idle
<1>11. CASE WaitLive(r)
  BY <1>11, PersistsMoves, PersistFailsMoves DEF WaitLive, HasReceipt, Refuses, Answers, RunInv,
       Starting, Launching, Launched, Recovered, Idle
<1>12. CASE WaitRecovered(r)
  BY <1>12 DEF WaitRecovered, Answers, RunInv, Starting, Launching, Launched, Recovered, Idle
<1>13. CASE CloseRun(r)
  BY <1>13, PersistsMoves, PersistFailsMoves DEF CloseRun, MayForget, HasReceipt, RunInv,
       Starting, Launching, Launched, Recovered, Idle
<1>14. CASE CloseRunFails(r)
  BY <1>14, PersistsMoves, PersistFailsMoves DEF CloseRunFails, HasReceipt, RunInv, Starting,
       Launching, Launched, Recovered, Idle
<1>15. CASE Retry(r)
  BY <1>15, PersistsMoves, PersistFailsMoves DEF Retry, HasReceipt, RunInv, Starting, Launching,
       Launched, Recovered, Idle
<1> QED
  BY <1>1, <1>2, <1>3, <1>4, <1>5, <1>6, <1>7, <1>8, <1>9, <1>10, <1>11, <1>12, <1>13, <1>14,
       <1>15 DEF RunStep

LEMMA OwnLaunched ==
  ASSUME NEW r \in Runs, TypeOK, Down, RunInv(r), RunStep(r)
  PROVE  Launched(r)'
<1> USE DEF Launched, TypeOK
<1>1. CASE Reserve(r)
  BY <1>1, ReceiptData DEF Reserve, With, RunInv, Starting, Launching, Unseen, Fresh, Idle,
       Recovered
<1>2. CASE Record(r)
  BY <1>2, StartedWrites, IndexIsTyped, ReceiptData DEF Record, RunInv, Starting, Launching,
       Unseen, Fresh, Idle, Recovered
<1>3. CASE RefuseStart(r)
  BY <1>3, ReleasesMoves, ReceiptData DEF RefuseStart, RunInv, Starting, Launching, Unseen,
       Fresh, Idle, Recovered
<1>4. CASE Launch(r)
  BY <1>4, ReceiptData DEF Launch, RunInv, Starting, Launching, Unseen, Fresh, Idle, Recovered
<1>5. CASE Abandon(r)
  BY <1>5, WithdrawnWrites, ReleasesMoves, IndexIsTyped, ReceiptData DEF Abandon, Fault, RunInv,
       Starting, Launching, Unseen, Fresh, Idle, Recovered
<1>6. CASE RegisterStandard(r)
  BY <1>6, StartedWrites, IndexIsTyped, ReceiptData DEF RegisterStandard, With, RunInv,
       Starting, Launching, Unseen, Fresh, Idle, Recovered
<1>7. CASE Rollback(r)
  BY <1>7, WithdrawnWrites, ReleasesMoves, IndexIsTyped, ReceiptData DEF Rollback, Fault,
       RunInv, Starting, Launching, Unseen, Fresh, Idle, Recovered
<1>8. CASE Append(r)
  BY <1>8, ReceiptData DEF Append, Running, RunInv, Starting, Launching, Unseen, Fresh, Idle,
       Recovered
<1>9. CASE Settle(r)
  BY <1>9, ReceiptData DEF Settle, Running, RunInv, Starting, Launching, Unseen, Fresh, Idle,
       Recovered
<1>10. CASE Collect(r)
  BY <1>10, PersistsMoves, PersistFailsMoves, ReceiptData DEF Collect, HasReceipt, RunInv,
       Starting, Launching, Unseen, Fresh, Idle, Recovered
<1>11. CASE WaitLive(r)
  BY <1>11, PersistsMoves, PersistFailsMoves, ReceiptData DEF WaitLive, HasReceipt, Refuses,
       Answers, RunInv, Starting, Launching, Unseen, Fresh, Idle, Recovered
<1>12. CASE WaitRecovered(r)
  BY <1>12, ReceiptData DEF WaitRecovered, Answers, RunInv, Starting, Launching, Unseen, Fresh,
       Idle, Recovered
<1>13. CASE CloseRun(r)
  BY <1>13, PersistsMoves, PersistFailsMoves, ReceiptData DEF CloseRun, MayForget, HasReceipt,
       RunInv, Starting, Launching, Unseen, Fresh, Idle, Recovered
<1>14. CASE CloseRunFails(r)
  BY <1>14, PersistsMoves, PersistFailsMoves, ReceiptData DEF CloseRunFails, HasReceipt, RunInv,
       Starting, Launching, Unseen, Fresh, Idle, Recovered
<1>15. CASE Retry(r)
  BY <1>15, PersistsMoves, PersistFailsMoves, ReceiptData DEF Retry, HasReceipt, RunInv,
       Starting, Launching, Unseen, Fresh, Idle, Recovered
<1> QED
  BY <1>1, <1>2, <1>3, <1>4, <1>5, <1>6, <1>7, <1>8, <1>9, <1>10, <1>11, <1>12, <1>13, <1>14,
       <1>15 DEF RunStep

\* A Run of this process is consistent by the stage it has reached.
LEMMA ConsistentByStage ==
  ASSUME TypeOK', NEW r \in Runs, stage'[r] # "idle", Starting(r)', Failed(r)', Launched(r)'
  PROVE  Consistent(r)'
<1>1. CASE stage'[r] = "launched" /\ r \notin DOMAIN debts'
  BY <1>1, ReceiptData DEF Launched, Consistent, Valid, Interrupted
<1>2. CASE stage'[r] = "launched" /\ r \in DOMAIN debts'
  BY <1>2 DEF Launched, Consistent, Valid
<1>3. CASE Launching(r)' \/ stage'[r] = "failed"
  BY <1>3 DEF Starting, Failed, Unseen, Launching, Consistent, Valid
<1> QED
  BY <1>1, <1>2, <1>3 DEF TypeOK, Stages, Launching

LEMMA KeepsIdle ==
  ASSUME NEW r \in Runs, TypeOK, Down, RunInv(r), RunStep(r)
  PROVE  stage'[r] = "idle" => stage[r] = "idle" /\ (told'[r] = told[r] \/ (r \in DOMAIN recovered /\ told'[r] = told[r] \cup {AnswerOf(r)})) /\ UNCHANGED <<index, journal>>
<1> USE DEF TypeOK
<1>1. CASE Reserve(r)
  BY <1>1 DEF Reserve, With
<1>2. CASE Record(r)
  BY <1>2, StartedWrites, IndexIsTyped DEF Record
<1>3. CASE RefuseStart(r)
  BY <1>3, ReleasesMoves DEF RefuseStart
<1>4. CASE Launch(r)
  BY <1>4 DEF Launch
<1>5. CASE Abandon(r)
  BY <1>5, WithdrawnWrites, ReleasesMoves, IndexIsTyped DEF Abandon, Fault
<1>6. CASE RegisterStandard(r)
  BY <1>6, StartedWrites, IndexIsTyped DEF RegisterStandard, With
<1>7. CASE Rollback(r)
  BY <1>7, WithdrawnWrites, ReleasesMoves, IndexIsTyped DEF Rollback, Fault
<1>8. CASE Append(r)
  BY <1>8 DEF Append, Running
<1>9. CASE Settle(r)
  BY <1>9 DEF Settle, Running
<1>10. CASE Collect(r)
  BY <1>10, PersistsMoves, PersistFailsMoves DEF Collect, HasReceipt, RunInv, Idle
<1>11. CASE WaitLive(r)
  BY <1>11, PersistsMoves, PersistFailsMoves DEF WaitLive, HasReceipt, Refuses, Answers
<1>12. CASE WaitRecovered(r)
  BY <1>12 DEF WaitRecovered, Answers, RunInv, Recovered, AnswerOf
<1>13. CASE CloseRun(r)
  BY <1>13, PersistsMoves, PersistFailsMoves DEF CloseRun, MayForget, HasReceipt, RunInv,
       Recovered, Idle
<1>14. CASE CloseRunFails(r)
  BY <1>14, PersistsMoves, PersistFailsMoves DEF CloseRunFails, HasReceipt
<1>15. CASE Retry(r)
  BY <1>15, PersistsMoves, PersistFailsMoves DEF Retry, HasReceipt
<1> QED
  BY <1>1, <1>2, <1>3, <1>4, <1>5, <1>6, <1>7, <1>8, <1>9, <1>10, <1>11, <1>12, <1>13, <1>14,
       <1>15 DEF RunStep

LEMMA OwnConsistent ==
  ASSUME TypeOK, TypeOK', Down, NEW r \in Runs, RunInv(r), RunStep(r)
  PROVE  Consistent(r)'
<1>1. CASE stage'[r] # "idle"
  BY <1>1, OwnStarting, OwnFailed, OwnLaunched, ConsistentByStage
<1>2. CASE stage'[r] = "idle"
  <2>1. process = "up" /\ stage[r] = "idle" /\ index' = index /\ journal' = journal
    BY <1>2, KeepsIdle, ElsewhereState
  <2>2. CASE told'[r] = told[r]
    BY <2>1, <2>2 DEF RunInv, Consistent, Valid
  <2>3. CASE r \in DOMAIN recovered /\ told'[r] = told[r] \cup {AnswerOf(r)}
    <3>1. told'[r] = {AnswerOf(r)}
      BY <2>3 DEF RunInv, Recovered
    <3>2. AnswerOf(r) = Interrupted => r \in DOMAIN index
      BY <2>3, ReceiptData DEF RunInv, Recovered, AnswerOf, Interrupted
    <3>3. r \in DOMAIN index => AnswerOf(r) = IF index[r].status = "running" THEN Interrupted
                                              ELSE index[r].receipt
      BY <2>1 DEF RunInv, Idle, AnswerOf
    <3> QED
      BY <2>1, <3>1, <3>2, <3>3 DEF RunInv, Consistent, Valid
  <2> QED
    BY <1>2, <2>2, <2>3, KeepsIdle
<1> QED
  BY <1>1, <1>2

LEMMA OwnHandle ==
  ASSUME NEW r \in Runs, TypeOK, Down, RunInv(r), RunStep(r)
  PROVE  (session[SessionOf[r]] = "closed" => handle[r] = "none")'
<1> USE DEF RunInv, TypeOK
<1>1. CASE Reserve(r)
  BY <1>1 DEF Reserve, With, Starting, Launching
<1>2. CASE Record(r)
  BY <1>2, StartedWrites, IndexIsTyped DEF Record, Starting, Launching
<1>3. CASE RefuseStart(r)
  BY <1>3, ReleasesMoves DEF RefuseStart, Starting, Launching
<1>4. CASE Launch(r)
  BY <1>4 DEF Launch, Starting, Launching
<1>5. CASE Abandon(r)
  BY <1>5, WithdrawnWrites, ReleasesMoves, IndexIsTyped DEF Abandon, Fault, Starting, Launching
<1>6. CASE RegisterStandard(r)
  BY <1>6, StartedWrites, IndexIsTyped DEF RegisterStandard, With, Starting, Launching
<1>7. CASE Rollback(r)
  BY <1>7, WithdrawnWrites, ReleasesMoves, IndexIsTyped DEF Rollback, Fault, Starting, Launching
<1>8. CASE Append(r)
  BY <1>8 DEF Append, Running, Starting, Launching
<1>9. CASE Settle(r)
  BY <1>9 DEF Settle, Running, Starting, Launching
<1>10. CASE Collect(r)
  BY <1>10, PersistsMoves, PersistFailsMoves DEF Collect, HasReceipt, Starting, Launching
<1>11. CASE WaitLive(r)
  BY <1>11, PersistsMoves, PersistFailsMoves DEF WaitLive, HasReceipt, Refuses, Answers,
       Starting, Launching
<1>12. CASE WaitRecovered(r)
  BY <1>12 DEF WaitRecovered, Answers, Starting, Launching
<1>13. CASE CloseRun(r)
  BY <1>13, PersistsMoves, PersistFailsMoves DEF CloseRun, MayForget, HasReceipt, Starting,
       Launching
<1>14. CASE CloseRunFails(r)
  BY <1>14, PersistsMoves, PersistFailsMoves DEF CloseRunFails, HasReceipt, Starting, Launching
<1>15. CASE Retry(r)
  BY <1>15, PersistsMoves, PersistFailsMoves DEF Retry, HasReceipt, Starting, Launching
<1> QED
  BY <1>1, <1>2, <1>3, <1>4, <1>5, <1>6, <1>7, <1>8, <1>9, <1>10, <1>11, <1>12, <1>13, <1>14,
       <1>15 DEF RunStep

LEMMA RunSettling ==
  ASSUME NEW r \in Runs, TypeOK, Down, RunInv(r), Settling, RunStep(r)
  PROVE  Settling'
<1> USE DEF Settling, TypeOK, PendingSettlements, Launching
<1>1. CASE Reserve(r)
  BY <1>1 DEF Reserve, With
<1>2. CASE Record(r)
  BY <1>2, StartedWrites, IndexIsTyped DEF Record
<1>3. CASE RefuseStart(r)
  BY <1>3, ReleasesMoves DEF RefuseStart
<1>4. CASE Launch(r)
  BY <1>4 DEF Launch
<1>5. CASE Abandon(r)
  BY <1>5, WithdrawnWrites, ReleasesMoves, IndexIsTyped DEF Abandon, Fault
<1>6. CASE RegisterStandard(r)
  BY <1>6, StartedWrites, IndexIsTyped DEF RegisterStandard, With
<1>7. CASE Rollback(r)
  BY <1>7, WithdrawnWrites, ReleasesMoves, IndexIsTyped DEF Rollback, Fault
<1>8. CASE Append(r)
  BY <1>8 DEF Append, Running
<1>9. CASE Settle(r)
  BY <1>9 DEF Settle, Running
<1>10. CASE Collect(r)
  BY <1>10, PersistsMoves, PersistFailsMoves DEF Collect, HasReceipt
<1>11. CASE WaitLive(r)
  BY <1>11, PersistsMoves, PersistFailsMoves DEF WaitLive, HasReceipt, Refuses, Answers
<1>12. CASE WaitRecovered(r)
  BY <1>12 DEF WaitRecovered, Answers
<1>13. CASE CloseRun(r)
  BY <1>13, PersistsMoves, PersistFailsMoves DEF CloseRun, MayForget, HasReceipt
<1>14. CASE CloseRunFails(r)
  BY <1>14, PersistsMoves, PersistFailsMoves DEF CloseRunFails, HasReceipt
<1>15. CASE Retry(r)
  <2>1. /\ closing.phase = "retrying" /\ closing'.phase = "retrying" /\ r \in closing.retries
        /\ closing'.retries = closing.retries \ {r}
    BY <1>15 DEF Retry
  <2>2. DOMAIN debts' \subseteq DOMAIN debts /\ UNCHANGED <<stage, owed>>
    BY <1>15, PersistsMoves, PersistFailsMoves DEF Retry
  <2>3. closing'.failed \/ (r \notin DOMAIN debts' /\ closing'.failed = closing.failed)
    BY <1>15, PersistsMoves DEF Retry
  <2> QED
    BY <2>1, <2>2, <2>3
<1> QED
  BY <1>1, <1>2, <1>3, <1>4, <1>5, <1>6, <1>7, <1>8, <1>9, <1>10, <1>11, <1>12, <1>13, <1>14,
       <1>15 DEF RunStep

LEMMA RunStepKeeps ==
  ASSUME IInv, NEW r \in Runs, RunStep(r)
  PROVE  IInv'
<1>1. TypeOK /\ Down /\ Settling /\ \A q \in Runs : RunInv(q)
  BY DEF IInv
<1>2. process' \in {"down", "up", "refused"} /\ session' \in [Sessions -> {"absent", "open", "closing", "closed"}]
      /\ (DOMAIN recovered \subseteq Runs /\ \A q \in DOMAIN recovered : recovered[q] \in Records)'
  BY <1>1, ElsewhereState DEF TypeOK
<1>3. TypeOK'
  BY <1>1, <1>2, StepTypedDisk, StepTypedDebts, StepTypedState, StepTypedTold DEF TypeOK, Typed
<1>4. ASSUME NEW q \in Runs
      PROVE  RunInv(q)'
  <2>1. CASE q = r
    BY <1>1, <1>3, <2>1, OwnFresh, OwnIdle, OwnRecovered, OwnStarting, OwnFailed, OwnLaunched,
       OwnConsistent, OwnHandle DEF RunInv
  <2>2. CASE q # r
    BY <1>1, <2>2, OthersKeep
  <2> QED
    BY <2>1, <2>2
<1>5. Down'
  BY <1>1, ElsewhereState DEF Down
<1> QED
  BY <1>1, <1>3, <1>4, <1>5, RunSettling DEF IInv

-----------------------------------------------------------------------------
(* Sessions, the Host close and the process.                               *)

SessionStep(s) == OpenSession(s) \/ BeginClose(s) \/ EndClose(s)
HostStep == Fence \/ DrainTimesOut \/ Drained \/ EndRetries

LEMMA SessionStepKeeps ==
  ASSUME IInv, NEW s \in Sessions, SessionStep(s)
  PROVE  IInv'
<1>0. TypeOK /\ Down /\ Settling /\ \A q \in Runs : RunInv(q)
  BY DEF IInv
<1>1. /\ process = "up" /\ process' = process /\ recovered' = recovered /\ stage' = stage
      /\ receipt' = receipt /\ debts' = debts /\ owed' = owed /\ closing' = closing
      /\ settlementError' = settlementError /\ UNCHANGED disk
  BY DEF SessionStep, OpenSession, BeginClose, EndClose
<1>2. TypeOK'
  <2>1. session' \in [Sessions -> {"absent", "open", "closing", "closed"}]
        /\ handle' \in [Runs -> {"none", "live", "recovered"}]
    BY <1>0 DEF SessionStep, OpenSession, BeginClose, EndClose, TypeOK
  <2> QED
    BY <1>0, <1>1, <2>1 DEF TypeOK
<1>3. ASSUME NEW q \in Runs
      PROVE  RunInv(q)'
  <2>0. RunInv(q) /\ SessionOf[q] \in Sessions
    BY <1>0, RunsHaveSessions
  <2>1. handle'[q] = handle[q] \/ (q \in DOMAIN recovered /\ handle'[q] = "recovered")
    BY <1>0 DEF SessionStep, OpenSession, BeginClose, EndClose, TypeOK
  <2>2. (Fresh(q) /\ Consistent(q))'
    BY <1>1, <2>0 DEF RunInv, Fresh, Consistent, Valid
  <2>3. (Idle(q) /\ Recovered(q))'
    BY <1>1, <2>0, <2>1 DEF RunInv, Idle, Recovered, AnswerOf
  <2>4. (Failed(q) /\ Launched(q))'
    BY <1>1, <2>0, <2>1 DEF RunInv, Failed, Launched, Unseen, Recovered
  <2>5. Launching(q) => session'[SessionOf[q]] = "open"
    BY <1>0, <2>0 DEF SessionStep, OpenSession, BeginClose, EndClose, TypeOK, RunInv, Starting,
         RunsOf
  <2>6. Starting(q)'
    BY <1>1, <2>0, <2>1, <2>5 DEF RunInv, Starting, Unseen, Recovered, Launching
  <2>7. session'[SessionOf[q]] = "closed" => handle'[q] = "none"
    BY <1>0, <2>0 DEF SessionStep, OpenSession, BeginClose, EndClose, TypeOK, RunInv, RunsOf
  <2> QED
    BY <2>2, <2>3, <2>4, <2>6, <2>7 DEF RunInv
<1>4. Down' /\ Settling'
  BY <1>0, <1>1 DEF Down, Settling, PendingSettlements, Launching
<1> QED
  BY <1>2, <1>3, <1>4 DEF IInv

LEMMA HostStepKeeps ==
  ASSUME IInv, HostStep
  PROVE  IInv'
<1>0. TypeOK /\ Down /\ Settling /\ \A q \in Runs : RunInv(q)
  BY DEF IInv
<1>1. /\ process = "up" /\ UNCHANGED <<disk, process, recovered, stage, receipt, debts, owed, handle, session>>
      /\ settlementError' \in BOOLEAN
  BY <1>0 DEF HostStep, Fence, DrainTimesOut, Drained, EndRetries, TypeOK
<1>2. closing' \in [phase: Phases, retries: SUBSET Runs, failed: BOOLEAN]
  <2>0. closing \in [phase: Phases, retries: SUBSET Runs, failed: BOOLEAN]
    BY <1>0 DEF TypeOK
  <2>1. CASE Fence \/ DrainTimesOut
    BY <2>0, <2>1 DEF Fence, DrainTimesOut, Phases
  <2>2. CASE Drained
    <3>1. {r \in DOMAIN debts : debts[r] # None} \in SUBSET Runs
      BY <1>0 DEF TypeOK
    <3> QED
      BY <2>2, <3>1 DEF Drained, Phases
  <2>3. CASE EndRetries
    <3>1. (IF closing.failed \/ settlementError THEN "failed" ELSE "closed") \in Phases
      BY DEF Phases
    <3> QED
      BY <2>3, <3>1 DEF EndRetries
  <2> QED
    BY <2>1, <2>2, <2>3 DEF HostStep
<1>3. TypeOK'
  BY <1>0, <1>1, <1>2 DEF TypeOK
<1>4. ASSUME NEW q \in Runs
      PROVE  RunInv(q)'
  BY <1>0, <1>1 DEF RunInv, Fresh, Idle, Recovered, Starting, Failed, Launched, Consistent, Valid,
     AnswerOf, Unseen, Launching
<1>5. Settling'
  <2>1. CASE Fence \/ DrainTimesOut
    BY <1>0, <2>1 DEF Fence, DrainTimesOut, Settling, TypeOK
  <2>2. CASE Drained
    <3>1. ASSUME NEW q \in DOMAIN debts \ Standard
          PROVE  debts[q] # None
      <4>1. q \in Runs /\ ~Launching(q) /\ q \notin owed
        BY <1>0, <2>2 DEF Drained, PendingSettlements, TypeOK
      <4> QED
        BY <1>0, <4>1 DEF TypeOK, Stages, RunInv, Launched, Idle, Failed, Launching
    <3> QED
      BY <1>1, <2>2, <3>1 DEF Drained, Settling, PendingSettlements, Launching
  <2>3. CASE EndRetries
    BY <1>0, <1>1, <2>3 DEF EndRetries, Settling, PendingSettlements, Launching
  <2> QED
    BY <2>1, <2>2, <2>3 DEF HostStep
<1> QED
  BY <1>0, <1>1, <1>3, <1>4, <1>5 DEF IInv, Down

LEMMA ServingIsTyped ==
  Serving \in [phase: Phases, retries: SUBSET Runs, failed: BOOLEAN]
BY DEF Serving, Phases

LEMMA ProcessStepKeeps ==
  ASSUME IInv, Crash \/ Install
  PROVE  IInv'
<1>0. TypeOK /\ Down /\ Settling /\ \A q \in Runs : RunInv(q)
  BY DEF IInv
<1>1. CASE Crash
  <2>1. NoProcess' /\ process' = "down" /\ UNCHANGED disk
    BY <1>1 DEF Crash, NoProcess
  <2>2. TypeOK'
    <3>1. DOMAIN debts' = {} /\ DOMAIN recovered' = {} /\ owed' = {} /\ settlementError' = FALSE
      BY <2>1 DEF NoProcess
    <3>2. /\ stage' \in [Runs -> Stages] /\ receipt' \in [Runs -> Receipts \cup {None}]
          /\ handle' \in [Runs -> {"none", "live", "recovered"}]
          /\ session' \in [Sessions -> {"absent", "open", "closing", "closed"}]
      BY <2>1 DEF NoProcess, Stages
    <3>3. closing' \in [phase: Phases, retries: SUBSET Runs, failed: BOOLEAN]
      BY <2>1, ServingIsTyped DEF NoProcess
    <3> QED
      BY <1>0, <2>1, <3>1, <3>2, <3>3 DEF TypeOK
  <2>3. ASSUME NEW q \in Runs
        PROVE  RunInv(q)'
    <3>1. (Fresh(q) /\ Idle(q) /\ Recovered(q) /\ Starting(q) /\ Failed(q) /\ Launched(q))'
      BY <1>0, <2>1 DEF NoProcess, RunInv, Fresh, Idle, Recovered, Starting, Failed, Launched,
           Launching
    <3>2. Consistent(q)'
      BY <1>0, <2>1 DEF RunInv, Consistent, Valid
    <3>3. session'[SessionOf[q]] = "absent"
      BY <2>1, RunsHaveSessions DEF NoProcess
    <3> QED
      BY <3>1, <3>2, <3>3 DEF RunInv
  <2>4. Settling' /\ Down'
    BY <2>1 DEF Settling, NoProcess, Serving, Down
  <2> QED
    BY <2>2, <2>3, <2>4 DEF IInv
<1>2. CASE Install
  <2>1. /\ NoProcess /\ UNCHANGED <<index, journal, faults, begun, told, stage, receipt, debts, owed, handle,
                     session, closing, settlementError>>
    BY <1>0, <1>2 DEF Install, Down
  <2>2. process' = "up"
    BY <1>0, <1>2 DEF Install, RunInv, Consistent, TypeOK
  <2>3. /\ DOMAIN recovered' = DOMAIN index
        /\ \A q \in DOMAIN index : /\ recovered'[q] \in Records
                                   /\ recovered'[q].status = index[q].status
                                   /\ recovered'[q].receipt = index[q].receipt
    BY <1>0, <1>2 DEF Install, TypeOK, Records
  <2>4. TypeOK'
    <3>1. generation' \in 0..MaxGenerations
      BY <1>0, <1>2, Bounds DEF Install, TypeOK
    <3>2. DOMAIN recovered' \subseteq Runs /\ \A q \in DOMAIN recovered' : recovered'[q] \in Records
      BY <1>0, <2>3 DEF TypeOK
    <3> QED
      BY <1>0, <2>1, <2>2, <3>1, <3>2 DEF TypeOK
  <2>5. ASSUME NEW q \in Runs
        PROVE  RunInv(q)'
    <3>1. stage[q] = "idle" /\ handle[q] = "none" /\ q \notin DOMAIN debts /\ q \notin owed /\ receipt[q] = None
      BY <2>1 DEF NoProcess
    <3>2. (Fresh(q) /\ Idle(q) /\ Consistent(q))'
      BY <1>0, <2>1, <2>3, <3>1 DEF RunInv, Fresh, Idle, Consistent, Valid
    <3>3. Recovered(q)'
      BY <1>0, <2>1, <2>3, <3>1 DEF RunInv, Recovered, Consistent, Valid, AnswerOf, TypeOK,
           Records
    <3>4. (Starting(q) /\ Failed(q) /\ Launched(q))'
      BY <2>1, <3>1 DEF Starting, Failed, Launched, Launching
    <3> QED
      BY <2>1, <3>1, <3>2, <3>3, <3>4 DEF RunInv
  <2>6. Settling' /\ Down'
    BY <2>1, <2>2 DEF Settling, NoProcess, Serving, Down
  <2> QED
    BY <2>4, <2>5, <2>6 DEF IInv
<1> QED
  BY <1>1, <1>2

LEMMA InitSound == Init => IInv
<1> SUFFICES ASSUME Init
             PROVE  IInv
  OBVIOUS
<1>1. TypeOK
  <2>1. DOMAIN debts = {} /\ DOMAIN recovered = {} /\ owed = {} /\ settlementError = FALSE
    BY DEF Init, NoProcess
  <2>2. /\ stage \in [Runs -> Stages] /\ receipt \in [Runs -> Receipts \cup {None}]
        /\ handle \in [Runs -> {"none", "live", "recovered"}]
        /\ session \in [Sessions -> {"absent", "open", "closing", "closed"}]
    BY DEF Init, NoProcess, Stages
  <2>3. closing \in [phase: Phases, retries: SUBSET Runs, failed: BOOLEAN]
    BY ServingIsTyped DEF Init, NoProcess
  <2>4. /\ DOMAIN index = {} /\ journal \in [Runs -> 0..MaxSequence] /\ generation \in 0..MaxGenerations
        /\ faults \in 0..MaxFaults /\ begun \subseteq Runs /\ process \in {"down", "up", "refused"}
        /\ told \in [Runs -> SUBSET (Receipts \cup {Interrupted})]
    BY Bounds DEF Init
  <2> QED
    BY <2>1, <2>2, <2>3, <2>4 DEF TypeOK
<1>2. Down /\ Settling
  BY DEF Init, NoProcess, Serving, Down, Settling
<1>3. ASSUME NEW q \in Runs
      PROVE  RunInv(q)
  BY RunsHaveSessions DEF Init, NoProcess, RunInv, Fresh, Idle, Recovered, Starting, Failed,
       Launched, Launching,
     Consistent
<1> QED
  BY <1>1, <1>2, <1>3 DEF IInv

LEMMA StutterKeeps ==
  ASSUME IInv, UNCHANGED vars
  PROVE  IInv'
<1> USE DEF vars
<1>1. TypeOK'
  BY DEF IInv, TypeOK
<1>2. Down' /\ Settling'
  BY DEF IInv, Down, NoProcess, Settling, PendingSettlements, Launching
<1>3. ASSUME NEW q \in Runs
      PROVE  RunInv(q)'
  BY DEF IInv, RunInv, Fresh, Idle, Recovered, Starting, Failed, Launched, Consistent, Valid,
     AnswerOf, Unseen, Launching
<1> QED
  BY <1>1, <1>2, <1>3 DEF IInv

LEMMA StepKinds ==
  Next => (\E r \in Runs : RunStep(r)) \/ (\E s \in Sessions : SessionStep(s)) \/ HostStep \/ Crash \/ Install
BY DEF Next, RunStep, SessionStep, HostStep

LEMMA Inductive == IInv /\ [Next]_vars => IInv'
BY StepKinds, StutterKeeps, RunStepKeeps, SessionStepKeeps, HostStepKeeps, ProcessStepKeeps

\* IInv is an invariant of the specification.
THEOREM Inductively == Spec => []IInv
BY InitSound, Inductive, PTL DEF Spec

\* The disk, the debts and the process are of their types at all times.
THEOREM TypeCorrect == Spec => []TypeOK
<1>1. IInv => TypeOK
  BY DEF IInv
<1> QED
  BY <1>1, Inductively, PTL

LEMMA AnswersSound == IInv => AnswersSurvive
<1> SUFFICES ASSUME IInv
             PROVE  AnswersSurvive
  OBVIOUS
<1>1. AnswersStand
  BY DEF IInv, RunInv, Consistent, AnswersStand
<1>2. process # "refused" /\ \A r \in DOMAIN index : Valid(r)
  BY DEF IInv, RunInv, Consistent, Down, TypeOK
<1> QED
  BY <1>1, <1>2 DEF AnswersSurvive, RecoveryAccepts

\* What run/wait has answered is never contradicted, and every process accepts
\* what the one before it left on disk (persist_settled_receipt, write_index,
\* validate_recovered_journal).
THEOREM AnswersAreKept == Spec => []AnswersSurvive
BY Inductively, AnswersSound, PTL

LEMMA DebtsSound == IInv => DebtsAreSettled
<1> SUFFICES ASSUME IInv
             PROVE  DebtsAreSettled
  OBVIOUS
<1>0. TypeOK /\ Settling /\ \A q \in Runs : RunInv(q)
  BY DEF IInv
<1>1. DebtsAreKept
  BY <1>0 DEF DebtsAreKept, TypeOK, Stages, Launching, RunInv, Idle, Failed, Launched
<1>2. ASSUME NEW r \in Runs, session[SessionOf[r]] = "closed"
      PROVE  r \notin DOMAIN debts
  BY <1>0, <1>2 DEF TypeOK, Stages, Launching, RunInv, Idle, Failed, Launched, Starting
<1>3. closing.phase = "closed" => (DOMAIN debts) \ Standard = {}
  BY <1>0 DEF Settling
<1> QED
  BY <1>1, <1>2, <1>3 DEF DebtsAreSettled, ClosesAreDurable

\* No slot is leaked, no observer is missing for one, and nothing is declared
\* closed over an unpaid debt (reserve_durable_settlement, close_session_owned,
\* retry of the Host close).
THEOREM DebtsArePaid == Spec => []DebtsAreSettled
BY Inductively, DebtsSound, PTL

-----------------------------------------------------------------------------
(* The index and the process implement RunHistory.                         *)

HistoryOf(r) ==
  IF r \notin DOMAIN index THEN IF r \in begun /\ stage[r] # "reserved" THEN "gone" ELSE "none"
  ELSE IF index[r].status = "settled" THEN index[r].receipt
  ELSE IF stage[r] = "idle" THEN Interrupted ELSE "open"

LEMMA HistoryMaps == History = [r \in Runs |-> HistoryOf(r)]
BY DEF History, HistoryOf

LEMMA PersistHistory ==
  ASSUME TypeOK, NEW r \in Runs, RunInv(r), stage[r] = "launched", UNCHANGED <<stage, begun>>,
         Persists(r) \/ PersistFails(r)
  PROVE  \/ HistoryOf(r)' = HistoryOf(r) /\ index' = index
         \/ HistoryOf(r) = "open" /\ HistoryOf(r)' \in Receipts \cup {"gone"}
<1>1. CASE index' = index
  BY <1>1 DEF HistoryOf
<1>2. CASE index' # index
  <2>1. PersistsNow(r)
    BY <1>2, PersistFailsMoves DEF Persists, PersistsAgain
  <2>2. r \in DOMAIN index /\ index[r].status = "running" /\ r \in begun
    BY <2>1 DEF PersistsNow, RunInv, Launched, Fresh
  <2>3. receipt[r] \in Receipts /\ (r \in DOMAIN index' => index'[r].status = "settled"
                                                          /\ index'[r].receipt = receipt[r])
    BY <2>1, PersistsMoves, ReceiptData DEF Persists
  <2> QED
    BY <2>2, <2>3 DEF HistoryOf
<1> QED
  BY <1>1, <1>2

LEMMA RollbackHistory ==
  ASSUME TypeOK, NEW r \in Runs, RunInv(r), Rollback(r)
  PROVE  \/ HistoryOf(r)' = HistoryOf(r) /\ index' = index
         \/ HistoryOf(r) = "open" /\ HistoryOf(r)' = "gone"
<1>1. stage[r] = "launched" /\ r \in DOMAIN index /\ index[r].status = "running" /\ r \in begun
  BY ReceiptData DEF Rollback, RunInv, Idle, Starting, Failed, Unseen, Launched, Launching,
       Fresh, TypeOK, Stages
<1>2. stage'[r] = "failed" /\ begun' = begun
  BY DEF Rollback, TypeOK
<1>3. index' = index \/ r \notin DOMAIN index'
  BY WithdrawnWrites, IndexIsTyped DEF Rollback, Fault
<1> QED
  BY <1>1, <1>2, <1>3 DEF HistoryOf

\* A step moves the history of its Run, or leaves the index alone.
LEMMA OwnHistory ==
  ASSUME NEW r \in Runs, TypeOK, Down, RunInv(r), RunStep(r)
  PROVE  \/ HistoryOf(r)' = HistoryOf(r) /\ index' = index
         \/ HistoryOf(r) = "none" /\ HistoryOf(r)' \in {"open", "gone"}
         \/ HistoryOf(r) = "open" /\ HistoryOf(r)' \in Receipts \cup {"gone"}
<1> USE DEF HistoryOf, TypeOK
<1>1. CASE Reserve(r)
  BY <1>1, ReceiptData DEF Reserve, With, RunInv, Starting, Launching, Launched, Fresh, Idle,
       Failed, Stages
<1>2. CASE Record(r)
  BY <1>2, StartedWrites, IndexIsTyped, ReceiptData DEF Record, RunInv, Starting, Launching,
       Launched, Fresh, Idle, Failed, Stages
<1>3. CASE RefuseStart(r)
  BY <1>3, ReleasesMoves, ReceiptData DEF RefuseStart, RunInv, Starting, Launching, Launched,
       Fresh, Idle, Failed, Stages
<1>4. CASE Launch(r)
  BY <1>4, ReceiptData DEF Launch, RunInv, Starting, Launching, Launched, Fresh, Idle, Failed,
       Stages
<1>5. CASE Abandon(r)
  BY <1>5, WithdrawnWrites, ReleasesMoves, IndexIsTyped, ReceiptData DEF Abandon, Fault, RunInv,
       Starting, Launching, Launched, Fresh, Idle, Failed, Stages
<1>6. CASE RegisterStandard(r)
  BY <1>6, StartedWrites, IndexIsTyped, ReceiptData DEF RegisterStandard, With, RunInv,
       Starting, Launching, Launched, Fresh, Idle, Failed, Stages
<1>7. CASE Rollback(r)
  BY <1>7, RollbackHistory
<1>8. CASE Append(r)
  BY <1>8, ReceiptData DEF Append, Running, RunInv, Starting, Launching, Launched, Fresh, Idle,
       Failed, Stages
<1>9. CASE Settle(r)
  BY <1>9, ReceiptData DEF Settle, Running, RunInv, Starting, Launching, Launched, Fresh, Idle,
       Failed, Stages
<1>10. CASE Collect(r)
  BY <1>10, PersistHistory DEF Collect, HasReceipt
<1>11. CASE WaitLive(r)
  BY <1>11, PersistHistory DEF WaitLive, HasReceipt, Refuses
<1>12. CASE WaitRecovered(r)
  BY <1>12, ReceiptData DEF WaitRecovered, Answers, RunInv, Starting, Launching, Launched,
       Fresh, Idle, Failed, Stages
<1>13. CASE CloseRun(r)
  <2>1. CASE MayForget(r)
    BY <1>13, <2>1, PersistHistory DEF CloseRun, MayForget, HasReceipt
  <2>2. CASE UNCHANGED <<index, faults, debts>>
    BY <1>13, <2>2 DEF CloseRun
  <2> QED
    BY <1>13, <2>1, <2>2 DEF CloseRun
<1>14. CASE CloseRunFails(r)
  BY <1>14, PersistHistory DEF CloseRunFails, HasReceipt
<1>15. CASE Retry(r)
  BY <1>15, PersistHistory DEF Retry, HasReceipt
<1> QED
  BY <1>1, <1>2, <1>3, <1>4, <1>5, <1>6, <1>7, <1>8, <1>9, <1>10, <1>11, <1>12, <1>13, <1>14,
       <1>15 DEF RunStep

LEMMA OthersHistory ==
  ASSUME TypeOK, Down, NEW r \in Runs, RunStep(r), NEW q \in Runs \ {r}, RunInv(q)
  PROVE  \/ HistoryOf(q)' = HistoryOf(q)
         \/ HistoryOf(q) \in Receipts /\ HistoryOf(q)' = "gone" /\ index' # index
<1>1. Spares(q)
  BY ElsewhereIndex
<1>2. stage'[q] = stage[q] /\ (q \in begun' <=> q \in begun)
  BY ElsewhereState
<1>3. CASE q \in DOMAIN index /\ q \notin DOMAIN index'
  <2>1. index[q].status = "settled"
    BY <1>1, <1>3, RecordFields DEF Spares, TypeOK
  <2>2. index[q].receipt \in Receipts
    BY <1>3, <2>1, ReceiptData DEF RunInv, Consistent, Valid
  <2>3. q \in begun /\ stage[q] # "reserved"
    BY <1>3 DEF RunInv, Fresh, Starting
  <2> QED
    BY <1>2, <1>3, <2>1, <2>2, <2>3 DEF HistoryOf
<1>4. CASE ~(q \in DOMAIN index /\ q \notin DOMAIN index')
  BY <1>1, <1>2, <1>4 DEF HistoryOf, Spares
<1> QED
  BY <1>3, <1>4

LEMMA RunStepRefines ==
  ASSUME IInv, NEW r \in Runs, RunStep(r)
  PROVE  Durable!Next \/ UNCHANGED History
<1>0. TypeOK /\ Down /\ \A q \in Runs : RunInv(q)
  BY DEF IInv
<1>1. CASE HistoryOf(r)' = HistoryOf(r) /\ index' = index
  <2>1. \A q \in Runs : HistoryOf(q)' = HistoryOf(q)
    BY <1>0, <1>1, OthersHistory
  <2> QED
    BY <2>1 DEF History, HistoryOf
<1>2. CASE ~(HistoryOf(r)' = HistoryOf(r) /\ index' = index)
  <2> DEFINE forgotten == {q \in Runs \ {r} : HistoryOf(q) \in Receipts /\ HistoryOf(q)' = "gone"}
  <2>1. \A q \in Runs \ {r} : HistoryOf(q)' = IF q \in forgotten THEN "gone" ELSE HistoryOf(q)
    BY <1>0, OthersHistory
  <2>2. forgotten \in SUBSET Durable!SettledRuns
    BY HistoryMaps DEF Durable!SettledRuns
  <2>3. HistoryOf(r)' \in Durable!Moves(r)
    BY <1>0, <1>2, OwnHistory, HistoryMaps DEF Durable!Moves
  <2>4. History' = [q \in Runs |-> IF q \in forgotten THEN "gone"
                                   ELSE IF q = r THEN HistoryOf(r)' ELSE History[q]]
    BY <2>1, HistoryMaps DEF History, HistoryOf
  <2> HIDE DEF forgotten
  <2> QED
    BY <2>2, <2>3, <2>4 DEF Durable!Next, Durable!Write
<1> QED
  BY <1>1, <1>2

LEMMA CrashRefines ==
  ASSUME IInv, Crash
  PROVE  Durable!Next
<1> DEFINE withdrawn == {r \in Runs : stage[r] = "reserved"}
<1>0. TypeOK /\ \A q \in Runs : RunInv(q)
  BY DEF IInv
<1>1. UNCHANGED <<index, begun>> /\ \A q \in Runs : stage'[q] = "idle"
  BY DEF Crash
<1>2. \A q \in withdrawn : HistoryOf(q) = "none"
  BY <1>0 DEF HistoryOf, RunInv, Starting
<1>3. ASSUME NEW q \in Runs
      PROVE  HistoryOf(q)' = IF q \in withdrawn THEN "gone"
                             ELSE IF HistoryOf(q) = "open" THEN "interrupted" ELSE HistoryOf(q)
  <2>1. q \in withdrawn => q \in begun /\ q \notin DOMAIN index
    BY <1>0 DEF RunInv, Fresh, Starting
  <2>2. q \in DOMAIN index /\ index[q].status = "settled" => index[q].receipt \in Receipts
    BY <1>0, ReceiptData DEF RunInv, Consistent, Valid
  <2>3. q \in DOMAIN index => index[q].receipt # "open" \/ index[q].status # "settled"
    BY <2>2, ReceiptData
  <2> QED
    BY <1>1, <2>1, <2>3 DEF HistoryOf, Interrupted
<1>4. withdrawn \in SUBSET {r \in Runs : History[r] = "none"}
  BY <1>2, HistoryMaps
<1>5. History' = [r \in Runs |-> IF r \in withdrawn THEN "gone"
                                 ELSE IF History[r] = "open" THEN "interrupted" ELSE History[r]]
  BY <1>3, HistoryMaps DEF History, HistoryOf
<1> HIDE DEF withdrawn
<1> QED
  BY <1>4, <1>5 DEF Durable!Next, Durable!Die

LEMMA QuietRefines ==
  ASSUME UNCHANGED <<index, begun, stage>>
  PROVE  UNCHANGED History
BY DEF History

\* A Run settles once, stays interrupted for ever if its process died before, and
\* is forgotten only after that, whatever fails, is pruned or restarts.
THEOREM IndexImplementsHistory == Spec => ImplementsHistory
<1>1. Init => Durable!Init
  BY DEF Init, Durable!Init, History
<1>2. IInv /\ [Next]_vars => [Durable!Next]_History
  <2>1. ASSUME NEW s \in Sessions, SessionStep(s)
        PROVE  UNCHANGED <<index, begun, stage>>
    BY <2>1 DEF SessionStep, OpenSession, BeginClose, EndClose
  <2>2. HostStep \/ Install \/ UNCHANGED vars => UNCHANGED <<index, begun, stage>>
    BY DEF HostStep, Fence, DrainTimesOut, Drained, EndRetries, Install, vars
  <2> QED
    BY <2>1, <2>2, StepKinds, RunStepRefines, CrashRefines, QuietRefines
<1> QED
  BY <1>1, <1>2, Inductively, PTL DEF Spec, ImplementsHistory, Durable!Spec
=============================================================================
