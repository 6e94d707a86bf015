------------------------ MODULE EventDeliveryProofs ------------------------
(***************************************************************************)
(* Proofs about EventDelivery, for every window, limit, event size and     *)
(* number of tasks, the events that the wire contract refuses included:    *)
(* type correctness, the safety invariants, and that the delivery          *)
(* implements EventFeed.  Then about the feeds that consume what is        *)
(* delivered (RunFeed, JavaFeed), with the invariant of FeedInvariant:     *)
(* type correctness, that nothing but a refused event is skipped, that a   *)
(* pause is owed an ACK by the client, and that a feed is found broken by  *)
(* what its application has acknowledged, never because the Host is ahead  *)
(* of its queue.  The last two are of Runs without a refused event         *)
(* (Carried): beyond one, a strict feed gives up (AfterTrueHole).          *)
(***************************************************************************)
EXTENDS FeedSteps, SequenceTheorems, FiniteSetTheorems, TLAPS

USE DeliveryAssumption DEF DeliveryAssumption
--------
(* The operators the steps are built from. *)

\* Larger is the maximum of two naturals.
LEMMA LargerBounds ==
  ASSUME NEW a \in Nat, NEW b \in Nat
  PROVE  /\ Larger(a, b) \in Nat /\ a <= Larger(a, b) /\ b <= Larger(a, b)
         /\ Larger(a, b) = a \/ Larger(a, b) = b
BY DEF Larger

\* A saturating subtraction never exceeds its first argument.
LEMMA SaturatingSubBounds ==
  ASSUME NEW a \in Nat, NEW b
  PROVE  SaturatingSub(a, b) \in Nat /\ SaturatingSub(a, b) <= a
BY DEF SaturatingSub

\* Retiring a prefix of the window keeps its other entries in their order.
LEMMA RetiredWindow ==
  ASSUME NEW S, NEW s \in Seq(S), NEW count \in 0 .. Len(s)
  PROVE  LET rest == SubSeq(s, count + 1, Len(s))
         IN  /\ rest \in Seq(S)
             /\ Len(rest) = Len(s) - count
             /\ \A i \in 1 .. Len(rest) : rest[i] = s[count + i]
<1>1. \A i \in count + 1 .. Len(s) : s[i] \in S
  BY ElementOfSeq
<1>2. Len(s) \in Nat
  BY LenProperties
<1> QED BY <1>1, <1>2, SubSeqProperties

\* A page read from the journal covers committed events only.
LEMMA PageCoverage ==
  ASSUME NEW S, NEW j \in Seq(S), NEW after \in Nat, NEW limit \in Nat,
         NEW page \in Pages, IsPage(j, RetainedFloor, after, limit, page)
  PROVE  Coverage(page) \in Nat /\ Coverage(page) <= Len(j)
<1>1. Len(j) \in Nat
  BY LenProperties
<1>2. page.base = after /\ page.gap = FALSE /\ page.end \in Nat
  BY DEF IsPage, BelowFloor, ReadFrom, RetainedFloor, Pages
<1>3. page.end \in after .. LastRead(j, after, limit)
  BY <1>2 DEF IsPage, IsPageEnd
<1>4. CASE after < page.end
  <2>1. after < Len(j)
    BY <1>1, <1>3, <1>4 DEF LastRead
  <2>2. LastRead(j, after, limit) <= Len(j)
    BY <1>1, <2>1 DEF LastRead
  <2> QED
    <3>1. LastRead(j, after, limit) \in Int
      BY <1>1 DEF LastRead
    <3>2. page.end <= Len(j)
      BY <1>1, <1>2, <1>3, <2>2, <3>1
    <3> QED BY <1>2, <1>4, <3>2 DEF Coverage
<1>5. CASE ~ (after < page.end)
  BY <1>1, <1>2, <1>5 DEF Coverage
<1> QED BY <1>4, <1>5
--------
(* Type correctness. *)

\* Every page a request may be answered with is typed.
LEMMA PagesAfterAreTyped ==
  ASSUME NEW after \in Nat, journal \in Seq(EventSizes)
  PROVE  PagesAfter(after) \subseteq Pages
<1>1. Len(journal) \in Nat
  BY LenProperties
<1> QED BY <1>1 DEF PagesAfter, Pages, Larger

\* Publishing one committed event keeps the window within its types.
LEMMA PublishTyped ==
  ASSUME TypeOK, NEW seq \in Nat, NEW bytes \in Nat, Publish(seq, bytes)
  PROVE  /\ unacked' \in Seq([seq : Nat, bytes : Nat]) /\ outstanding_bytes' \in Nat
         /\ paused' \in BOOLEAN /\ paused_sequence' \in Nat
         /\ last_sent_sequence' \in Nat /\ ackable_sequence' \in Nat
<1> USE DEF TypeOK
<1>1. CASE PublishNothing(seq, bytes)
  BY <1>1 DEF PublishNothing, window, pausing
<1>2. CASE Deliver(seq, bytes)
  <2>1. [seq |-> seq, bytes |-> bytes] \in [seq : Nat, bytes : Nat]
    OBVIOUS
  <2>2. unacked' \in Seq([seq : Nat, bytes : Nat])
    BY <1>2, <2>1, AppendProperties DEF Deliver
  <2> QED BY <1>2, <2>2 DEF Deliver, Larger, pausing
<1>3. CASE SkipOversized(seq, bytes)
  BY <1>3 DEF SkipOversized, Pause, Larger, window
<1>4. CASE GapAndPause(seq, bytes)
  BY <1>4 DEF GapAndPause, Pause, Larger, window
<1> QED BY <1>1, <1>2, <1>3, <1>4 DEF Publish, PublishFrame

\* The types hold at first.
LEMMA TypeInit == Init => TypeOK
<1> SUFFICES ASSUME Init PROVE TypeOK
  OBVIOUS
<1>1. journal \in Seq(EventSizes) /\ Len(journal) = 0
  BY EmptySeq DEF Init
<1>2. unacked \in Seq([seq : Nat, bytes : Nat])
  BY EmptySeq DEF Init
<1>3. Len(journal) <= MaxCommitted /\ observed \in 0 .. Len(journal)
  BY <1>1 DEF Init
<1>4. resume_end \in 0 .. Len(journal) /\ faults \in 0 .. MaxFaults
  BY <1>1 DEF Init
<1> QED BY <1>1, <1>2, <1>3, <1>4 DEF Init, TypeOK

\* Every step of the Host keeps them.
LEMMA TypeStep == TypeOK /\ [Next]_vars => TypeOK'
<1> SUFFICES ASSUME TypeOK, [Next]_vars PROVE TypeOK'
  OBVIOUS
<1>l. Len(journal) \in Nat
  BY LenProperties DEF TypeOK
<1>1. CASE \E bytes \in EventSizes : Commit(bytes)
  <2> PICK bytes \in EventSizes : Commit(bytes)
    BY <1>1
  <2>1. journal' \in Seq(EventSizes) /\ Len(journal') = Len(journal) + 1
    BY AppendProperties DEF Commit, TypeOK
  <2> QED BY <1>l, <2>1 DEF Commit, TypeOK, window, pausing, resume, tasks, env
<1>2. CASE Observe
  <2>1. observed + 1 \in 1 .. Len(journal)
    BY <1>2, <1>l DEF Observe, TypeOK
  <2>2. journal[observed + 1] \in Nat
    BY <2>1, ElementOfSeq DEF TypeOK
  <2> QED BY <1>2, <1>l, <2>1, <2>2, PublishTyped DEF Observe, TypeOK, resume, tasks, env
<1>3. CASE Settle
  BY <1>3 DEF Settle, TypeOK, window, pausing, resume, tasks
<1>4. CASE \E acked \in 1 .. MaxCommitted + 1 : ReceiveAck(acked)
  BY <1>4 DEF ReceiveAck, TypeOK, window, pausing, resume, env
<1>5. CASE \E acked \in acks : RejectAck(acked)
  BY <1>5 DEF RejectAck, TypeOK, window, pausing, resume, env
<1>6. CASE \E acked \in acks, count \in 0 .. Len(unacked) : AcceptAck(acked, count)
  <2> PICK acked \in acks, count \in 0 .. Len(unacked) : AcceptAck(acked, count)
    BY <1>6
  <2>1. acked \in Nat
    BY DEF TypeOK
  <2>2. unacked' \in Seq([seq : Nat, bytes : Nat])
    BY RetiredWindow DEF AcceptAck, TypeOK
  <2>3. outstanding_bytes' \in Nat
    BY SaturatingSubBounds DEF AcceptAck, TypeOK
  <2>4. last_sent_sequence' \in Nat
    BY <2>1, LargerBounds DEF AcceptAck, CursorAfter, TypeOK
  <2>5. /\ paused' \in BOOLEAN /\ paused_sequence' \in Nat /\ resuming' \in {"idle", "journal"}
    <3>1. \/ paused' = FALSE /\ paused_sequence' = 0 /\ resuming' = "journal"
          \/ UNCHANGED <<paused, paused_sequence, resuming>>
      BY Zenon DEF AcceptAck, pausing
    <3>2. resuming = "idle"
      BY Zenon DEF AcceptAck
    <3>3. paused' \in BOOLEAN
      BY <3>1, Zenon DEF TypeOK
    <3>4. paused_sequence' \in Nat /\ resuming' \in {"idle", "journal"}
      BY <3>1, <3>2 DEF TypeOK
    <3> QED BY <3>3, <3>4
  <2> QED BY <2>2, <2>3, <2>4, <2>5 DEF AcceptAck, TypeOK, env
<1>7. CASE ResumeRead
  BY <1>7, <1>l DEF ResumeRead, ResumeEnd, TypeOK, window, pausing, tasks, env
<1>8. CASE ResumeReadFails \/ ResumePublishFails
  <2>1. AbandonResume /\ faults' \in 0 .. MaxFaults
    BY <1>8 DEF ResumeReadFails, ResumePublishFails, TypeOK
  <2> QED BY <1>l, <2>1 DEF AbandonResume, TypeOK, window, tasks
<1>9. CASE ResumePublish
  <2>1. resume_next \in 1 .. Len(journal)
    BY <1>9, <1>l DEF ResumePublish, TypeOK
  <2>2. journal[resume_next] \in Nat
    BY <2>1, ElementOfSeq DEF TypeOK
  <2>3. Publish(resume_next, journal[resume_next])
    BY <1>9 DEF ResumePublish
  <2>4. /\ resuming' \in {"idle", "journal", "records"}
        /\ resume_next' \in Nat /\ resume_end' \in 0 .. Len(journal)
        /\ resuming' = "records" => resume_next' > 0
    BY <1>9, <1>l DEF ResumePublish, TypeOK
  <2> QED BY <1>9, <2>1, <2>2, <2>3, <2>4, PublishTyped DEF ResumePublish, TypeOK, tasks, env
<1>10. CASE ResumeDone
  BY <1>10 DEF ResumeDone, TypeOK, window, pausing, tasks, env
<1>11. ASSUME NEW after \in 0 .. MaxCommitted, NEW limit \in 1 .. MaxReplayEvents, NEW page \in PagesAfter(after),
              ReplayRead(after, limit, page)
       PROVE  TypeOK'
  <2>1. page \in Pages
    BY PagesAfterAreTyped DEF TypeOK
  <2> QED BY <1>11, <2>1 DEF ReplayRead, TypeOK, window, pausing, resume, env
<1>12. CASE \E after \in 0 .. MaxCommitted, limit \in 1 .. MaxReplayEvents :
              \/ ReplayTooLarge(after, limit) \/ ReplayReadFails(after)
              \/ ReplayConversionFails(after, limit)
  <2>1. UNCHANGED <<journal, observed, window, pausing, ackable_sequence, resume,
                    tasks, registered, connected>> /\ faults' \in 0 .. MaxFaults
    BY <1>12 DEF ReplayTooLarge, ReplayReadFails, ReplayConversionFails, TypeOK, env
  <2> QED BY <2>1 DEF TypeOK, window, pausing, resume, tasks
<1>13. CASE \E page \in pages : ReplayPublish(page)
  <2> PICK page \in pages : ReplayPublish(page)
    BY <1>13
  <2>1. Coverage(page) \in Nat
    BY DEF TypeOK, Pages, Coverage
  <2>2. ackable_sequence' \in Nat
    BY <2>1, LargerBounds DEF ReplayPublish, TypeOK
  <2> QED BY <2>2 DEF ReplayPublish, TypeOK, window, pausing, resume, env
<1>14. CASE Disconnect
  BY <1>14 DEF Disconnect, TypeOK, window, pausing, resume, tasks
<1>15. CASE UNCHANGED vars
  BY <1>15 DEF vars, TypeOK, window, pausing, resume, tasks, env
<1> QED BY <1>1, <1>2, <1>3, <1>4, <1>5, <1>6, <1>7, <1>8, <1>9, <1>10, <1>11, <1>12, <1>13, <1>14, <1>15
  DEF Next, HostStep, Environment, Requests

\* Every reachable state is within its types (property TypeOK).
THEOREM TypeCorrect == Spec => []TypeOK
BY TypeInit, TypeStep, PTL DEF Spec
--------
(* The events that the wire contract refuses. *)

\* A commit may add one to them.
LEMMA CommitRefuses ==
  ASSUME journal \in Seq(EventSizes), NEW bytes \in EventSizes, journal' = Append(journal, bytes)
  PROVE  Unsendable' \in {Unsendable, Unsendable \union {Len(journal) + 1}}
<1>1. /\ DOMAIN journal = 1 .. Len(journal) /\ DOMAIN journal' = 1 .. Len(journal) + 1
      /\ \A i \in 1 .. Len(journal) : journal'[i] = journal[i]
      /\ journal'[Len(journal) + 1] = bytes /\ Len(journal) \in Nat
  BY AppendProperties, LenProperties
<1>2. DOMAIN journal' = DOMAIN journal \union {Len(journal) + 1} /\ Len(journal) + 1 \notin DOMAIN journal
  BY <1>1
<1>3. CASE HasWireForm(bytes)
  <2>1. \A i : i \in Unsendable' <=> i \in Unsendable
    BY <1>1, <1>2, <1>3 DEF Unsendable, HasWireForm
  <2> QED BY <2>1
<1>4. CASE ~ HasWireForm(bytes)
  <2>1. \A i : i \in Unsendable' <=> i \in Unsendable \union {Len(journal) + 1}
    BY <1>1, <1>2, <1>4 DEF Unsendable, HasWireForm
  <2> QED BY <2>1
<1> QED BY <1>3, <1>4

\* The rest stays as it is.
LEMMA RefusedStay ==
  ASSUME TypeOK, [Next]_vars
  PROVE  Unsendable \subseteq Unsendable'
<1>1. CASE UNCHANGED journal
  BY <1>1 DEF Unsendable
<1>2. CASE \E bytes \in EventSizes : Commit(bytes)
  BY <1>2, CommitRefuses DEF Commit, TypeOK
<1>3. Next => UNCHANGED journal \/ \E bytes \in EventSizes : Commit(bytes)
  <2>1. HostStep => UNCHANGED journal
    BY DEF HostStep, Observe, RejectAck, AcceptAck, ResumeRead, ResumePublish, ResumePublishFails,
           AbandonResume, ResumeDone, ReplayPublish
  <2>2. Requests => UNCHANGED journal
    BY DEF Requests, ReceiveAck, ReplayRead, ReplayTooLarge, ReplayConversionFails, ReplayReadFails
  <2>3. Environment => UNCHANGED journal \/ \E bytes \in EventSizes : Commit(bytes)
    BY DEF Environment, Settle, ResumeReadFails, AbandonResume, Disconnect
  <2> QED BY <2>1, <2>2, <2>3 DEF Next
<1> QED BY <1>1, <1>2, <1>3 DEF vars

\* A stretch of them shrinks from below, and grows by the next one.
LEMMA PassedOver ==
  ASSUME NEW a \in Int, NEW b \in Int
  PROVE  /\ a > b => OnlyUnsendable(a, b)
         /\ \A c \in Int : c >= a /\ OnlyUnsendable(a, b) => OnlyUnsendable(c, b)
         /\ OnlyUnsendable(a, b) /\ b + 1 \in Unsendable => OnlyUnsendable(a, b + 1)
BY DEF OnlyUnsendable
--------
(* The inductive invariant of the Host, and the safety of its deliveries. *)

\* Publishing a committed event announces only committed sequences.
LEMMA PublishAnnounces ==
  ASSUME TypeOK, AnnouncedIsCommitted, NEW seq \in 1 .. Len(journal),
         NEW bytes \in Nat, Publish(seq, bytes), UNCHANGED journal
  PROVE  AnnouncedIsCommitted'
<1>l. Len(journal) \in Nat
  BY LenProperties DEF TypeOK
<1> USE DEF TypeOK, AnnouncedIsCommitted
<1>1. CASE PublishNothing(seq, bytes)
  BY <1>1 DEF PublishNothing, window, pausing
<1>2. CASE ~ AlreadyCovered(seq) /\ Deliver(seq, bytes)
  BY <1>l, <1>2 DEF Deliver, AlreadyCovered, Larger, pausing
<1>3. CASE SkipOversized(seq, bytes)
  BY <1>l, <1>3 DEF SkipOversized, Pause, Larger, window
<1>4. CASE ~ AlreadyCovered(seq) /\ GapAndPause(seq, bytes)
  BY <1>l, <1>4 DEF GapAndPause, AlreadyCovered, Pause, Larger, window
<1> QED BY <1>1, <1>2, <1>3, <1>4 DEF Publish, PublishFrame

\* Publishing keeps the window in order and within its bounds.
LEMMA PublishWindow ==
  ASSUME TypeOK, WindowOrdered, WindowBounded, NEW seq \in Nat \ {0},
         NEW bytes \in Nat, Publish(seq, bytes)
  PROVE  WindowOrdered' /\ WindowBounded'
<1>l. Len(unacked) \in Nat
  BY LenProperties DEF TypeOK
<1>1. CASE UNCHANGED window
  BY <1>1 DEF window, WindowOrdered, WindowBounded
<1>2. CASE ~ AlreadyCovered(seq) /\ Deliver(seq, bytes)
  <2>1. [seq |-> seq, bytes |-> bytes] \in [seq : Nat, bytes : Nat]
    OBVIOUS
  <2>2. /\ Len(unacked') = Len(unacked) + 1
        /\ \A i \in 1 .. Len(unacked) : unacked'[i] = unacked[i]
        /\ unacked'[Len(unacked) + 1].seq = seq
    BY <1>2, <2>1, AppendProperties DEF Deliver, TypeOK
  <2>3. last_sent_sequence' = seq /\ last_sent_sequence < seq
    BY <1>2 DEF Deliver, AlreadyCovered, TypeOK
  <2>4. \A i \in 1 .. Len(unacked) : unacked[i].seq \in 1 .. last_sent_sequence
    BY DEF WindowOrdered
  <2>5. WindowOrdered'
    <3>1. ASSUME NEW i \in 1 .. Len(unacked') PROVE unacked'[i].seq \in 1 .. seq
      <4>1. CASE i = Len(unacked) + 1
        BY <2>2, <4>1
      <4>2. CASE i \in 1 .. Len(unacked)
        <5>1. unacked'[i].seq \in 1 .. last_sent_sequence
          BY <2>2, <2>4, <4>2
        <5> QED BY <2>3, <5>1 DEF TypeOK
      <4> QED BY <1>l, <2>2, <4>1, <4>2
    <3>2. ASSUME NEW i \in 1 .. Len(unacked'), NEW j \in 1 .. Len(unacked'), i < j
          PROVE  unacked'[i].seq < unacked'[j].seq
      <4>1. CASE j = Len(unacked) + 1
        <5>1. i \in 1 .. Len(unacked)
          BY <1>l, <3>2, <4>1
        <5>2. unacked'[i].seq \in 1 .. last_sent_sequence
          BY <2>2, <2>4, <5>1
        <5>3. unacked'[j].seq = seq
          BY <2>2, <4>1
        <5> QED BY <2>3, <5>2, <5>3 DEF TypeOK
      <4>2. CASE j \in 1 .. Len(unacked)
        <5>1. i \in 1 .. Len(unacked)
          BY <1>l, <3>2, <4>2
        <5>2. unacked'[i] = unacked[i] /\ unacked'[j] = unacked[j]
          BY <2>2, <4>2, <5>1
        <5> QED BY <3>2, <4>2, <5>1, <5>2 DEF WindowOrdered
      <4> QED BY <1>l, <2>2, <4>1, <4>2
    <3> QED BY <2>3, <3>1, <3>2 DEF WindowOrdered
  <2>6. WindowBounded'
    BY <1>l, <1>2, <2>2 DEF Deliver, WindowFull, WindowBounded, TypeOK
  <2> QED BY <2>5, <2>6
<1> QED BY <1>1, <1>2
  DEF Publish, PublishFrame, PublishNothing, SkipOversized, GapAndPause, Pause

\* Retiring a prefix keeps the window in order and within its bounds.
LEMMA RetireWindow ==
  ASSUME TypeOK, WindowOrdered, WindowBounded, NEW acked \in Nat,
         NEW count \in 0 .. Len(unacked), AcceptAck(acked, count)
  PROVE  WindowOrdered' /\ WindowBounded'
<1>l. Len(unacked) \in Nat
  BY LenProperties DEF TypeOK
<1>1. /\ Len(unacked') = Len(unacked) - count
      /\ \A i \in 1 .. Len(unacked') : unacked'[i] = unacked[count + i]
  BY RetiredWindow DEF AcceptAck, TypeOK
<1>2. /\ last_sent_sequence \in Nat /\ last_sent_sequence' \in Nat /\ last_sent_sequence <= last_sent_sequence'
  BY LargerBounds DEF AcceptAck, CursorAfter, TypeOK
<1>3. outstanding_bytes' <= outstanding_bytes /\ outstanding_bytes' \in Nat
  BY SaturatingSubBounds DEF AcceptAck, TypeOK
<1>4. ASSUME NEW i \in 1 .. Len(unacked') PROVE unacked'[i].seq \in 1 .. last_sent_sequence'
  <2>1. count + i \in 1 .. Len(unacked)
    BY <1>l, <1>1
  <2>2. unacked'[i].seq \in 1 .. last_sent_sequence
    BY <1>1, <2>1 DEF WindowOrdered
  <2> QED BY <1>2, <2>2
<1>5. ASSUME NEW i \in 1 .. Len(unacked'), NEW j \in 1 .. Len(unacked'), i < j
      PROVE  unacked'[i].seq < unacked'[j].seq
  <2>1. count + i \in 1 .. Len(unacked) /\ count + j \in 1 .. Len(unacked)
    BY <1>l, <1>1
  <2>2. unacked[count + i].seq < unacked[count + j].seq
    BY <1>5, <2>1 DEF WindowOrdered
  <2>3. unacked'[i] = unacked[count + i] /\ unacked'[j] = unacked[count + j]
    BY <1>1
  <2> QED BY <2>2, <2>3
<1>6. WindowOrdered'
  BY <1>4, <1>5 DEF WindowOrdered
<1>7. WindowBounded'
  BY <1>l, <1>1, <1>3 DEF WindowBounded, TypeOK
<1> QED BY <1>6, <1>7

\* The invariant holds at first.
LEMMA InvInit == Init => Inv
<1> SUFFICES ASSUME Init PROVE Inv
  OBVIOUS
<1>1. TypeOK
  BY TypeInit
<1>2. Len(unacked) = 0 /\ Len(journal) = 0
  BY EmptySeq DEF Init
<1>3. WindowOrdered /\ WindowBounded
  BY <1>2 DEF Init, WindowOrdered, WindowBounded
<1>4. AnnouncedIsCommitted /\ ResumeReadsEnough /\ PagesAreCommitted /\ NoSilentHole
  BY <1>2, PassedOver DEF Init, AnnouncedIsCommitted, ResumeReadsEnough, PagesAreCommitted, NoSilentHole
<1> QED BY <1>1, <1>3, <1>4 DEF Inv

\* Steps that leave the delivery state alone, and at most extend the journal
\* or drop the connection, preserve the invariant.
LEMMA IndifferentStep ==
  ASSUME Inv, TypeOK',
         UNCHANGED <<observed, window, pausing, ackable_sequence, resume>>,
         Len(journal) <= Len(journal'), Unsendable \subseteq Unsendable',
         connected' => connected,
         PagesAreCommitted'
  PROVE  Inv'
<1>1. WindowOrdered' /\ WindowBounded'
  BY DEF Inv, WindowOrdered, WindowBounded, window
<1>2. AnnouncedIsCommitted'
  <2>1. Len(journal) \in Nat /\ Len(journal') \in Nat
    BY LenProperties DEF TypeOK
  <2> QED BY <2>1 DEF Inv, TypeOK, AnnouncedIsCommitted, window, pausing
<1>3. ResumeReadsEnough'
  BY DEF Inv, ResumeReadsEnough, window, pausing, resume
<1>4. NoSilentHole'
  BY DEF Inv, NoSilentHole, OnlyUnsendable, window, pausing, resume
<1> QED BY <1>1, <1>2, <1>3, <1>4 DEF Inv

\* Every step of the Host keeps it.
LEMMA InvStep == Inv /\ [Next]_vars => Inv'
<1> SUFFICES ASSUME Inv, [Next]_vars PROVE Inv'
  OBVIOUS
<1>t. TypeOK'
  BY TypeStep DEF Inv
<1>l. Len(journal) \in Nat /\ Len(unacked) \in Nat
  BY LenProperties DEF Inv, TypeOK
<1>r. Unsendable \subseteq Unsendable'
  BY RefusedStay DEF Inv
<1>1. CASE \E bytes \in EventSizes : Commit(bytes)
  <2> PICK bytes \in EventSizes : Commit(bytes)
    BY <1>1
  <2>1. Len(journal') = Len(journal) + 1
    BY AppendProperties DEF Commit, Inv, TypeOK
  <2>2. PagesAreCommitted'
    <3> SUFFICES ASSUME NEW page \in pages PROVE Coverage(page) <= Len(journal')
      BY DEF Commit, tasks, PagesAreCommitted
    <3>1. Coverage(page) \in Nat
      BY DEF Inv, TypeOK, Pages, Coverage
    <3> QED BY <1>l, <2>1, <3>1 DEF Inv, PagesAreCommitted
  <2> QED BY <1>t, <1>l, <1>r, <2>1, <2>2, IndifferentStep DEF Commit, env
<1>2. CASE Observe
  <2>1. observed + 1 \in 1 .. Len(journal)
    BY <1>2, <1>l DEF Observe, Inv, TypeOK
  <2>2. journal[observed + 1] \in Nat
    BY <2>1, ElementOfSeq DEF Inv, TypeOK
  <2>3. Publish(observed + 1, journal[observed + 1]) /\ UNCHANGED journal
    BY <1>2 DEF Observe
  <2>4. AnnouncedIsCommitted'
    BY <2>1, <2>2, <2>3, PublishAnnounces DEF Inv
  <2>5. WindowOrdered' /\ WindowBounded'
    BY <2>1, <2>2, <2>3, PublishWindow DEF Inv
  <2>6. resuming' = "idle" /\ UNCHANGED <<journal, pages, connected>>
    BY <1>2 DEF Observe, resume, tasks, env
  <2>7. ResumeReadsEnough' /\ PagesAreCommitted'
    BY <2>6 DEF Inv, ResumeReadsEnough, PagesAreCommitted
  <2>8. NoSilentHole'
    <3> SUFFICES ASSUME connected', ~ paused' PROVE OnlyUnsendable(last_sent_sequence' + 1, observed + 1)
      BY <1>2, <1>r DEF Observe, NoSilentHole, OnlyUnsendable
    <3>0. last_sent_sequence \in Nat /\ observed \in Nat
      BY DEF Inv, TypeOK
    <3>1. CASE PublishNothing(observed + 1, journal[observed + 1])
      <4>1. /\ UNCHANGED <<last_sent_sequence, paused>> /\ connected /\ resuming = "idle"
            /\ observed + 1 <= last_sent_sequence \/ ~ HasWireForm(journal[observed + 1])
        BY <1>2, <2>6, <3>1 DEF Observe, PublishNothing, PublishFails, AlreadyCovered, window, pausing
      <4>2. OnlyUnsendable(last_sent_sequence + 1, observed)
        BY <4>1 DEF Inv, NoSilentHole
      <4>3. observed + 1 <= last_sent_sequence \/ observed + 1 \in Unsendable
        BY <2>1, <4>1, LenProperties DEF Inv, TypeOK, Unsendable
      <4> QED BY <3>0, <4>1, <4>2, <4>3, PassedOver
    <3>2. CASE PublishFrame(observed + 1, journal[observed + 1])
      <4>1. paused' = TRUE \/ last_sent_sequence' = observed + 1
        BY <3>2 DEF PublishFrame, Deliver, SkipOversized, GapAndPause, Pause
      <4> QED BY <3>0, <4>1, PassedOver
    <3> QED BY <2>3, <3>1, <3>2 DEF Publish
  <2> QED BY <1>t, <2>4, <2>5, <2>7, <2>8 DEF Inv
<1>3. CASE Settle
  BY <1>3, <1>t, <1>l, <1>r, IndifferentStep
  DEF Settle, PagesAreCommitted, Inv, tasks, resume
<1>4. CASE \E acked \in 1 .. MaxCommitted + 1 : ReceiveAck(acked)
  BY <1>4, <1>t, <1>l, <1>r, IndifferentStep DEF ReceiveAck, PagesAreCommitted, Inv, env
<1>5. CASE \E acked \in acks : RejectAck(acked)
  BY <1>5, <1>t, <1>l, <1>r, IndifferentStep DEF RejectAck, PagesAreCommitted, Inv, env
<1>6. CASE \E acked \in acks, count \in 0 .. Len(unacked) : AcceptAck(acked, count)
  <2> PICK acked \in acks, count \in 0 .. Len(unacked) : AcceptAck(acked, count)
    BY <1>6
  <2>1. acked \in Nat
    BY DEF Inv, TypeOK
  <2>2. WindowOrdered' /\ WindowBounded'
    BY <2>1, RetireWindow DEF Inv
  <2>3. \/ paused' = FALSE /\ paused_sequence' = 0 /\ resuming' = "journal"
        \/ UNCHANGED <<paused, paused_sequence, resuming>>
    BY Zenon DEF AcceptAck, pausing
  <2>4. /\ resuming = "idle" /\ acked <= ackable_sequence
        /\ last_sent_sequence' = Larger(last_sent_sequence, acked)
        /\ UNCHANGED <<journal, observed, ackable_sequence, pages, connected>>
    BY DEF AcceptAck, AheadOfAnnounced, CursorAfter, Inv, TypeOK, env
  <2>5. AnnouncedIsCommitted'
    BY <1>l, <2>1, <2>3, <2>4 DEF Inv, TypeOK, AnnouncedIsCommitted, Larger
  <2>6. ResumeReadsEnough' /\ PagesAreCommitted'
    BY <2>3, <2>4 DEF Inv, ResumeReadsEnough, PagesAreCommitted
  <2>7. NoSilentHole'
    <3>1. last_sent_sequence <= last_sent_sequence' /\ last_sent_sequence' \in Nat
      BY <2>1, <2>4, LargerBounds DEF Inv, TypeOK
    <3>2. CASE resuming' = "journal"
      BY <3>2 DEF NoSilentHole
    <3>3. CASE UNCHANGED paused
      <4> SUFFICES ASSUME connected, ~ paused PROVE OnlyUnsendable(last_sent_sequence' + 1, observed)
        BY <1>r, <2>4, <3>3 DEF NoSilentHole, OnlyUnsendable
      <4>1. OnlyUnsendable(last_sent_sequence + 1, observed) /\ last_sent_sequence \in Nat /\ observed \in Nat
        BY <2>4 DEF Inv, TypeOK, NoSilentHole
      <4> QED BY <3>1, <4>1, PassedOver
    <3> QED BY <2>3, <3>2, <3>3
  <2> QED BY <1>t, <2>2, <2>5, <2>6, <2>7 DEF Inv
<1>7. CASE ResumeRead
  <2>1. /\ resuming = "journal" /\ resuming' = "records" /\ resume_next' = last_sent_sequence + 1
        /\ resume_end' = IF last_sent_sequence + MaxOutstanding + 1 <= Len(journal)
                         THEN last_sent_sequence + MaxOutstanding + 1 ELSE Len(journal)
        /\ UNCHANGED <<journal, observed, window, pausing, ackable_sequence, pages>>
    BY <1>7 DEF ResumeRead, ResumeEnd, tasks
  <2>2. WindowOrdered' /\ WindowBounded' /\ AnnouncedIsCommitted' /\ PagesAreCommitted'
    BY <2>1 DEF Inv, WindowOrdered, WindowBounded, AnnouncedIsCommitted, PagesAreCommitted, window, pausing
  <2>3. ResumeReadsEnough'
    BY <1>l, <2>1 DEF Inv, TypeOK, ResumeReadsEnough, window, pausing
  <2>4. NoSilentHole'
    BY <2>1 DEF NoSilentHole
  <2> QED BY <1>t, <2>2, <2>3, <2>4 DEF Inv
<1>8. CASE ResumeReadFails \/ ResumePublishFails
  <2>1. AbandonResume
    BY <1>8 DEF ResumeReadFails, ResumePublishFails
  <2>2. WindowOrdered' /\ WindowBounded' /\ PagesAreCommitted'
    BY <2>1 DEF Inv, AbandonResume, WindowOrdered, WindowBounded, PagesAreCommitted, window, tasks
  <2>3. AnnouncedIsCommitted' /\ ResumeReadsEnough' /\ NoSilentHole'
    BY <2>1 DEF Inv, AbandonResume, AnnouncedIsCommitted, ResumeReadsEnough, NoSilentHole, window
  <2> QED BY <1>t, <2>2, <2>3 DEF Inv
<1>9. CASE ResumePublish
  <2>1. resume_next \in 1 .. Len(journal)
    BY <1>9, <1>l DEF ResumePublish, Inv, TypeOK
  <2>2. journal[resume_next] \in Nat
    BY <2>1, ElementOfSeq DEF Inv, TypeOK
  <2>3. /\ Publish(resume_next, journal[resume_next]) /\ resuming = "records"
        /\ UNCHANGED <<journal, observed, pages, connected>>
    BY <1>9 DEF ResumePublish, tasks, env
  <2>4. AnnouncedIsCommitted'
    BY <2>1, <2>2, <2>3, PublishAnnounces DEF Inv
  <2>5. WindowOrdered' /\ WindowBounded'
    BY <2>1, <2>2, <2>3, PublishWindow DEF Inv
  <2>6. PagesAreCommitted'
    BY <2>3 DEF Inv, PagesAreCommitted
  <2>7. ~ AlreadyCovered(resume_next)
    BY <2>1, <2>3 DEF Inv, ResumeReadsEnough, AlreadyCovered, TypeOK
  <2>a. PublishFrame(resume_next, journal[resume_next])
    BY <1>9, <2>7 DEF ResumePublish, Publish, PublishNothing
  <2>8. CASE Deliver(resume_next, journal[resume_next])
    <3>1. /\ Len(unacked') = Len(unacked) + 1 /\ last_sent_sequence' = resume_next /\ UNCHANGED paused
      <4>1. [seq |-> resume_next, bytes |-> journal[resume_next]]
               \in [seq : Nat, bytes : Nat]
        BY <2>1, <2>2
      <4> QED BY <2>8, <4>1, AppendProperties DEF Deliver, Inv, TypeOK, pausing
    <3>2. resuming' = "records" /\ resume_next' = resume_next + 1
          /\ UNCHANGED resume_end
      BY <1>9, <2>3, <3>1 DEF ResumePublish, Inv, ResumeReadsEnough
    <3>3. resume_next = last_sent_sequence + 1
      BY <2>3 DEF Inv, ResumeReadsEnough
    <3>4. ResumeReadsEnough'
      BY <1>l, <2>3, <3>1, <3>2, <3>3 DEF Inv, TypeOK, ResumeReadsEnough
    <3>5. NoSilentHole'
      BY <3>2 DEF NoSilentHole
    <3> QED BY <1>t, <2>4, <2>5, <2>6, <3>4, <3>5 DEF Inv
  <2>9. CASE paused' = TRUE
    <3>1. resuming' = "idle"
      BY <1>9, <2>9 DEF ResumePublish
    <3> QED BY <1>t, <2>4, <2>5, <2>6, <2>9, <3>1 DEF Inv, ResumeReadsEnough, NoSilentHole
  <2> QED BY <2>8, <2>9, <2>a DEF PublishFrame, SkipOversized, GapAndPause, Pause
<1>10. CASE ResumeDone
  <2>1. /\ resuming = "records" /\ resume_next > resume_end /\ resuming' = "idle"
        /\ UNCHANGED <<journal, observed, window, pausing, ackable_sequence, pages>>
    BY <1>10 DEF ResumeDone, tasks
  <2>2. WindowOrdered' /\ WindowBounded' /\ AnnouncedIsCommitted' /\ PagesAreCommitted'
    BY <2>1 DEF Inv, WindowOrdered, WindowBounded, AnnouncedIsCommitted, PagesAreCommitted, window, pausing
  <2>3. observed <= last_sent_sequence
    BY <1>l, <2>1 DEF Inv, TypeOK, ResumeReadsEnough, WindowBounded
  <2>a. OnlyUnsendable(last_sent_sequence + 1, observed)
    BY <2>3, PassedOver DEF Inv, TypeOK
  <2>4. ResumeReadsEnough' /\ NoSilentHole'
    BY <1>r, <2>1, <2>a DEF ResumeReadsEnough, NoSilentHole, OnlyUnsendable, window
  <2> QED BY <1>t, <2>2, <2>4 DEF Inv
<1>11. ASSUME NEW after \in 0 .. MaxCommitted, NEW limit \in 1 .. MaxReplayEvents, NEW page \in PagesAfter(after),
              ReplayRead(after, limit, page)
       PROVE  Inv'
  <2>1. page \in Pages
    BY PagesAfterAreTyped DEF Inv, TypeOK
  <2>2. Coverage(page) <= Len(journal)
    BY <1>11, <2>1, PageCoverage DEF ReplayRead, Inv, TypeOK
  <2>3. PagesAreCommitted'
    BY <1>11, <2>2 DEF ReplayRead, Inv, PagesAreCommitted
  <2> QED BY <1>11, <1>t, <1>l, <1>r, <2>3, IndifferentStep DEF ReplayRead, env
<1>12. CASE \E after \in 0 .. MaxCommitted, limit \in 1 .. MaxReplayEvents :
              \/ ReplayTooLarge(after, limit) \/ ReplayReadFails(after)
              \/ ReplayConversionFails(after, limit)
  <2>1. UNCHANGED <<journal, observed, window, pausing, ackable_sequence, resume,
                    tasks, connected>>
    BY <1>12 DEF ReplayTooLarge, ReplayReadFails, ReplayConversionFails, env
  <2> QED BY <1>t, <1>l, <1>r, <2>1, IndifferentStep DEF Inv, PagesAreCommitted, tasks
<1>13. CASE \E page \in pages : ReplayPublish(page)
  <2> PICK page \in pages : ReplayPublish(page)
    BY <1>13
  <2>1. Coverage(page) \in Nat /\ Coverage(page) <= Len(journal)
    BY DEF Inv, TypeOK, PagesAreCommitted, Pages, Coverage
  <2>2. /\ ackable_sequence' \in {ackable_sequence, Larger(ackable_sequence, Coverage(page))}
        /\ pages' = pages \ {page} /\ UNCHANGED <<journal, observed, window, pausing, resume, connected>>
    BY DEF ReplayPublish, env
  <2>3. AnnouncedIsCommitted'
    BY <1>l, <2>1, <2>2 DEF Inv, TypeOK, AnnouncedIsCommitted, Larger, window, pausing
  <2>4. PagesAreCommitted'
    BY <2>2 DEF Inv, PagesAreCommitted
  <2>5. WindowOrdered' /\ WindowBounded' /\ ResumeReadsEnough' /\ NoSilentHole'
    BY <1>r, <2>2 DEF Inv, WindowOrdered, WindowBounded, ResumeReadsEnough, NoSilentHole,
                      OnlyUnsendable, window, pausing, resume
  <2> QED BY <1>t, <2>3, <2>4, <2>5 DEF Inv
<1>14. CASE Disconnect
  BY <1>14, <1>t, <1>l, <1>r, IndifferentStep DEF Disconnect, Inv, PagesAreCommitted, tasks
<1>15. CASE UNCHANGED vars
  BY <1>15, <1>t, <1>l, <1>r, IndifferentStep DEF vars, Inv, PagesAreCommitted, tasks, env
<1> QED BY <1>1, <1>2, <1>3, <1>4, <1>5, <1>6, <1>7, <1>8, <1>9, <1>10, <1>11, <1>12, <1>13, <1>14, <1>15
  DEF Next, HostStep, Environment, Requests

\* It holds throughout.
LEMMA Invariance == Spec => []Inv
BY InvInit, InvStep, PTL DEF Spec

\* Whatever the races of commits, ACKs, replays and resumes, a live stream
\* that is not paused has no hole but where the wire contract refuses an event:
\* every other event the observer was called with has been sent or acknowledged.
THEOREM NoHole == Spec => []NoSilentHole
BY Invariance, PTL DEF Inv

\* The Host announces, and lets a client acknowledge, committed events only.
THEOREM AnnouncedSequencesAreCommitted == Spec => []AnnouncedIsCommitted
BY Invariance, PTL DEF Inv

\* The window stays ordered and within the negotiated bounds.
THEOREM WindowIsSound == Spec => [](WindowOrdered /\ WindowBounded)
BY Invariance, PTL DEF Inv

\* A resume reads far enough to end without a forgotten tail.
THEOREM ResumeLeavesNoTail == Spec => []ResumeReadsEnough
BY Invariance, PTL DEF Inv
--------
(* The byte counter of the window: what a fold over its entries adds up to. *)

\* A set of naturals that has 0, and with a number the next one, has them all.
LEMMA NaturalsFromZero ==
  ASSUME NEW P, 0 \in P, \A n \in Nat : n \in P => n + 1 \in P
  PROVE  Nat \subseteq P
<1> DEFINE R == {p \in Nat \X Nat : p[1] < p[2]}
<1>1. IsWellFoundedOn(R, Nat)
  BY NatLessThanWellFounded DEF OpToRel
<1>2. \A x, y \in Nat : <<y, x>> \in R <=> y < x
  OBVIOUS
<1> HIDE DEF R
<1> SUFFICES ASSUME Nat \ P # {} PROVE FALSE
  OBVIOUS
<1>3. PICK m \in Nat \ P : \A n \in Nat \ P : ~ (<<n, m>> \in R)
  BY <1>1, WFMin
<1>4. m # 0 /\ m - 1 \in Nat /\ (m - 1) + 1 = m /\ m - 1 < m
  BY <1>3
<1>5. m - 1 \in P
  BY <1>2, <1>3, <1>4
<1> QED BY <1>3, <1>4, <1>5

\* The recursion of a fold, and what it comes to: any element may be taken out first.
Recursive(g, f, S) ==
  g = [s \in SUBSET S |-> IF s = {} THEN 0 ELSE f[CHOOSE x \in s : TRUE] + g[s \ {CHOOSE x \in s : TRUE}]]
Additive(g, f, S) == \A s \in SUBSET S : \A a \in s : g[s] = f[a] + g[s \ {a}]
SumOf(f, S) == FoldFunctionOnSet(+, 0, f, S)

LEMMA SumExists ==
  ASSUME NEW S, IsFiniteSet(S), NEW f \in [S -> Nat]
  PROVE  \E g : Recursive(g, f, S)
<1> DEFINE Small(n) == {s \in SUBSET S : Cardinality(s) <= n}
           Sums(g, n) == \A s \in Small(n) :
                           g[s] = IF s = {} THEN 0 ELSE f[CHOOSE x \in s : TRUE] + g[s \ {CHOOSE x \in s : TRUE}]
           P == {n \in Nat : \E g : Sums(g, n)}
<1>0. \A s \in SUBSET S : IsFiniteSet(s) /\ Cardinality(s) \in Nat /\ (s = {} <=> Cardinality(s) = 0) /\ Cardinality(s) <= Cardinality(S)
  BY FS_Subset, FS_CardinalityType, FS_EmptySet
<1>1. 0 \in P
  <2>1. Sums([s \in Small(0) |-> 0], 0)
    BY <1>0
  <2> QED BY <2>1
<1>2. ASSUME NEW n \in Nat, n \in P PROVE n + 1 \in P
  <2> PICK g : Sums(g, n)
    BY <1>2
  <2> DEFINE x(s) == CHOOSE x \in s : TRUE
             h == [s \in Small(n + 1) |-> IF s \in Small(n) THEN g[s] ELSE f[x(s)] + g[s \ {x(s)}]]
  <2>1. ASSUME NEW s \in Small(n + 1) PROVE h[s] = IF s = {} THEN 0 ELSE f[x(s)] + h[s \ {x(s)}]
    <3>1. CASE s = {}
      <4>1. s \in Small(n)
        BY <1>0, <3>1
      <4> QED BY <3>1, <4>1
    <3>2. CASE s # {}
      <4>1. x(s) \in s
        BY <3>2
      <4>2. Cardinality(s \ {x(s)}) = Cardinality(s) - 1
        BY <1>0, <4>1, FS_RemoveElement
      <4>3. s \ {x(s)} \in Small(n) /\ s \ {x(s)} \in Small(n + 1)
        BY <1>0, <4>1, <4>2
      <4>4. h[s \ {x(s)}] = g[s \ {x(s)}]
        BY <4>3
      <4>5. s \in Small(n) => g[s] = f[x(s)] + g[s \ {x(s)}]
        BY <3>2
      <4> QED BY <3>2, <4>4, <4>5
    <3> QED BY <3>1, <3>2
  <2>2. Sums(h, n + 1)
    BY <2>1
  <2> HIDE DEF h, Sums
  <2> QED BY <2>2
<1>3. Cardinality(S) \in P
  <2> HIDE DEF P
  <2> QED BY <1>0, <1>1, <1>2, NaturalsFromZero
<1>4. PICK h : Sums(h, Cardinality(S))
  BY <1>3
<1>5. Small(Cardinality(S)) = SUBSET S
  BY <1>0
<1>6. PICK g : g = [s \in SUBSET S |-> h[s]]
  OBVIOUS
<1>7. g \in [SUBSET S -> {h[s] : s \in SUBSET S}]
  BY <1>6
<1>8. \A s \in SUBSET S : g[s] = IF s = {} THEN 0 ELSE f[CHOOSE x \in s : TRUE] + g[s \ {CHOOSE x \in s : TRUE}]
  BY <1>4, <1>5, <1>6
<1> QED BY <1>7, <1>8 DEF Recursive

LEMMA SumTakesAny ==
  ASSUME NEW S, IsFiniteSet(S), NEW f \in [S -> Nat], NEW g, Recursive(g, f, S)
  PROVE  g \in [SUBSET S -> Nat] /\ g[{}] = 0 /\ Additive(g, f, S)
<1> DEFINE Right(s) == g[s] \in Nat /\ \A a \in s : g[s] = f[a] + g[s \ {a}]
           P == {n \in Nat : \A s \in SUBSET S : Cardinality(s) <= n => Right(s)}
<1>0. \A s \in SUBSET S : IsFiniteSet(s) /\ Cardinality(s) \in Nat /\ (s = {} <=> Cardinality(s) = 0)
  BY FS_Subset, FS_CardinalityType, FS_EmptySet
<1>1. g[{}] = 0
  BY DEF Recursive
<1>2. 0 \in P
  BY <1>0, <1>1
<1>3. ASSUME NEW n \in Nat, n \in P PROVE n + 1 \in P
  <2>0. \A s \in SUBSET S : Cardinality(s) <= n => Right(s)
    BY <1>3
  <2> SUFFICES ASSUME NEW s \in SUBSET S, Cardinality(s) <= n + 1 PROVE Right(s)
    OBVIOUS
  <2> SUFFICES ASSUME NEW a \in s PROVE g[s] \in Nat /\ g[s] = f[a] + g[s \ {a}]
    <3>1. CASE s = {}
      BY <1>1, <3>1
    <3> QED BY <3>1
  <2>1. PICK b \in s : g[s] = f[b] + g[s \ {b}]
    BY DEF Recursive
  <2>2. /\ Cardinality(s \ {a}) = Cardinality(s) - 1 /\ Cardinality(s \ {b}) = Cardinality(s) - 1
        /\ Cardinality(s) \in Nat /\ f[a] \in Nat /\ f[b] \in Nat
    BY <1>0, FS_RemoveElement
  <2>3. Right(s \ {a}) /\ Right(s \ {b})
    <3>1. Cardinality(s \ {a}) <= n /\ Cardinality(s \ {b}) <= n
      BY <2>2
    <3> HIDE DEF Right
    <3> QED BY <2>0, <3>1
  <2>4. CASE a = b
    BY <2>1, <2>2, <2>3, <2>4
  <2>5. CASE a # b
    <3>1. g[s \ {b}] = f[a] + g[(s \ {b}) \ {a}] /\ g[s \ {a}] = f[b] + g[(s \ {a}) \ {b}]
      BY <2>3, <2>5
    <3>2. (s \ {b}) \ {a} = (s \ {a}) \ {b}
      OBVIOUS
    <3>3. Cardinality((s \ {a}) \ {b}) <= n
      <4>1. s \ {a} \in SUBSET S /\ b \in s \ {a}
        BY <2>5
      <4>2. IsFiniteSet(s \ {a})
        BY <1>0, <4>1
      <4>3. Cardinality((s \ {a}) \ {b}) = Cardinality(s \ {a}) - 1
        BY <4>1, <4>2, FS_RemoveElement
      <4> QED BY <2>2, <4>3
    <3>4. g[(s \ {a}) \ {b}] \in Nat /\ f[a] \in Nat /\ f[b] \in Nat
      <4>1. \A u \in SUBSET S : Cardinality(u) <= n => g[u] \in Nat
        BY <2>0
      <4>2. (s \ {a}) \ {b} \in SUBSET S
        OBVIOUS
      <4>3. g[(s \ {a}) \ {b}] \in Nat
        BY <3>3, <4>1, <4>2
      <4> QED BY <2>2, <4>3
    <3> QED BY <2>1, <3>1, <3>2, <3>4
  <2> QED BY <2>4, <2>5
<1>4. Nat \subseteq P
  <2> HIDE DEF P
  <2> QED BY <1>2, <1>3, NaturalsFromZero
<1>5. \A s \in SUBSET S : Right(s)
  <2> TAKE s \in SUBSET S
  <2>1. Cardinality(s) \in Nat /\ Cardinality(s) \in P /\ Cardinality(s) <= Cardinality(s)
    BY <1>0, <1>4
  <2> QED BY <2>1
<1>6. g \in [SUBSET S -> Nat]
  BY <1>5 DEF Recursive
<1> QED BY <1>1, <1>5, <1>6 DEF Additive

\* What a fold of + computes.
LEMMA FoldIsSum ==
  ASSUME NEW S, IsFiniteSet(S), NEW f \in [S -> Nat]
  PROVE  \E g : g \in [SUBSET S -> Nat] /\ SumOf(f, S) = g[S] /\ g[{}] = 0 /\ Additive(g, f, S)
<1>1. SumOf(f, S) =
        (CHOOSE g : g = [s \in SUBSET S |-> IF s = {} THEN 0 ELSE f[CHOOSE x \in s : TRUE] + g[s \ {CHOOSE x \in s : TRUE}]])[S]
  BY DEF SumOf, FoldFunctionOnSet, MapThenFoldSet
<1>2. SumOf(f, S) = (CHOOSE g : Recursive(g, f, S))[S]
  BY <1>1 DEF Recursive
<1>3. PICK g : g = (CHOOSE h : Recursive(h, f, S)) /\ Recursive(g, f, S)
  BY SumExists
<1> QED BY <1>2, <1>3, SumTakesAny

\* The bytes of a window, one entry after the other.
Adds(p, s) ==
  /\ p[0] = 0 /\ \A i \in Nat : i <= Len(s) => p[i] \in Nat
  /\ \A i \in Nat : i < Len(s) => p[i + 1] = p[i] + s[i + 1].bytes /\ s[i + 1].bytes \in Nat

LEMMA FoldAdds ==
  ASSUME NEW S, S \subseteq [seq : Nat, bytes : Nat], NEW s \in Seq(S)
  PROVE  \E p : Adds(p, s) /\ p[Len(s)] = BytesOf(s)
<1> DEFINE D == 1 .. Len(s)
           f == [i \in D |-> s[i].bytes]
<1>1. Len(s) \in Nat /\ DOMAIN s = D /\ \A i \in D : s[i].bytes \in Nat
  OBVIOUS
<1>2. BytesOf(s) = SumOf(f, D)
  <2>1. BytesOf(s) = SumOf([i \in DOMAIN s |-> s[i].bytes], DOMAIN s)
    BY ZenonT(40) DEF BytesOf, SumOf
  <2> QED BY <1>1, <2>1
<1>3. IsFiniteSet(D) /\ f \in [D -> Nat]
  <2>1. IsFiniteSet(1 .. Len(s))
    BY <1>1, FS_Interval
  <2>2. f \in [D -> Nat]
    BY <1>1
  <2> QED BY <2>1, <2>2
<1>4. PICK g : g \in [SUBSET D -> Nat] /\ SumOf(f, D) = g[D] /\ g[{}] = 0 /\ Additive(g, f, D)
  <2> HIDE DEF D, f
  <2> QED BY <1>3, FoldIsSum
<1>a. ASSUME NEW u \in SUBSET D, NEW k \in u PROVE g[u] = f[k] + g[u \ {k}]
  <2> HIDE DEF D, f
  <2> QED BY <1>4 DEF Additive
<1>5. PICK p : p = [i \in 0 .. Len(s) |-> g[1 .. i]]
  OBVIOUS
<1>6. ASSUME NEW i \in Nat, i < Len(s) PROVE p[i + 1] = p[i] + s[i + 1].bytes /\ s[i + 1].bytes \in Nat
  <2>1. /\ (1 .. i + 1) \in SUBSET D /\ i + 1 \in 1 .. i + 1 /\ (1 .. i + 1) \ {i + 1} = 1 .. i
        /\ i \in 0 .. Len(s) /\ i + 1 \in 0 .. Len(s) /\ i + 1 \in D
    BY <1>1, <1>6
  <2>2. g[1 .. i + 1] = f[i + 1] + g[(1 .. i + 1) \ {i + 1}]
    BY <1>a, <2>1
  <2>3. p[i + 1] = g[1 .. i + 1] /\ p[i] = g[1 .. i] /\ f[i + 1] = s[i + 1].bytes
    BY <1>5, <2>1
  <2>4. g[1 .. i] \in Nat /\ s[i + 1].bytes \in Nat
    BY <1>1, <1>4, <2>1
  <2>5. g[1 .. i + 1] = f[i + 1] + g[1 .. i]
    BY <2>1, <2>2
  <2> HIDE DEF f
  <2> QED BY <2>3, <2>4, <2>5
<1>7. \A i \in Nat : i <= Len(s) => p[i] \in Nat
  <2>1. \A i \in Nat : i <= Len(s) => i \in 0 .. Len(s) /\ (1 .. i) \in SUBSET D
    BY <1>1
  <2> QED BY <1>4, <1>5, <2>1
<1>8. p[0] = 0 /\ p[Len(s)] = g[D]
  <2>1. (1 .. 0) = {} /\ 0 \in 0 .. Len(s) /\ Len(s) \in 0 .. Len(s)
    BY <1>1
  <2> QED BY <1>4, <1>5, <2>1
<1>9. Adds(p, s)
  BY <1>6, <1>7, <1>8 DEF Adds
<1> HIDE DEF D, f
<1> QED BY <1>2, <1>4, <1>8, <1>9

\* They are the bytes of the window, whichever way they are added up.
LEMMA AddsEnds ==
  ASSUME NEW S, S \subseteq [seq : Nat, bytes : Nat], NEW s \in Seq(S), NEW p, Adds(p, s)
  PROVE  p[Len(s)] = BytesOf(s) /\ BytesOf(s) \in Nat
<1>1. PICK q : Adds(q, s) /\ q[Len(s)] = BytesOf(s)
  BY FoldAdds
<1> DEFINE P == {n \in Nat : n <= Len(s) => p[n] = q[n]}
<1>2. 0 \in P
  BY <1>1 DEF Adds
<1>3. ASSUME NEW n \in Nat, n \in P PROVE n + 1 \in P
  <2>1. CASE n + 1 <= Len(s)
    <3>1. n < Len(s) /\ n <= Len(s)
      BY <2>1, LenProperties
    <3>2. p[n + 1] = p[n] + s[n + 1].bytes /\ q[n + 1] = q[n] + s[n + 1].bytes
      BY <1>1, <3>1 DEF Adds
    <3> QED BY <1>3, <3>1, <3>2
  <2> QED BY <2>1
<1>4. Len(s) \in Nat /\ Len(s) \in P
  <2> HIDE DEF P
  <2> QED BY <1>2, <1>3, NaturalsFromZero, LenProperties
<1>5. p[Len(s)] = q[Len(s)]
  BY <1>4
<1>6. p[Len(s)] \in Nat
  BY <1>4 DEF Adds
<1> QED BY <1>1, <1>5, <1>6

LEMMA AddsUp ==
  ASSUME NEW S, S \subseteq [seq : Nat, bytes : Nat], NEW s \in Seq(S), NEW p, Adds(p, s), NEW c \in Nat
  PROVE  \A n \in Nat : c + n <= Len(s) => p[c] <= p[c + n]
<1> DEFINE P == {n \in Nat : c + n <= Len(s) => p[c] <= p[c + n]}
<1>1. Len(s) \in Nat
  BY LenProperties
<1>2. 0 \in P
  <2>1. c + 0 = c /\ (c <= Len(s) => p[c] <= p[c])
    BY DEF Adds
  <2> QED BY <2>1
<1>3. ASSUME NEW n \in Nat, n \in P PROVE n + 1 \in P
  <2>1. CASE c + (n + 1) <= Len(s)
    <3>1. c + n \in Nat /\ (c + n) + 1 = c + (n + 1) /\ c + n < Len(s) /\ c + n <= Len(s) /\ c <= Len(s)
      BY <1>1, <2>1
    <3>2. p[c + (n + 1)] = p[c + n] + s[(c + n) + 1].bytes /\ s[(c + n) + 1].bytes \in Nat
      BY <3>1 DEF Adds
    <3>3. p[c] \in Nat /\ p[c + n] \in Nat /\ p[c] <= p[c + n]
      BY <1>3, <3>1 DEF Adds
    <3> QED BY <3>2, <3>3
  <2> QED BY <2>1
<1>4. Nat \subseteq P
  <2> HIDE DEF P
  <2> QED BY <1>2, <1>3, NaturalsFromZero
<1> QED BY <1>4

LEMMA BytesAppend ==
  ASSUME NEW S, S \subseteq [seq : Nat, bytes : Nat], NEW s \in Seq(S), NEW e \in S
  PROVE  BytesOf(Append(s, e)) = BytesOf(s) + e.bytes
<1>1. PICK p : Adds(p, s) /\ p[Len(s)] = BytesOf(s)
  BY FoldAdds
<1> DEFINE t == Append(s, e)
<1>2. PICK q : q = [i \in 0 .. Len(s) + 1 |-> IF i <= Len(s) THEN p[i] ELSE BytesOf(s) + e.bytes]
  OBVIOUS
<1>3. /\ t \in Seq(S) /\ Len(t) = Len(s) + 1 /\ Len(s) \in Nat /\ t[Len(s) + 1] = e
      /\ \A i \in 1 .. Len(s) : t[i] = s[i]
  OBVIOUS
<1>4. BytesOf(s) \in Nat /\ e.bytes \in Nat
  BY <1>1, AddsEnds
<1> HIDE DEF t
<1>5. Adds(q, t)
  <2>1. /\ \A i \in Nat : i <= Len(s) => q[i] = p[i] /\ p[i] \in Nat
        /\ q[Len(s) + 1] = BytesOf(s) + e.bytes /\ q[Len(s) + 1] \in Nat
    BY <1>1, <1>2, <1>3, <1>4 DEF Adds
  <2>2. q[0] = 0 /\ \A i \in Nat : i <= Len(t) => q[i] \in Nat
    <3>1. \A i \in Nat : i <= Len(t) => i <= Len(s) \/ i = Len(s) + 1
      BY <1>3
    <3>2. q[0] = p[0]
      BY <1>3, <2>1
    <3> QED BY <1>1, <2>1, <3>1, <3>2 DEF Adds
  <2>3. ASSUME NEW i \in Nat, i < Len(t) PROVE q[i + 1] = q[i] + t[i + 1].bytes /\ t[i + 1].bytes \in Nat
    <3>1. CASE i = Len(s)
      <4>1. q[i] = BytesOf(s) /\ q[i + 1] = BytesOf(s) + e.bytes /\ t[i + 1] = e
        <5>1. Len(s) <= Len(s)
          BY <1>3
        <5>2. q[Len(s)] = p[Len(s)]
          BY <1>3, <2>1, <5>1
        <5> QED BY <1>1, <1>3, <2>1, <3>1, <5>2
      <4> QED BY <1>4, <4>1
    <3>2. CASE i # Len(s)
      <4>0. Len(s) \in Nat /\ i < Len(s) + 1 /\ i # Len(s)
        BY <1>3, <2>3, <3>2
      <4>1. i < Len(s) /\ i <= Len(s) /\ i + 1 <= Len(s) /\ i + 1 \in 1 .. Len(s)
        BY <4>0
      <4>2. q[i + 1] = p[i + 1] /\ q[i] = p[i]
        BY <2>1, <4>1
      <4>3. t[i + 1] = s[i + 1]
        BY <1>3, <4>1
      <4> QED BY <1>1, <4>1, <4>2, <4>3 DEF Adds
    <3> QED BY <3>1, <3>2
  <2> QED BY <2>2, <2>3 DEF Adds
<1>6. q[Len(t)] = BytesOf(t)
  BY <1>3, <1>5, AddsEnds
<1>7. q[Len(t)] = BytesOf(s) + e.bytes
  BY <1>2, <1>3
<1> QED BY <1>6, <1>7 DEF t

LEMMA Offsets ==
  ASSUME NEW l \in Nat, NEW c \in Nat, c <= l, NEW i \in Nat, i < l - c
  PROVE  /\ i + 1 \in Nat /\ i + 1 <= l - c /\ i <= l - c /\ i + 1 \in 1 .. l - c /\ c + (i + 1) = (c + i) + 1
         /\ c + i \in Nat /\ c + i < l /\ c + i <= l
OBVIOUS

\* A window is worth what is retired of it and what is left.
LEMMA BytesSplit ==
  ASSUME NEW S, S \subseteq [seq : Nat, bytes : Nat], NEW s \in Seq(S), NEW c \in 0 .. Len(s)
  PROVE  /\ BytesOf(SubSeq(s, 1, c)) \in Nat /\ BytesOf(SubSeq(s, c + 1, Len(s))) \in Nat
         /\ BytesOf(s) = BytesOf(SubSeq(s, 1, c)) + BytesOf(SubSeq(s, c + 1, Len(s)))
<1>1. PICK p : Adds(p, s) /\ p[Len(s)] = BytesOf(s)
  BY FoldAdds
<1>2. /\ Len(s) \in Nat /\ p[0] = 0
      /\ \A i \in Nat : i <= Len(s) => p[i] \in Nat
      /\ \A i \in Nat : i < Len(s) => p[i + 1] = p[i] + s[i + 1].bytes /\ s[i + 1].bytes \in Nat
  BY <1>1, LenProperties DEF Adds
<1>6. \A b, n \in Nat : b + n <= Len(s) => p[b] <= p[b + n]
  BY <1>1, AddsUp
<1>3. c \in Nat /\ c <= Len(s) /\ p[c] \in Nat /\ p[Len(s)] \in Nat /\ p[c] <= p[Len(s)]
  <2>1. c \in Nat /\ c <= Len(s) /\ Len(s) - c \in Nat /\ c + (Len(s) - c) = Len(s)
    BY <1>2
  <2>2. p[c] <= p[Len(s)]
    <3>1. ASSUME NEW d \in Nat, c + d = Len(s) PROVE p[c] <= p[Len(s)]
      <4>1. c + d <= Len(s)
        BY <1>2, <2>1, <3>1
      <4>2. p[c] <= p[c + d]
        BY <1>6, <2>1, <4>1
      <4> QED BY <3>1, <4>2
    <3> QED BY <2>1, <3>1
  <2> QED BY <1>2, <2>1, <2>2
<1>4. BytesOf(SubSeq(s, 1, c)) = p[c]
  <2> DEFINE t == SubSeq(s, 1, c)
  <2>1. t \in Seq(S) /\ Len(t) = c /\ \A i \in 1 .. c : t[i] = s[i]
    BY <1>3
  <2> HIDE DEF t
  <2>2. ASSUME NEW i \in Nat, i < Len(t) PROVE p[i + 1] = p[i] + t[i + 1].bytes /\ t[i + 1].bytes \in Nat
    <3>1. i + 1 \in 1 .. c /\ i < Len(s)
      <4>1. Len(s) \in Nat /\ c \in Nat /\ c <= Len(s) /\ i < c
        BY <1>2, <1>3, <2>1, <2>2
      <4> QED BY <4>1
    <3> QED BY <1>2, <2>1, <3>1
  <2>3. \A i \in Nat : i <= Len(t) => p[i] \in Nat
    BY <1>2, <1>3, <2>1
  <2>5. Adds(p, t)
    BY <1>2, <2>2, <2>3 DEF Adds
  <2>4. BytesOf(t) = p[Len(t)]
    BY <1>2, <1>3, <2>1, <2>5, AddsEnds
  <2> QED BY <2>1, <2>4 DEF t
<1>5. BytesOf(SubSeq(s, c + 1, Len(s))) = p[Len(s)] - p[c]
  <2> DEFINE u == SubSeq(s, c + 1, Len(s))
  <2>1. u \in Seq(S) /\ Len(u) = Len(s) - c /\ \A i \in 1 .. Len(s) - c : u[i] = s[c + i]
    BY <1>2, <1>3, RetiredWindow
  <2> HIDE DEF u
  <2>2. ASSUME NEW n \in Nat, n = Len(s) - c, NEW r, r = [i \in 0 .. n |-> p[c + i] - p[c]]
        PROVE  BytesOf(u) = p[Len(s)] - p[c]
    <3>1. \A i \in Nat : i <= n => c + i \in Nat /\ c + i <= Len(s) /\ r[i] = p[c + i] - p[c]
      BY <1>2, <1>3, <2>2
    <3>2. \A i \in Nat : i <= n => r[i] \in Nat
      <4> TAKE i \in Nat
      <4> HAVE i <= n
      <4>1. c + i \in Nat /\ c + i <= Len(s) /\ r[i] = p[c + i] - p[c]
        BY <3>1
      <4>2. p[c + i] \in Nat /\ p[c] <= p[c + i]
        BY <1>2, <1>3, <1>6, <4>1
      <4> QED BY <1>3, <4>1, <4>2
    <3>3. r[0] = 0
      <4>1. r[0] = p[c + 0] - p[c] /\ c + 0 = c
        BY <1>3, <3>1
      <4> QED BY <1>3, <4>1
    <3>4. ASSUME NEW i \in Nat, i < Len(u) PROVE r[i + 1] = r[i] + u[i + 1].bytes /\ u[i + 1].bytes \in Nat
      <4>0. i < Len(s) - c
        BY <2>1, <3>4
      <4>1. i + 1 \in Nat /\ i + 1 <= n /\ i <= n /\ i + 1 \in 1 .. Len(s) - c /\ c + (i + 1) = (c + i) + 1
            /\ c + i \in Nat /\ c + i < Len(s) /\ c + i <= Len(s)
        BY <1>2, <1>3, <2>2, <4>0, Offsets
      <4>2. r[i + 1] = p[(c + i) + 1] - p[c] /\ r[i] = p[c + i] - p[c] /\ u[i + 1] = s[(c + i) + 1]
        <5>1. r[i + 1] = p[c + (i + 1)] - p[c] /\ r[i] = p[c + i] - p[c] /\ u[i + 1] = s[c + (i + 1)]
          BY <2>1, <3>1, <4>1
        <5> QED BY <4>1, <5>1
      <4>3. p[(c + i) + 1] = p[c + i] + s[(c + i) + 1].bytes /\ s[(c + i) + 1].bytes \in Nat /\ p[c + i] \in Nat
        BY <1>2, <4>1
      <4>4. p[c] \in Nat
        BY <1>3
      <4>5. ASSUME NEW d, d = p[c], NEW x, x = p[c + i], NEW y, y = p[(c + i) + 1],
                   NEW z, z = u[i + 1].bytes, NEW v, v = r[i + 1], NEW w, w = r[i]
            PROVE  v = w + z /\ z \in Nat
        <5>1. v = y - d /\ w = x - d /\ y = x + z /\ z \in Nat
          BY <4>2, <4>3, <4>5
        <5>2. x \in Nat /\ d \in Nat
          BY <4>3, <4>4, <4>5
        <5> QED BY <5>1, <5>2
      <4> QED BY <4>5
    <3>5. Len(u) = n /\ c + n = Len(s)
      BY <1>2, <1>3, <2>1, <2>2
    <3>6. Adds(r, u)
      BY <3>2, <3>3, <3>4, <3>5 DEF Adds
    <3>7. BytesOf(u) = r[n]
      BY <2>1, <3>5, <3>6, AddsEnds
    <3> QED BY <2>2, <3>1, <3>5, <3>7
  <2>3. Len(s) - c \in Nat
    BY <1>2, <1>3
  <2> QED BY <2>2, <2>3 DEF u
<1> QED BY <1>1, <1>3, <1>4, <1>5

LEMMA BytesEmpty == BytesOf(<<>>) = 0
<1>1. <<>> \in Seq({}) /\ {} \subseteq [seq : Nat, bytes : Nat] /\ Len(<<>>) = 0
  OBVIOUS
<1>2. PICK p : Adds(p, <<>>) /\ p[Len(<<>>)] = BytesOf(<<>>)
  BY <1>1, FoldAdds
<1> QED BY <1>1, <1>2 DEF Adds

\* A publication counts the bytes of the entry it appends, or leaves the window.
LEMMA PublishCounts ==
  ASSUME TypeOK, WindowAccounted, NEW seq \in Nat, NEW bytes \in Nat, Publish(seq, bytes)
  PROVE  WindowAccounted'
<1>1. CASE UNCHANGED window
  BY <1>1 DEF window, WindowAccounted
<1>2. CASE Deliver(seq, bytes)
  <2>1. unacked \in Seq([seq : Nat, bytes : Nat]) /\ [seq |-> seq, bytes |-> bytes] \in [seq : Nat, bytes : Nat]
    BY DEF TypeOK
  <2>2. BytesOf(Append(unacked, [seq |-> seq, bytes |-> bytes])) = BytesOf(unacked) + bytes
    <3>1. ASSUME NEW e \in [seq : Nat, bytes : Nat]
          PROVE  BytesOf(Append(unacked, e)) = BytesOf(unacked) + e.bytes
      BY <2>1, BytesAppend
    <3>2. [seq |-> seq, bytes |-> bytes].bytes = bytes
      OBVIOUS
    <3> QED BY <2>1, <3>1, <3>2
  <2> QED BY <1>2, <2>2 DEF Deliver, WindowAccounted
<1> QED BY <1>1, <1>2 DEF Publish, PublishNothing, PublishFrame, SkipOversized, GapAndPause, Pause

\* Every step keeps the count.
LEMMA CountStep == Inv /\ WindowAccounted /\ [Next]_vars => WindowAccounted'
<1> SUFFICES ASSUME Inv, WindowAccounted, [Next]_vars PROVE WindowAccounted'
  OBVIOUS
<1>0. TypeOK /\ Len(journal) \in Nat /\ unacked \in Seq([seq : Nat, bytes : Nat])
  BY LenProperties DEF Inv, TypeOK
<1>1. ASSUME UNCHANGED window PROVE WindowAccounted'
  BY <1>1 DEF window, WindowAccounted
<1>2. ASSUME NEW seq \in 1 .. Len(journal), Publish(seq, journal[seq]) PROVE WindowAccounted'
  <2>1. journal \in Seq(EventSizes) /\ EventSizes \subseteq Nat
    BY <1>0, DeliveryAssumption DEF TypeOK, DeliveryAssumption
  <2>2. journal[seq] \in EventSizes
    BY <2>1, ElementOfSeq
  <2>4. Len(journal) \in Nat
    BY <1>0
  <2>5. seq \in Nat
    BY <2>4
  <2>3. journal[seq] \in Nat /\ seq \in Nat
    BY <2>1, <2>2, <2>5
  <2> QED BY <1>0, <1>2, <2>3, PublishCounts
<1>3. CASE Observe
  <2>1. observed + 1 \in 1 .. Len(journal)
    BY <1>0, <1>3 DEF Observe, TypeOK
  <2> QED BY <1>2, <1>3, <2>1 DEF Observe
<1>4. CASE ResumePublish
  <2>1. resume_next \in 1 .. Len(journal)
    BY <1>0, <1>4 DEF ResumePublish, Inv, TypeOK, ResumeReadsEnough
  <2> QED BY <1>2, <1>4, <2>1 DEF ResumePublish
<1>5. ASSUME NEW acked \in acks, NEW count \in 0 .. Len(unacked), AcceptAck(acked, count)
      PROVE  WindowAccounted'
  <2> DEFINE rest == BytesOf(SubSeq(unacked, count + 1, Len(unacked)))
             gone == BytesOf(SubSeq(unacked, 1, count))
  <2>1. rest \in Nat /\ gone \in Nat /\ BytesOf(unacked) = gone + rest
    BY <1>0, BytesSplit
  <2>2. unacked' = SubSeq(unacked, count + 1, Len(unacked))
        /\ outstanding_bytes' = SaturatingSub(outstanding_bytes, gone)
    BY <1>5 DEF AcceptAck, ReleasedBytes
  <2>3. BytesOf(unacked)' = rest
    BY <2>2
  <2> HIDE DEF rest, gone
  <2>4. outstanding_bytes' = rest
    BY <2>1, <2>2 DEF SaturatingSub, WindowAccounted
  <2> QED BY <2>3, <2>4 DEF WindowAccounted
<1>6. CASE HostStep
  BY <1>1, <1>3, <1>4, <1>5, <1>6 DEF HostStep, RejectAck, ResumeRead, ResumePublishFails, AbandonResume,
                                      ResumeDone, ReplayPublish
<1>7. CASE Environment
  BY <1>1, <1>7 DEF Environment, Commit, Settle, ResumeReadFails, AbandonResume, Disconnect
<1>8. CASE Requests
  BY <1>1, <1>8 DEF Requests, ReceiveAck, ReplayRead, ReplayTooLarge, ReplayConversionFails, ReplayReadFails
<1>9. CASE UNCHANGED vars
  BY <1>1, <1>9 DEF vars
<1> QED BY <1>6, <1>7, <1>8, <1>9 DEF Next

\* No byte is leaked and none is released twice: after any order of sends, ACKs
\* and resumes the counter is the sum over the window.
THEOREM BytesAreAccounted == Spec => []WindowAccounted
<1>1. Init => WindowAccounted
  BY BytesEmpty DEF Init, WindowAccounted
<1> QED BY <1>1, CountStep, Invariance, PTL DEF Spec
--------
(* EventDelivery implements EventFeed. *)

\* The only frames of the live feed are events and gaps.
LEMMA QuietFrames ==
  /\ NoFrame.kind \notin {"event", "gap"}
  /\ \A page : PageFrame(page).kind \notin {"event", "gap"}
  /\ \A after, code : ReplayErrorFrame(after, code).kind \notin {"event", "gap"}
BY DEF NoFrame, PageFrame, ReplayErrorFrame

\* A step that moves neither the cursor, the pause nor the journal, and sends
\* no live frame, is the acknowledgement of the cursor itself.
LEMMA QuietStep ==
  ASSUME Inv, out'.kind \notin {"event", "gap"},
         UNCHANGED <<last_sent_sequence, paused, paused_sequence>>,
         UNCHANGED journal
  PROVE  Feed!FeedNext
<1>1. Len(journal) \in Nat /\ Unsendable' = Unsendable
  BY LenProperties DEF Inv, TypeOK, Unsendable
<1>2. last_sent_sequence \in last_sent_sequence .. Len(journal)
  BY <1>1 DEF Inv, TypeOK, AnnouncedIsCommitted
<1>3. Feed!Acknowledge(last_sent_sequence)
  BY <1>1, <1>2 DEF Feed!Acknowledge, Feed!Silent
<1> QED BY <1>2, <1>3 DEF Feed!FeedNext

\* A publication, if only refused events come between it and the cursor, is a
\* step of the feed.
LEMMA PublishFeeds ==
  ASSUME Inv, NEW seq \in 1 .. Len(journal), NEW bytes \in Nat,
         Publish(seq, bytes), UNCHANGED journal,
         bytes = journal[seq],
         ~ AlreadyCovered(seq) /\ connected => OnlyUnsendable(last_sent_sequence + 1, seq - 1)
  PROVE  Feed!FeedNext
<1>l. Len(journal) \in Nat /\ Unsendable' = Unsendable
  BY LenProperties DEF Inv, TypeOK, Unsendable
<1>t. last_sent_sequence \in Nat
  BY DEF Inv, TypeOK
<1>1. CASE PublishNothing(seq, bytes)
  BY <1>1, QuietStep, QuietFrames DEF PublishNothing, window, pausing
<1>2. CASE PublishFrame(seq, bytes)
  <2>0. ~ AlreadyCovered(seq) /\ ~ PublishFails(seq, bytes)
    BY <1>2 DEF PublishFrame
  <2>1. /\ seq \in last_sent_sequence + 1 .. Len(journal) /\ paused = FALSE /\ paused' \in BOOLEAN
        /\ seq \notin Unsendable /\ OnlyUnsendable(last_sent_sequence + 1, seq - 1)
    BY <1>l, <1>t, <2>0, PublishTyped DEF PublishFails, AlreadyCovered, Unsendable, Inv, TypeOK
  <2>2. CASE Deliver(seq, bytes)
    <3>1. Feed!Send(seq)
      BY <1>l, <2>1, <2>2
      DEF Deliver, EventFrame, pausing, OnlyUnsendable, Feed!Send, Feed!Event, Feed!ComesNext
    <3> QED BY <2>1, <3>1 DEF Feed!FeedNext
  <2>3. CASE SkipOversized(seq, bytes) \/ GapAndPause(seq, bytes)
    <3>1. PICK from \in {last_sent_sequence + 1, seq} :
            /\ paused' = TRUE /\ paused_sequence' = seq /\ UNCHANGED last_sent_sequence
            /\ out' = GapFrame(from, seq, seq)
      BY <1>t, <2>1, <2>3
      DEF SkipOversized, GapAndPause, Pause, Larger, window
    <3>2. from \in last_sent_sequence + 1 .. Len(journal) /\ from <= seq /\ OnlyUnsendable(last_sent_sequence + 1, from - 1)
      BY <1>l, <1>t, <2>1, PassedOver
    <3>3. Feed!Announce(from, seq)
      BY <1>l, <2>1, <3>1, <3>2 DEF GapFrame, OnlyUnsendable, Feed!Announce, Feed!Gap, Feed!ComesNext
    <3> QED BY <2>1, <3>2, <3>3 DEF Feed!FeedNext
  <2> QED BY <1>2, <2>2, <2>3 DEF PublishFrame
<1> QED BY <1>1, <1>2 DEF Publish

\* The delivery starts as a feed does.
LEMMA FeedInitial == Init => Feed!FeedInit
<1> SUFFICES ASSUME Init PROVE Feed!FeedInit
  OBVIOUS
<1>1. Len(journal) = 0 /\ Unsendable = {}
  BY EmptySeq DEF Init, Unsendable
<1> QED BY <1>1, QuietFrames DEF Init, Feed!FeedInit

\* Each of its steps is one of the feed, or stutters.
LEMMA FeedStep == Inv /\ [Next]_vars => [Feed!FeedNext]_(Feed!feedVars)
<1> SUFFICES ASSUME Inv, [Next]_vars PROVE [Feed!FeedNext]_(Feed!feedVars)
  OBVIOUS
<1>l. Len(journal) \in Nat
  BY LenProperties DEF Inv, TypeOK
<1>u. UNCHANGED journal => Unsendable' = Unsendable
  BY DEF Unsendable
<1>1. CASE \E bytes \in EventSizes : Commit(bytes)
  <2> PICK bytes \in EventSizes : Commit(bytes)
    BY <1>1
  <2>1. /\ Len(journal') = Len(journal) + 1
        /\ Unsendable' \in {Unsendable, Unsendable \union {Len(journal) + 1}}
    BY AppendProperties, CommitRefuses DEF Commit, Inv, TypeOK
  <2>2. Feed!Grow
    BY <2>1, QuietFrames DEF Commit, window, pausing, Feed!Grow, Feed!Silent
  <2> QED BY <2>2 DEF Feed!FeedNext
<1>2. CASE Observe
  <2>1. observed + 1 \in 1 .. Len(journal)
    BY <1>2, <1>l DEF Observe, Inv, TypeOK
  <2>2. journal[observed + 1] \in Nat
    BY <2>1, ElementOfSeq DEF Inv, TypeOK
  <2>3. ~ AlreadyCovered(observed + 1) /\ connected
           => OnlyUnsendable(last_sent_sequence + 1, (observed + 1) - 1)
    BY <1>2 DEF Observe, AlreadyCovered, Inv, TypeOK, NoSilentHole
  <2> QED BY <1>2, <2>1, <2>2, <2>3, PublishFeeds DEF Observe
<1>3. CASE \/ Settle
           \/ \E acked \in 1 .. MaxCommitted + 1 : ReceiveAck(acked)
           \/ \E acked \in acks : RejectAck(acked)
           \/ ResumeRead \/ ResumeDone \/ Disconnect
  <2>1. out' = NoFrame /\ UNCHANGED <<journal, window, pausing>>
    BY <1>3 DEF Settle, ReceiveAck, RejectAck, ResumeRead, ResumeDone, Disconnect
  <2> QED BY <2>1, QuietFrames, QuietStep DEF window, pausing
<1>4. CASE \E acked \in acks, count \in 0 .. Len(unacked) : AcceptAck(acked, count)
  <2> PICK acked \in acks, count \in 0 .. Len(unacked) : AcceptAck(acked, count)
    BY <1>4
  <2>1. acked \in Nat
    BY DEF Inv, TypeOK
  <2>2. /\ acked <= ackable_sequence /\ last_sent_sequence' = Larger(last_sent_sequence, acked)
        /\ out' = NoFrame /\ UNCHANGED journal
    BY DEF AcceptAck, AheadOfAnnounced, CursorAfter, Inv, TypeOK
  <2>3. \/ /\ paused /\ acked >= paused_sequence /\ paused' = FALSE /\ paused_sequence' = 0
        \/ UNCHANGED <<paused, paused_sequence>>
    BY Zenon DEF AcceptAck, CoversGap, pausing
  <2>4. /\ last_sent_sequence' \in last_sent_sequence .. Len(journal) /\ acked <= last_sent_sequence'
    BY <1>l, <2>1, <2>2 DEF Inv, TypeOK, AnnouncedIsCommitted, Larger
  <2>5. paused /\ acked >= paused_sequence => last_sent_sequence' >= paused_sequence
    BY <1>l, <2>1, <2>4 DEF Inv, TypeOK
  <2>6. Feed!Silent
    BY <2>2, QuietFrames DEF Feed!Silent
  <2>7. Feed!Acknowledge(last_sent_sequence')
    BY <1>u, <2>2, <2>3, <2>4, <2>5, <2>6 DEF Feed!Acknowledge
  <2> QED BY <2>4, <2>7 DEF Feed!FeedNext
<1>5. CASE ResumeReadFails \/ ResumePublishFails
  <2>1. Feed!Suspend
    BY <1>5, <1>u, QuietFrames DEF ResumeReadFails, ResumePublishFails, AbandonResume, window,
                                   Feed!Suspend, Feed!Silent
  <2> QED BY <2>1 DEF Feed!FeedNext
<1>6. CASE ResumePublish
  <2>1. resume_next \in 1 .. Len(journal)
    BY <1>6, <1>l DEF ResumePublish, Inv, TypeOK
  <2>2. journal[resume_next] \in Nat
    BY <2>1, ElementOfSeq DEF Inv, TypeOK
  <2>3. OnlyUnsendable(last_sent_sequence + 1, resume_next - 1)
    BY <1>6, PassedOver DEF ResumePublish, Inv, ResumeReadsEnough, TypeOK
  <2> QED BY <1>6, <2>1, <2>2, <2>3, PublishFeeds DEF ResumePublish
<1>7. CASE \E after \in 0 .. MaxCommitted, limit \in 1 .. MaxReplayEvents :
             \/ \E page \in PagesAfter(after) : ReplayRead(after, limit, page)
             \/ ReplayTooLarge(after, limit) \/ ReplayConversionFails(after, limit)
             \/ ReplayReadFails(after)
  <2>1. UNCHANGED <<journal, window, pausing>> /\ out'.kind \notin {"event", "gap"}
    BY <1>7, QuietFrames DEF ReplayRead, ReplayTooLarge, ReplayConversionFails, ReplayReadFails
  <2> QED BY <2>1, QuietStep DEF window, pausing
<1>8. CASE \E page \in pages : ReplayPublish(page)
  <2>1. UNCHANGED <<journal, window, pausing>> /\ out'.kind \notin {"event", "gap"}
    BY <1>8, QuietFrames DEF ReplayPublish
  <2> QED BY <2>1, QuietStep DEF window, pausing
<1>9. CASE UNCHANGED vars
  BY <1>9, <1>u DEF vars, window, pausing, Feed!feedVars
<1> QED BY <1>1, <1>2, <1>3, <1>4, <1>5, <1>6, <1>7, <1>8, <1>9
  DEF Next, HostStep, Environment, Requests

\* Live delivery, with its window, lock, resumes and journal reads, implements
\* the feed: in order, without a hole but for the events that the wire contract
\* refuses, one gap at a time, reopened only by an acknowledgement that covers
\* the gap (property ImplementsFeed).
THEOREM Implementation == Spec => ImplementsFeed
BY FeedInitial, FeedStep, Invariance, PTL DEF Spec, ImplementsFeed, Feed!FeedSpec
--------
(* The feeds: sequences of frames. *)

HIDE DeliveryAssumption DEF DeliveryAssumption
USE DEF Terminal

\* What is assumed of the constants, as the steps below use it.
LEMMA Constants ==
  /\ MaxCommitted \in Nat /\ MaxReplayEvents \in Nat \ {0} /\ MaxOutstanding \in Nat \ {0}
  /\ MaxInFlight \in Nat /\ EventSizes \subseteq Nat
  /\ Sdks \subseteq {"python", "typescript", "java"} /\ QueueSize \in Nat \ {0} /\ MaxCatchUps \in Nat
BY DeliveryAssumption, FeedAssumption DEF DeliveryAssumption, FeedAssumption

\* Events and gaps have a mark; an answer to a request has none.
LEMMA NoteKinds ==
  /\ \A x \in Notes : /\ Notification(x) /\ Mark(x) \in 1 .. Terminal
                      /\ x # NoFrame /\ x \in Frames /\ x.kind \in {"event", "gap"}
                      /\ x.kind = "event" => x.seq = Mark(x)
                      /\ x.kind = "gap" => x.watermark = Mark(x)
  /\ \A x \in Answers : ~ Notification(x) /\ x.kind \in {"page", "replay_error", "settled"} /\ x \in Frames
  /\ \A x \in Frames : Notification(x) <=> x \in Notes
BY DEF Notes, Events, Notices, Answers, Frames, Notification, Mark, NoFrame, Settled

\* An empty sequence announces nothing.
LEMMA EmptyMarks ==
  Marks(<<>>) = {} /\ EventMarks(<<>>) = {} /\ Rising(<<>>) /\ OneGap(<<>>)
BY DEF Marks, EventMarks, Rising, Places, OneGap

\* Marks are sequences of the Run.
LEMMA MarksTyped ==
  ASSUME NEW s \in Seq(Frames)
  PROVE  /\ Marks(s) \subseteq 1 .. Terminal /\ EventMarks(s) \subseteq Marks(s)
<1>1. \A i \in DOMAIN s : s[i] \in Frames
  OBVIOUS
<1> QED BY <1>1, NoteKinds DEF Marks, EventMarks, Places, Notification

\* A frame at the end adds its own mark, and keeps the order if it is the highest.
LEMMA AppendMarks ==
  ASSUME NEW s \in Seq(Frames), NEW x \in Frames
  PROVE  /\ Marks(Append(s, x)) = Marks(s) \union (IF x \in Notes THEN {Mark(x)} ELSE {})
         /\ EventMarks(Append(s, x)) = EventMarks(s) \union (IF x.kind = "event" THEN {x.seq} ELSE {})
         /\ Rising(s) /\ (x \in Notes => Below(Marks(s), {Mark(x)})) => Rising(Append(s, x))
         /\ Append(s, x) \in Seq(Frames)
         /\ OneGap(s) /\ (\A i \in DOMAIN s : s[i].kind # "gap") => OneGap(Append(s, x))
         /\ OneGap(s) /\ x.kind # "gap" => OneGap(Append(s, x))
<1> DEFINE t == Append(s, x)
<1>1. /\ DOMAIN t = DOMAIN s \union {Len(s) + 1} /\ Len(s) + 1 \notin DOMAIN s
      /\ t[Len(s) + 1] = x /\ \A i \in DOMAIN s : t[i] = s[i] /\ i < Len(s) + 1
  OBVIOUS
<1>0. t \in Seq(Frames)
  OBVIOUS
<1> HIDE DEF t
<1>2. Places(t) = Places(s) \union (IF x \in Notes THEN {Len(s) + 1} ELSE {})
  BY <1>1, NoteKinds DEF Places
<1>3. Marks(t) = Marks(s) \union (IF x \in Notes THEN {Mark(x)} ELSE {})
  BY <1>1, <1>2 DEF Marks, Places
<1>4. EventMarks(t) = EventMarks(s) \union (IF x.kind = "event" THEN {x.seq} ELSE {})
  BY <1>1 DEF EventMarks
<1>5. Rising(s) /\ (x \in Notes => Below(Marks(s), {Mark(x)})) => Rising(t)
  BY <1>1, <1>2 DEF Rising, Marks, Places, Below
<1>6. OneGap(s) /\ ((\A i \in DOMAIN s : s[i].kind # "gap") \/ x.kind # "gap") => OneGap(t)
  BY <1>1 DEF OneGap
<1> QED BY <1>0, <1>3, <1>4, <1>5, <1>6 DEF t

\* Then it is in order as s is, and has none but its marks.
LEMMA PickedMarks ==
  ASSUME NEW s \in Seq(Frames), NEW t \in Seq(Frames), NEW f, Picks(t, s, f)
  PROVE  /\ Rising(s) => Rising(t)
         /\ Marks(t) \subseteq Marks(s) /\ EventMarks(t) \subseteq EventMarks(s)
         /\ OneGap(s) => OneGap(t)
         /\ (\A i \in Places(s) : \E j \in DOMAIN t : f[j] = i) => Marks(t) = Marks(s)
         /\ (\A i \in Places(s) : \E j \in DOMAIN t : f[j] = i) => EventMarks(t) = EventMarks(s)
<1>1. /\ DOMAIN s \subseteq Nat /\ DOMAIN t \subseteq Nat
      /\ \A i \in DOMAIN t : f[i] \in DOMAIN s
  BY DEF Picks
<1>2. \A i \in DOMAIN t : i \in Places(t) <=> f[i] \in Places(s)
  BY <1>1 DEF Picks, Places, Notification
<1>3. \A i \in Places(t) : Mark(t[i]) = Mark(s[f[i]])
  BY DEF Picks, Places, Notification, Mark
<1>4. Rising(s) => Rising(t)
  BY <1>1, <1>2, <1>3 DEF Rising, Places, Picks
<1>5. Marks(t) \subseteq Marks(s) /\ EventMarks(t) \subseteq EventMarks(s)
  <2>1. Marks(t) \subseteq Marks(s)
    BY <1>2, <1>3 DEF Marks, Places
  <2>2. EventMarks(t) \subseteq EventMarks(s)
    BY <1>1 DEF EventMarks, Picks
  <2> QED BY <2>1, <2>2
<1>6. OneGap(s) => OneGap(t)
  <2>1. ASSUME NEW i \in DOMAIN t, NEW j \in DOMAIN t, f[i] = f[j] PROVE i = j
    <3>1. i \in Nat /\ j \in Nat /\ f[i] \in Nat /\ f[j] \in Nat
      BY <1>1
    <3>2. (i < j => f[i] < f[j]) /\ (j < i => f[j] < f[i])
      BY DEF Picks
    <3> QED BY <2>1, <3>1, <3>2
  <2>2. \A i \in DOMAIN t : t[i].kind = "gap" => f[i] \in DOMAIN s /\ s[f[i]].kind = "gap"
    BY <1>1 DEF Picks
  <2> QED BY <2>1, <2>2 DEF OneGap
<1>7. (\A i \in Places(s) : \E j \in DOMAIN t : f[j] = i) => Marks(s) \subseteq Marks(t)
  BY <1>2, <1>3 DEF Marks, Places
<1>8. (\A i \in Places(s) : \E j \in DOMAIN t : f[j] = i) => EventMarks(s) \subseteq EventMarks(t)
  <2>1. \A i \in DOMAIN s : s[i].kind = "event" => i \in Places(s)
    BY DEF Places, Notification
  <2>2. \A j \in DOMAIN t : t[j].kind = s[f[j]].kind
                            /\ (t[j].kind = "event" => t[j].seq = s[f[j]].seq)
    BY DEF Picks
  <2>3. ASSUME \A i \in Places(s) : \E j \in DOMAIN t : f[j] = i,
               NEW i \in DOMAIN s, s[i].kind = "event"
        PROVE  s[i].seq \in EventMarks(t)
    <3>1. PICK j \in DOMAIN t : f[j] = i
      BY <2>1, <2>3
    <3>2. t[j].kind = "event" /\ t[j].seq = s[i].seq
      BY <2>2, <2>3, <3>1
    <3> QED BY <3>2 DEF EventMarks
  <2> QED BY <2>3 DEF EventMarks
<1> QED BY <1>4, <1>5, <1>6, <1>7, <1>8

\* The tail has all frames but the head.
LEMMA TailPicks ==
  ASSUME NEW s \in Seq(Frames), s # <<>>
  PROVE  /\ Head(s) = s[1] /\ Head(s) \in Frames /\ Tail(s) \in Seq(Frames)
         /\ 1 \in DOMAIN s /\ \A i \in DOMAIN s \ {1} : i - 1 \in DOMAIN Tail(s) /\ Tail(s)[i - 1] = s[i]
         /\ \A i \in DOMAIN Tail(s) : i \in Nat /\ i > 0 /\ i + 1 \in DOMAIN s /\ Tail(s)[i] = s[i + 1]
         /\ Picks(Tail(s), s, [i \in DOMAIN Tail(s) |-> i + 1])
<1>1. /\ Head(s) = s[1] /\ Head(s) \in Frames /\ Tail(s) \in Seq(Frames)
      /\ Len(Tail(s)) = Len(s) - 1 /\ Len(s) \in Nat /\ Len(s) > 0
      /\ \A i \in 1 .. Len(Tail(s)) : Tail(s)[i] = s[i + 1]
  BY HeadTailProperties, EmptySeq, LenProperties
<1>2. DOMAIN s = 1 .. Len(s) /\ DOMAIN Tail(s) = 1 .. Len(s) - 1
  BY <1>1, LenProperties
<1> DEFINE t == Tail(s)
           f == [i \in DOMAIN t |-> i + 1]
<1> HIDE DEF t
<1>3. f \in [DOMAIN t -> DOMAIN s]
  BY <1>2 DEF t
<1>4. Picks(t, s, f)
  <2>1. \A i \in DOMAIN t : i \in Nat /\ f[i] = i + 1 /\ t[i] = s[f[i]]
    BY <1>1, <1>2 DEF t
  <2> QED BY <1>3, <2>1 DEF Picks
<1>5. 1 \in DOMAIN s /\ \A i \in DOMAIN s \ {1} : i - 1 \in DOMAIN t /\ t[i - 1] = s[i]
  <2> SUFFICES ASSUME NEW i \in DOMAIN s \ {1} PROVE i - 1 \in DOMAIN t /\ t[i - 1] = s[i]
    BY <1>1, <1>2
  <2>1. i - 1 \in 1 .. Len(s) - 1 /\ (i - 1) + 1 = i
    BY <1>1, <1>2
  <2> QED BY <1>1, <1>2, <2>1 DEF t
<1>6. \A i \in DOMAIN t : i \in Nat /\ i > 0 /\ i + 1 \in DOMAIN s /\ t[i] = s[i + 1]
  BY <1>1, <1>2 DEF t
<1> QED BY <1>1, <1>4, <1>5, <1>6 DEF t

\* The head has the lowest mark, and leaves with it.
LEMMA TailMarks ==
  ASSUME NEW s \in Seq(Frames), s # <<>>, Rising(s)
  PROVE  /\ Rising(Tail(s)) /\ Tail(s) \in Seq(Frames) /\ Head(s) \in Frames
         /\ OneGap(s) => OneGap(Tail(s))
         /\ Marks(s) = Marks(Tail(s)) \union (IF Head(s) \in Notes THEN {Mark(Head(s))} ELSE {})
         /\ Head(s) \in Notes => Below({Mark(Head(s))}, Marks(Tail(s)))
         /\ EventMarks(s) = EventMarks(Tail(s)) \union (IF Head(s).kind = "event" THEN {Head(s).seq} ELSE {})
<1> DEFINE t == Tail(s)
<1>1. /\ Head(s) = s[1] /\ Head(s) \in Frames /\ t \in Seq(Frames)
      /\ 1 \in DOMAIN s /\ \A i \in DOMAIN s \ {1} : i - 1 \in DOMAIN t /\ t[i - 1] = s[i]
      /\ \A i \in DOMAIN t : i \in Nat /\ i > 0 /\ i + 1 \in DOMAIN s /\ t[i] = s[i + 1]
  BY TailPicks
<1>2. Rising(t) /\ (OneGap(s) => OneGap(t))
  BY TailPicks, PickedMarks
<1> HIDE DEF t
<1>3. Marks(s) = Marks(t) \union (IF Head(s) \in Notes THEN {Mark(Head(s))} ELSE {})
  <2>1. \A i \in Places(s) \ {1} : Mark(s[i]) \in Marks(t)
    BY <1>1 DEF Places, Marks
  <2>2. Marks(t) \subseteq Marks(s)
    BY <1>1 DEF Places, Marks
  <2>3. 1 \in Places(s) <=> Head(s) \in Notes
    BY <1>1, NoteKinds DEF Places
  <2>4. Places(s) \subseteq DOMAIN s
    BY DEF Places
  <2>5. Marks(s) \subseteq Marks(t) \union (IF Head(s) \in Notes THEN {Mark(Head(s))} ELSE {})
    BY <1>1, <2>1, <2>3, <2>4 DEF Marks
  <2>6. Head(s) \in Notes => Mark(Head(s)) \in Marks(s)
    BY <1>1, <2>3 DEF Marks
  <2> QED BY <2>2, <2>5, <2>6
<1>4. EventMarks(s) = EventMarks(t) \union (IF Head(s).kind = "event" THEN {Head(s).seq} ELSE {})
  <2>1. \A i \in DOMAIN s \ {1} : s[i].kind = "event" => s[i].seq \in EventMarks(t)
    BY <1>1 DEF EventMarks
  <2>2. EventMarks(t) \subseteq EventMarks(s)
    BY <1>1 DEF EventMarks
  <2> QED BY <1>1, <2>1, <2>2 DEF EventMarks
<1>5. Head(s) \in Notes => Below({Mark(Head(s))}, Marks(t))
  <2>1. \A i \in Places(t) : i + 1 \in Places(s) /\ Mark(s[i + 1]) = Mark(t[i]) /\ 1 < i + 1
    BY <1>1 DEF Places
  <2>2. Head(s) \in Notes => 1 \in Places(s) /\ Mark(s[1]) = Mark(Head(s))
    BY <1>1, NoteKinds DEF Places
  <2> QED BY <2>1, <2>2 DEF Rising, Below, Marks
<1> QED BY <1>1, <1>2, <1>3, <1>4, <1>5 DEF t

\* The frames before a place.
LEMMA PrefixMarks ==
  ASSUME NEW s \in Seq(Frames), NEW n \in DOMAIN s
  PROVE  LET t == SubSeq(s, 1, n - 1)
         IN  /\ t \in Seq(Frames) /\ \A i \in DOMAIN t : i \in 1 .. n - 1 /\ t[i] = s[i]
             /\ DOMAIN t = 1 .. n - 1
             /\ Rising(s) => Rising(t)
             /\ Marks(t) \subseteq Marks(s) /\ EventMarks(t) \subseteq EventMarks(s)
             /\ OneGap(s) => OneGap(t)
<1> DEFINE t == SubSeq(s, 1, n - 1)
           f == [i \in DOMAIN t |-> i]
<1>1. n \in 1 .. Len(s) /\ Len(s) \in Nat /\ \A i \in 1 .. n - 1 : s[i] \in Frames /\ i \in DOMAIN s
  OBVIOUS
<1>2. /\ t \in Seq(Frames) /\ Len(t) = n - 1
      /\ \A i \in 1 .. n - 1 : t[i] = s[i]
  BY <1>1, SubSeqProperties
<1>3. DOMAIN t = 1 .. n - 1
  BY <1>2, LenProperties
<1> HIDE DEF t
<1>4. Picks(t, s, f)
  <2>1. f \in [DOMAIN t -> DOMAIN s]
    BY <1>1, <1>3
  <2>2. \A i \in DOMAIN t : f[i] = i /\ t[i] = s[f[i]]
    BY <1>2, <1>3
  <2> QED BY <2>1, <2>2 DEF Picks
<1>5. /\ Rising(s) => Rising(t)
      /\ Marks(t) \subseteq Marks(s) /\ EventMarks(t) \subseteq EventMarks(s)
      /\ OneGap(s) => OneGap(t)
  BY <1>2, <1>4, PickedMarks
<1> QED BY <1>2, <1>3, <1>5 DEF t

\* The frames but for an answer.
LEMMA WithoutAnswer ==
  ASSUME NEW s \in Seq(Frames), NEW n \in DOMAIN s, ~ Notification(s[n])
  PROVE  LET t == RemoveAt(s, n)
         IN  /\ t \in Seq(Frames) /\ Len(t) = Len(s) - 1
             /\ \A i \in DOMAIN t : t[i] = s[IF i < n THEN i ELSE i + 1]
             /\ Rising(s) => Rising(t)
             /\ Marks(t) = Marks(s) /\ EventMarks(t) = EventMarks(s)
<1> DEFINE t == RemoveAt(s, n)
           f == [i \in DOMAIN t |-> IF i < n THEN i ELSE i + 1]
           a == SubSeq(s, 1, n - 1)
           b == SubSeq(s, n + 1, Len(s))
<1>1. n \in 1 .. Len(s) /\ Len(s) \in Nat /\ \A i \in 1 .. Len(s) : s[i] \in Frames /\ i \in DOMAIN s
  OBVIOUS
<1>2. /\ a \in Seq(Frames) /\ Len(a) = n - 1
      /\ \A i \in 1 .. n - 1 : a[i] = s[i]
  BY <1>1, SubSeqProperties
<1>3. /\ b \in Seq(Frames) /\ Len(b) = Len(s) - n
      /\ \A i \in 1 .. Len(s) - n : b[i] = s[n + i]
  <2>1. \A i \in n + 1 .. Len(s) : s[i] \in Frames
    BY <1>1
  <2>2. /\ b \in Seq(Frames) /\ Len(b) = IF n + 1 <= Len(s) THEN Len(s) - (n + 1) + 1 ELSE 0
        /\ \A i \in 1 .. Len(s) - (n + 1) + 1 : b[i] = s[(n + 1) + i - 1]
    BY <1>1, <2>1, SubSeqProperties
  <2> QED BY <1>1, <2>2
<1>4. t = a \o b
  BY DEF RemoveAt
<1> HIDE DEF a, b, t
<1>5. /\ t \in Seq(Frames) /\ Len(t) = Len(s) - 1
      /\ \A i \in 1 .. Len(s) - 1 : t[i] = IF i <= n - 1 THEN a[i] ELSE b[i - (n - 1)]
  <2>1. a \in Seq(Frames) /\ b \in Seq(Frames) /\ Len(a) = n - 1
    BY <1>2, <1>3
  <2>2. /\ a \o b \in Seq(Frames) /\ Len(a \o b) = Len(a) + Len(b)
        /\ \A i \in 1 .. Len(a) + Len(b) : (a \o b)[i] = IF i <= Len(a) THEN a[i] ELSE b[i - Len(a)]
    BY <2>1, ConcatProperties
  <2>3. Len(a) + Len(b) = Len(s) - 1
    BY <1>1, <1>2, <1>3
  <2> QED BY <1>4, <2>1, <2>2, <2>3
<1>6. DOMAIN t = 1 .. Len(s) - 1
  BY <1>1, <1>5, LenProperties
<1>7. \A i \in DOMAIN t : t[i] = s[IF i < n THEN i ELSE i + 1]
  <2> SUFFICES ASSUME NEW i \in 1 .. Len(s) - 1 PROVE t[i] = s[IF i < n THEN i ELSE i + 1]
    BY <1>6
  <2>1. CASE i <= n - 1
    BY <1>1, <1>2, <1>5, <2>1
  <2>2. CASE ~ (i <= n - 1)
    <3>1. i - (n - 1) \in 1 .. Len(s) - n /\ n + (i - (n - 1)) = i + 1
      BY <1>1, <2>2
    <3>2. t[i] = b[i - (n - 1)] /\ b[i - (n - 1)] = s[n + (i - (n - 1))]
      BY <1>3, <1>5, <2>2, <3>1
    <3> QED BY <1>1, <2>2, <3>1, <3>2
  <2> QED BY <2>1, <2>2
<1>8. Picks(t, s, f)
  <2>1. f \in [DOMAIN t -> DOMAIN s]
    BY <1>1, <1>6
  <2>2. \A i \in DOMAIN t : t[i] = s[f[i]]
    BY <1>7
  <2>3. \A i, j \in DOMAIN t : i < j => f[i] < f[j]
    BY <1>1, <1>6
  <2> QED BY <2>1, <2>2, <2>3 DEF Picks
<1>9. \A i \in Places(s) : \E j \in DOMAIN t : f[j] = i
  <2> SUFFICES ASSUME NEW i \in Places(s) PROVE \E j \in DOMAIN t : f[j] = i
    OBVIOUS
  <2>1. i \in 1 .. Len(s) /\ i # n
    BY <1>1 DEF Places
  <2>2. CASE i < n
    BY <1>1, <1>6, <2>1, <2>2
  <2>3. CASE i > n
    <3>1. i - 1 \in DOMAIN t /\ f[i - 1] = i
      BY <1>1, <1>6, <2>1, <2>3
    <3> QED BY <3>1
  <2> QED BY <1>1, <2>1, <2>2, <2>3
<1> QED BY <1>5, <1>7, <1>8, <1>9, PickedMarks DEF t
--------
(* What the lane holds. *)

\* The marks of the lane are sequences of the Run.
LEMMA HeldTyped ==
  ASSUME Typed
  PROVE  /\ held \in Seq(Entries) /\ HeldMarks \subseteq 1 .. Terminal /\ HeldEvents \subseteq HeldMarks
         /\ \A i \in DOMAIN held : held[i] \in Entries /\ held[i].item \in Notes
                                    /\ held[i].seq = Mark(held[i].item)
<1>1. \A i \in DOMAIN held : held[i] \in Entries
  BY DEF Typed
<1> QED BY <1>1 DEF Typed, Entries, HeldMarks, HeldEvents

\* An entry at the end of the lane adds its mark.
LEMMA HeldAppend ==
  ASSUME Typed, NEW e \in Entries, held' = Append(held, e), e.seq = Mark(e.item)
  PROVE  /\ held' \in Seq(Entries) /\ \A i \in DOMAIN held' : held'[i].seq = Mark(held'[i].item)
         /\ HeldMarks' = HeldMarks \union {Mark(e.item)}
         /\ HeldEvents' = HeldEvents \union (IF e.item.kind = "event" THEN {Mark(e.item)} ELSE {})
         /\ HeldRising /\ Below(HeldMarks, {Mark(e.item)}) => HeldRising'
<1>1. /\ DOMAIN held' = DOMAIN held \union {Len(held) + 1} /\ Len(held) + 1 \notin DOMAIN held
      /\ held'[Len(held) + 1] = e
      /\ \A i \in DOMAIN held : held'[i] = held[i] /\ i < Len(held) + 1
      /\ held' \in Seq(Entries)
  BY HeldTyped
<1>2. \A i \in DOMAIN held' : held'[i].seq = Mark(held'[i].item)
  BY <1>1, HeldTyped
<1>3. HeldMarks' = HeldMarks \union {Mark(e.item)}
  BY <1>1 DEF HeldMarks
<1>4. HeldEvents' = HeldEvents \union (IF e.item.kind = "event" THEN {Mark(e.item)} ELSE {})
  BY <1>1 DEF HeldEvents
<1>5. HeldRising /\ Below(HeldMarks, {Mark(e.item)}) => HeldRising'
  BY <1>1 DEF HeldRising, HeldMarks, Below
<1> QED BY <1>1, <1>2, <1>3, <1>4, <1>5

\* The head of the lane has its lowest mark, and leaves with it.
LEMMA HeldTail ==
  ASSUME Typed, HeldRising, held # <<>>, held' = Tail(held)
  PROVE  /\ held' \in Seq(Entries) /\ \A i \in DOMAIN held' : held'[i].seq = Mark(held'[i].item)
         /\ Head(held) \in Entries /\ Head(held).item \in Notes /\ Head(held).seq = Mark(Head(held).item)
         /\ HeldRising' /\ HeldMarks = HeldMarks' \union {Head(held).seq} /\ Below({Head(held).seq}, HeldMarks')
         /\ HeldEvents = HeldEvents' \union (IF Head(held).item.kind = "event" THEN {Head(held).seq} ELSE {})
<1>0. held \in Seq(Entries)
  BY HeldTyped
<1>1. /\ Head(held) = held[1] /\ held' \in Seq(Entries) /\ Len(held') = Len(held) - 1
      /\ Len(held) \in Nat /\ Len(held) > 0
      /\ \A i \in 1 .. Len(held') : held'[i] = held[i + 1]
  BY <1>0, HeadTailProperties, EmptySeq, LenProperties
<1>2. DOMAIN held = 1 .. Len(held) /\ DOMAIN held' = 1 .. Len(held) - 1
  BY <1>0, <1>1, LenProperties
<1>3. /\ 1 \in DOMAIN held
      /\ \A i \in DOMAIN held' : i + 1 \in DOMAIN held /\ held'[i] = held[i + 1] /\ i \in Nat /\ 1 < i + 1
  BY <1>1, <1>2
<1>4. \A i \in DOMAIN held \ {1} : i - 1 \in DOMAIN held' /\ held'[i - 1] = held[i]
  <2> SUFFICES ASSUME NEW i \in DOMAIN held \ {1} PROVE i - 1 \in DOMAIN held' /\ held'[i - 1] = held[i]
    OBVIOUS
  <2>1. i - 1 \in 1 .. Len(held) - 1 /\ (i - 1) + 1 = i
    BY <1>1, <1>2
  <2> QED BY <1>1, <1>2, <2>1
<1>5. HeldRising'
  BY <1>3 DEF HeldRising
<1>6. HeldMarks = HeldMarks' \union {Head(held).seq}
  <2>1. \A i \in DOMAIN held \ {1} : held[i].seq \in HeldMarks'
    BY <1>4 DEF HeldMarks
  <2>2. HeldMarks' \subseteq HeldMarks
    BY <1>3 DEF HeldMarks
  <2>3. Head(held).seq \in HeldMarks
    BY <1>1, <1>3 DEF HeldMarks
  <2>4. HeldMarks \subseteq HeldMarks' \union {Head(held).seq}
    BY <1>1, <2>1 DEF HeldMarks
  <2> QED BY <2>2, <2>3, <2>4
<1>7. Below({Head(held).seq}, HeldMarks')
  BY <1>1, <1>3 DEF HeldRising, HeldMarks, Below
<1>8. HeldEvents = HeldEvents' \union (IF Head(held).item.kind = "event" THEN {Head(held).seq} ELSE {})
  <2>1. \A i \in DOMAIN held \ {1} : held[i].item.kind = "event" => held[i].seq \in HeldEvents'
    BY <1>4 DEF HeldEvents
  <2>2. HeldEvents' \subseteq HeldEvents
    BY <1>3 DEF HeldEvents
  <2>3. Head(held).item.kind = "event" => Head(held).seq \in HeldEvents
    BY <1>1, <1>3 DEF HeldEvents
  <2>4. HeldEvents \subseteq HeldEvents' \union (IF Head(held).item.kind = "event" THEN {Head(held).seq} ELSE {})
    BY <1>1, <2>1 DEF HeldEvents
  <2> QED BY <2>2, <2>3, <2>4
<1>9. \A i \in DOMAIN held' : held'[i].seq = Mark(held'[i].item)
  BY <1>3, HeldTyped
<1>10. Head(held) \in Entries /\ Head(held).item \in Notes /\ Head(held).seq = Mark(Head(held).item)
  BY <1>1, <1>3, HeldTyped
<1> QED BY <1>1, <1>5, <1>6, <1>7, <1>8, <1>9, <1>10

\* The marks of the pipeline are sequences of the Run.
LEMMA PipelineTyped ==
  ASSUME Typed
  PROVE  /\ Fore \subseteq 1 .. Terminal /\ Rear \subseteq 1 .. Terminal
         /\ ForeEvents \subseteq Fore /\ RearEvents \subseteq Rear
         /\ HandMarks \subseteq 1 .. Terminal /\ Marks(queue) \subseteq 1 .. Terminal
         /\ HeldMarks \subseteq 1 .. Terminal /\ Marks(to_client) \subseteq 1 .. Terminal
         /\ queue \in Seq(Frames) /\ to_client \in Seq(Frames)
         /\ HandEvents \subseteq HandMarks /\ EventMarks(queue) \subseteq Marks(queue)
         /\ EventMarks(to_client) \subseteq Marks(to_client)
         /\ seen \in 0 .. Terminal /\ last_sent_sequence \in Nat /\ paused_sequence \in Nat
         /\ paused \in BOOLEAN /\ Top \in Nat /\ Terminal \in Nat
         /\ last_sequence \in 0 .. Terminal /\ ack_cursor \in 0 .. Terminal
<1>1. queue \in Seq(Frames) /\ to_client \in Seq(Frames)
  <2>1. queue \in Seq(Notes) /\ Notes \subseteq Frames
    BY DEF Typed, Frames
  <2> QED BY <2>1 DEF Typed
<1>2. /\ Marks(queue) \subseteq 1 .. Terminal /\ EventMarks(queue) \subseteq Marks(queue)
      /\ Marks(to_client) \subseteq 1 .. Terminal /\ EventMarks(to_client) \subseteq Marks(to_client)
  BY <1>1, MarksTyped
<1>3. HandMarks \subseteq 1 .. Terminal /\ HandEvents \subseteq HandMarks
  BY NoteKinds DEF Typed, HandMarks, HandEvents, NoFrame
<1>4. /\ seen \in 0 .. Terminal /\ last_sent_sequence \in Nat /\ paused_sequence \in Nat
      /\ last_sequence \in 0 .. Terminal /\ ack_cursor \in 0 .. Terminal
      /\ paused \in BOOLEAN /\ Top \in Nat /\ Terminal \in Nat
  BY Constants DEF Typed, FeedTypeOK, TypeOK, Top
<1> QED BY <1>1, <1>2, <1>3, <1>4, HeldTyped DEF Fore, Rear, ForeEvents, RearEvents
--------
(* What joins an event to what is before it. *)

LEMMA JoinedFacts ==
  ASSUME NEW m \in Nat, NEW s \in Nat
  PROVE  /\ s <= m + 1 => Joined(m, s)
         /\ \A n \in Nat : n >= m /\ Joined(m, s) => Joined(n, s)
         /\ Carried /\ Joined(m, s) => s <= m + 1
BY DEF Joined, OnlyUnsendable, Carried

\* No event that was refused is accepted later.
LEMMA ChainedAfter ==
  ASSUME Unsendable \subseteq Unsendable',
         \A s \in ForeEvents' : Joined(seen', s) \/ JoinedIn(Fore', s),
         queue_state' = "open" =>
           /\ \A s \in RearEvents' : Joined(seen', s) \/ JoinedIn(Fore' \union Rear', s)
           /\ ~ paused' => last_sent_sequence' <= seen' \/ last_sent_sequence' \in Fore' \union Rear'
  PROVE  Chained'
<1>1. \A m, s : Joined(m, s) => m + 1 .. s - 1 \subseteq Unsendable'
  BY DEF Joined, OnlyUnsendable
<1> QED BY <1>1 DEF Chained, Linked, JoinedIn, Joined, OnlyUnsendable
--------
(* What the Host announces. *)

\* StreamDelivery.publish sends nothing, or announces the event: the next one that
\* has a wire form.
LEMMA PublishSays ==
  ASSUME Inv, paused => last_sent_sequence <= paused_sequence, connected,
         NEW seq \in 1 .. Len(journal), Publish(seq, journal[seq]),
         ~ paused => Joined(last_sent_sequence, seq)
  PROVE  \/ out' = NoFrame /\ UNCHANGED <<window, pausing, ackable_sequence>>
         \/ /\ Announces(out') /\ seq = Mark(out')
            /\ ackable_sequence' = Larger(ackable_sequence, seq)
<1>1. /\ Len(journal) \in Nat /\ Len(journal) <= MaxCommitted /\ last_sent_sequence \in Nat
      /\ paused \in BOOLEAN
  BY Constants, LenProperties DEF Inv, TypeOK
<1>2. CASE PublishNothing(seq, journal[seq])
  BY <1>2 DEF PublishNothing
<1>3. CASE PublishFrame(seq, journal[seq])
  <2>1. /\ ~ paused /\ last_sent_sequence < seq /\ Joined(last_sent_sequence, seq) /\ seq \in 1 .. Terminal
    BY Constants, <1>1, <1>3 DEF PublishFrame, AlreadyCovered
  <2>2. CASE Deliver(seq, journal[seq])
    BY <2>1, <2>2 DEF Deliver, Announces, pausing, EventFrame, Notes, Events, Mark
  <2>3. CASE SkipOversized(seq, journal[seq])
    BY <2>1, <2>3 DEF SkipOversized, Announces, Pause, window, GapFrame, Notes, Notices, Mark
  <2>4. CASE GapAndPause(seq, journal[seq])
    BY <1>1, <2>1, <2>4 DEF GapAndPause, Announces, Pause, window, GapFrame, Notes, Notices, Mark, Larger
  <2> QED BY <1>3, <2>2, <2>3, <2>4 DEF PublishFrame
<1> QED BY <1>2, <1>3 DEF Publish

\* A step that moves neither cursor nor gap is quiet.
LEMMA StaysQuiet ==
  ASSUME Typed, paused => last_sent_sequence <= paused_sequence,
         UNCHANGED <<paused, paused_sequence, last_sent_sequence>>
  PROVE  Quiet
BY PipelineTyped DEF Quiet, Top

\* An ACK that covers the gap of a full window has emptied it, so it resumes.
LEMMA AcceptQuiet ==
  ASSUME Inv, Typed, paused => last_sent_sequence <= paused_sequence,
         NEW acked \in 1 .. seen, NEW count \in 0 .. Len(unacked), AcceptAck(acked, count)
  PROVE  Quiet /\ (CoversGap(acked) => ~ paused')
<1>1. /\ last_sent_sequence \in Nat /\ paused_sequence \in Nat /\ paused \in BOOLEAN
      /\ seen \in Nat /\ acked \in Nat /\ unacked \in Seq([seq : Nat, bytes : Nat]) /\ Len(unacked) \in Nat
  BY Constants, PipelineTyped, LenProperties DEF Inv, TypeOK
<1>2. last_sent_sequence' = Larger(last_sent_sequence, acked)
  BY DEF AcceptAck, CursorAfter
<1>3. CASE CoversGap(acked)
  <2>1. paused /\ acked >= paused_sequence /\ acked >= last_sent_sequence
    BY <1>1, <1>3 DEF CoversGap
  <2>2. count = Len(unacked)
    <3>1. SUFFICES ASSUME count < Len(unacked) PROVE FALSE
      BY <1>1
    <3>2. RetiredBy(acked, count)
      BY DEF AcceptAck
    <3>3. unacked[count + 1].seq > acked
      BY <3>2, <3>1 DEF RetiredBy
    <3>4. count + 1 \in 1 .. Len(unacked)
      BY <1>1, <3>1
    <3>5. unacked[count + 1].seq \in 1 .. last_sent_sequence
      BY <3>4 DEF Inv, WindowOrdered
    <3> QED BY <1>1, <2>1, <3>3, <3>5
  <2>3. Len(SubSeq(unacked, count + 1, Len(unacked))) < MaxOutstanding
    BY <1>1, <2>2, RetiredWindow, Constants
  <2>4. paused' = FALSE
    BY <1>3, <2>3 DEF AcceptAck
  <2> QED BY <1>1, <1>2, <2>1, <2>4 DEF Quiet, Top, Larger
<1>4. CASE ~ CoversGap(acked)
  <2>1. UNCHANGED <<paused, paused_sequence>>
    BY <1>4 DEF AcceptAck, pausing
  <2> QED BY <1>1, <1>2, <1>4, <2>1 DEF Quiet, Top, Larger, CoversGap
<1> QED BY <1>3, <1>4
--------
(* The steps of the Host, as its client sees them. *)

\* What publish sends goes to the end of the wire.
LEMMA PublishedNote ==
  ASSUME Inv, Typed, paused => last_sent_sequence <= paused_sequence,
         NEW seq \in 1 .. Len(journal), Publish(seq, journal[seq]),
         ~ paused => Joined(last_sent_sequence, seq),
         Enqueue, UNCHANGED <<to_host, tasks, registered>>
  PROVE  HostDoes
<1>1. CASE out' = NoFrame /\ UNCHANGED <<window, pausing, ackable_sequence>>
  BY <1>1 DEF Enqueue, HostDoes, Waits, wires
<1>2. CASE Announces(out') /\ seq = Mark(out') /\ ackable_sequence' = Larger(ackable_sequence, seq)
  <2>1. out' \in Notes /\ out' # NoFrame /\ Mark(out') = seq
    BY <1>2, NoteKinds DEF Announces
  <2>2. to_client' = Append(to_client, out')
    BY <2>1 DEF Enqueue
  <2>3. journal[seq] \in Nat
    BY Constants, ElementOfSeq DEF Inv, TypeOK
  <2>4. ASSUME out'.kind = "event"
        PROVE  /\ Len(unacked) + 1 <= MaxOutstanding
               /\ \E b \in Nat : unacked' = Append(unacked, [seq |-> Mark(out'), bytes |-> b])
    <3>1. PublishFrame(seq, journal[seq])
      BY <2>1 DEF Publish, PublishNothing
    <3>2. Deliver(seq, journal[seq])
      BY <2>4, <3>1 DEF PublishFrame, SkipOversized, GapAndPause, GapFrame
    <3>3. Len(unacked) \in Nat /\ MaxOutstanding \in Nat
      BY Constants, LenProperties DEF Inv, TypeOK
    <3> QED BY <2>1, <2>3, <3>2, <3>3 DEF Deliver, WindowFull
  <2>5. SaysNote(out')
    BY <1>2, <2>1, <2>2, <2>4 DEF SaysNote, tasks
  <2> QED BY <2>1, <2>5 DEF HostDoes
<1> QED BY <1>1, <1>2, PublishSays DEF Typed

\* Every step of the Host is one its client sees in one of these ways.
LEMMA HostSays ==
  ASSUME Inv, Typed, paused => last_sent_sequence <= paused_sequence, HostSide
  PROVE  HostDoes /\ UNCHANGED client /\ connected' = connected /\ [Next]_vars
<1>0. /\ Len(journal) \in Nat /\ connected = TRUE /\ (resuming # "idle" => paused = FALSE)
      /\ Len(journal) <= MaxCommitted /\ MaxCommitted \in Nat
  BY Constants, LenProperties DEF Typed, Inv, ResumeReadsEnough, TypeOK
<1>1. CASE HostMoves
  <2> USE <1>0, <1>1 DEF HostMoves
  <2>1. CASE Observe
    <3>1. /\ Publish(observed + 1, journal[observed + 1]) /\ UNCHANGED <<tasks, registered, connected>>
          /\ observed + 1 \in 1 .. Len(journal) /\ resuming = "idle"
      BY <2>1 DEF Observe, Inv, TypeOK, env
    <3>2. ~ paused => Joined(last_sent_sequence, observed + 1)
      BY <1>0, <3>1 DEF Inv, TypeOK, NoSilentHole, Joined
    <3>3. HostDoes
      BY <3>1, <3>2, PublishedNote
    <3> QED BY <2>1, <3>1, <3>3 DEF Next, HostStep
  <2>2. CASE \E acked \in acks : RejectAck(acked)
    BY <2>2 DEF RejectAck, HostDoes, Rejects, Enqueue, AheadOfAnnounced, wires, window, pausing, env, Next, HostStep
  <2>3. CASE \E acked \in acks, count \in 0 .. Len(unacked) : AcceptAck(acked, count)
    <3> PICK acked \in acks, count \in 0 .. Len(unacked) : AcceptAck(acked, count)
      BY <2>3
    <3>1. /\ acks' = acks \ {acked} /\ out' = NoFrame
          /\ UNCHANGED <<pages, registered, connected, ackable_sequence>>
      BY DEF AcceptAck, env
    <3>2. Accepts(acked)
      BY <3>1 DEF Accepts, Enqueue, wires
    <3> QED BY <2>3, <3>1, <3>2 DEF HostDoes, Next, HostStep
  <2>4. CASE ResumeRead \/ ResumeDone
    BY <2>4 DEF ResumeRead, ResumeDone, HostDoes, Waits, Enqueue, wires, window, pausing, env, tasks, Next, HostStep
  <2>5. CASE ResumePublish
    <3>1. /\ Publish(resume_next, journal[resume_next]) /\ UNCHANGED <<tasks, registered, connected>>
          /\ resume_next \in 1 .. Len(journal) /\ resuming = "records"
      BY <2>5 DEF ResumePublish, Inv, TypeOK, env
    <3>2. ~ paused => Joined(last_sent_sequence, resume_next)
      BY <3>1, JoinedFacts DEF Inv, ResumeReadsEnough, TypeOK
    <3>3. HostDoes
      BY <3>1, <3>2, PublishedNote
    <3> QED BY <2>5, <3>1, <3>3 DEF Next, HostStep
  <2>7. CASE ResumePublishFails
    <3>1. resume_next \in DOMAIN journal /\ resuming # "idle" /\ ~ HasWireForm(journal[resume_next])
      BY <1>0, <2>7, LenProperties
      DEF ResumePublishFails, PublishFails, AlreadyCovered, Inv, ResumeReadsEnough, TypeOK
    <3>2. ~ Carried /\ ~ paused
      BY <1>0, <3>1 DEF Carried, Unsendable
    <3>3. ResumeFails /\ connected' = connected
      BY <2>7, <3>2 DEF ResumePublishFails, AbandonResume, ResumeFails, Enqueue, wires, window, tasks
    <3> QED BY <2>7, <3>3 DEF HostDoes, Next, HostStep
  <2>6. CASE \E page \in pages : ReplayPublish(page)
    <3> PICK page \in pages : ReplayPublish(page)
      BY <2>6
    <3> DEFINE x == PageFrame(page)
    <3>1. x \in Answers /\ x.kind = "page" /\ x.page = page /\ x # NoFrame
      BY DEF Typed, Answers, PageFrame, NoFrame
    <3>a. /\ out' = x /\ ackable_sequence' = Larger(ackable_sequence, Coverage(page)) /\ pages' = pages \ {page}
          /\ UNCHANGED <<registered, acks, window, pausing>>
      BY <1>0 DEF ReplayPublish, env
    <3>b. to_client' = Append(to_client, x) /\ UNCHANGED to_host
      BY <3>1, <3>a DEF Enqueue
    <3> HIDE DEF x
    <3>2. Says(x)
      BY <3>1, <3>a, <3>b DEF Says
    <3> QED BY <2>6, <3>1, <3>2 DEF HostDoes, ReplayPublish, env, Next, HostStep
  <2> QED BY <2>1, <2>2, <2>3, <2>4, <2>5, <2>6, <2>7 DEF HostStep
<1>2. CASE RunMoves
  BY <1>2 DEF RunMoves, Commit, HostDoes, Waits, wires, window, pausing, env, tasks, Next, Environment
<1>3. CASE RunSettles
  <2>1. Says(Settled) /\ Settled \in Answers
    BY <1>3 DEF RunSettles, Settle, Says, Answers, window, pausing, tasks
  <2> QED BY <1>3, <2>1 DEF HostDoes, RunSettles, Settle, Next, Environment
<1>4. CASE ResumeFault
  <2>1. ~ paused /\ paused'
    BY <1>0, <1>4 DEF ResumeFault, ResumeReadFails, AbandonResume
  <2>2. ResumeFails
    BY <1>4, <2>1 DEF ResumeFault, ResumeReadFails, AbandonResume, ResumeFails, wires, window, tasks
  <2> QED BY <1>4, <2>2 DEF ResumeFault, ResumeReadFails, AbandonResume, HostDoes, Next, Environment
<1>5. CASE HostReceives
  <2> DEFINE x == Head(to_host)
  <2>1. to_host # <<>> /\ to_host' = Tail(to_host) /\ x \in Messages /\ UNCHANGED client
    BY <1>5, HeadTailProperties DEF HostReceives, Typed
  <2>2. CASE x.kind = "ack" /\ ReceiveAck(x.seq)
    <3>1. x.seq \in 1 .. MaxCommitted
      BY <2>1, <2>2 DEF Messages
    <3>2. out' = NoFrame
      BY <2>2 DEF ReceiveAck
    <3>3. Takes1
      BY <1>5, <2>1, <2>2, <3>2 DEF HostReceives, ReceiveAck, Takes1, TakesAck, Enqueue, env, window, pausing
    <3>4. Next
      BY <1>0, <2>2, <3>1 DEF Next, Requests
    <3> QED BY <2>1, <2>2, <3>3, <3>4 DEF HostDoes, ReceiveAck, env
  <2>3. ASSUME x.kind = "replay"
        PROVE x.after \in 0 .. Terminal /\ x.limit \in 1 .. MaxReplayEvents
    BY <2>1, <2>3, Constants DEF Messages
  <2>4. ASSUME x.kind = "replay", NEW page \in PagesAfter(x.after), ReplayRead(x.after, x.limit, page)
        PROVE  HostDoes /\ connected' = connected /\ Next
    <3>1. page \in HostPages /\ page.base = x.after /\ page.base <= page.end
      BY <1>0, <2>3, <2>4 DEF PagesAfter, HostPages, Larger
    <3>2. PageFrame(page) # NoFrame /\ PageFrame(page) = [kind |-> "page", page |-> page]
      BY DEF PageFrame, NoFrame
    <3>a. Enqueue /\ UNCHANGED <<acks, registered, ackable_sequence, window, pausing>>
      BY <1>5, <2>4 DEF HostReceives, ReplayRead, env
    <3>3. Takes1
      <4>1. CASE registered
        <5>1. pages' = pages \union {page} /\ out' = NoFrame
          BY <4>1, <2>4 DEF ReplayRead
        <5>2. TakesReplay(x)
          BY <2>4, <3>1, <3>a, <5>1 DEF TakesReplay, Enqueue
        <5> QED BY <2>1, <3>a, <5>2 DEF Takes1
      <4>2. CASE ~ registered
        <5>1. UNCHANGED pages /\ out' = PageFrame(page)
          BY <1>0, <4>2, <2>4 DEF ReplayRead
        <5>2. to_client' = Append(to_client, [kind |-> "page", page |-> page])
          BY <3>2, <3>a, <5>1 DEF Enqueue
        <5>3. TakesReplay(x)
          BY <2>4, <3>1, <3>a, <4>2, <5>1, <5>2 DEF TakesReplay
        <5> QED BY <2>1, <3>a, <5>3 DEF Takes1
      <4> QED BY <4>1, <4>2
    <3>4. Next
      BY <2>3, <2>4 DEF Next, Requests
    <3> QED BY <2>4, <3>3, <3>4 DEF HostDoes, ReplayRead, env
  <2>5. CASE /\ x.kind = "replay"
             /\ ReplayTooLarge(x.after, x.limit) \/ ReplayConversionFails(x.after, x.limit)
    <3>a. /\ Enqueue /\ UNCHANGED <<acks, pages, registered, connected, ackable_sequence, window, pausing>>
          /\ \E code \in ReplayErrors : out' = ReplayErrorFrame(x.after, code)
      BY <1>0, <1>5, <2>5 DEF HostReceives, ReplayTooLarge, ReplayConversionFails, ReplayErrors, env, tasks
    <3>b. \A code : ReplayErrorFrame(x.after, code) # NoFrame
      BY DEF ReplayErrorFrame, NoFrame
    <3>c. \E code \in ReplayErrors : to_client' = Append(to_client, ReplayErrorFrame(x.after, code))
      BY <3>a, <3>b DEF Enqueue
    <3>2. Takes1
      BY <2>1, <2>5, <3>a, <3>c DEF Takes1, TakesReplay
    <3>3. Next
      BY <2>3, <2>5 DEF Next, Requests
    <3> QED BY <2>1, <3>2, <3>3, <3>a DEF HostDoes
  <2> QED BY <1>5, <2>1, <2>2, <2>4, <2>5 DEF HostReceives
<1> QED BY <1>1, <1>2, <1>3, <1>4, <1>5 DEF HostSide
\* The parts of a client that does not move.
LEMMA ClientStays ==
  ASSUME UNCHANGED client
  PROVE  UNCHANGED <<sdk, last_sequence, gap_mark, live, ranges, terminal_replayed, held, queue,
                     queue_state, retired, ack_cursor, submissions, iterator, hand, recovery,
                     settled_known, catch_ups, seen>>
BY DEF client, feed, mail, acking, app

\* A frame that answers a request concerns the pipeline as little as none.
LEMMA WireAfterHost ==
  ASSUME Typed, HostDoes
  PROVE  /\ to_client' \in Seq(Frames)
         /\ \/ /\ Marks(to_client)' = Marks(to_client) /\ EventMarks(to_client)' = EventMarks(to_client)
               /\ Rising(to_client) => Rising(to_client)'
               /\ ~ \E x \in Notes : SaysNote(x)
            \/ \E x \in Notes :
                 /\ SaysNote(x) /\ Marks(to_client)' = Marks(to_client) \union {Mark(x)}
                 /\ EventMarks(to_client)' =
                      EventMarks(to_client) \union (IF x.kind = "event" THEN {Mark(x)} ELSE {})
                 /\ Rising(to_client) /\ Below(Marks(to_client), {Mark(x)}) => Rising(to_client)'
<1>1. to_client \in Seq(Frames)
  BY PipelineTyped
<1>2. CASE \E x \in Notes : SaysNote(x)
  <2> PICK x \in Notes : SaysNote(x)
    BY <1>2
  <2>1. to_client' = Append(to_client, x) /\ x \in Frames /\ (x.kind = "event" => x.seq = Mark(x))
    BY NoteKinds DEF SaysNote
  <2> QED BY <1>1, <2>1, AppendMarks
<1>3. ASSUME ~ \E x \in Notes : SaysNote(x)
      PROVE  to_client' = to_client \/ \E x \in Answers : to_client' = Append(to_client, x)
  <2>1. CASE Takes1
    <3> DEFINE h == Head(to_host)
    <3>1. h \in Messages
      BY <2>1, HeadTailProperties DEF Takes1, Typed
    <3>2. CASE TakesAck(h)
      BY <3>2 DEF TakesAck
    <3>3. CASE TakesReplay(h)
      <4>1. h.after \in 0 .. Terminal
        BY <3>1, <3>3 DEF Messages, TakesReplay
      <4>2. \A code \in ReplayErrors : ReplayErrorFrame(h.after, code) \in Answers
        BY <4>1, Constants DEF ReplayErrorFrame, Answers
      <4>3. \A page \in HostPages : [kind |-> "page", page |-> page] \in Answers
        BY DEF Answers
      <4> QED BY <3>3, <4>2, <4>3 DEF TakesReplay
    <3> QED BY <2>1, <3>2, <3>3 DEF Takes1
  <2> QED BY <1>3, <2>1 DEF HostDoes, Accepts, Rejects, ResumeFails, Says, Waits, wires
<1>4. CASE ~ \E x \in Notes : SaysNote(x)
  <2>1. CASE to_client' = to_client
    BY <1>1, <1>4, <2>1
  <2>2. ASSUME NEW x \in Answers, to_client' = Append(to_client, x)
        PROVE  /\ to_client' \in Seq(Frames)
               /\ Marks(to_client)' = Marks(to_client) /\ EventMarks(to_client)' = EventMarks(to_client)
               /\ Rising(to_client) => Rising(to_client)'
    <3>1. x \in Frames /\ x \notin Notes /\ x.kind # "event"
      BY NoteKinds
    <3> QED BY <1>1, <2>2, <3>1, AppendMarks
  <2> QED BY <1>3, <1>4, <2>1, <2>2
<1> QED BY <1>2, <1>4

\* A step of the Host that announces no event is quiet.
LEMMA QuietUnlessNote ==
  ASSUME FInv, HostDoes, ~ \E x \in Notes : SaysNote(x)
  PROVE  Quiet
<1>0. /\ Inv /\ Typed /\ (paused => last_sent_sequence <= paused_sequence) /\ acks \subseteq 1 .. seen
      /\ last_sent_sequence \in Nat
  BY PipelineTyped DEF FInv, Ordered, Consumed
<1>1. ASSUME NEW a \in acks, Accepts(a) PROVE Quiet
  BY <1>0, <1>1, AcceptQuiet DEF Accepts
<1>2. CASE ResumeFails
  BY <1>0, <1>2 DEF ResumeFails, window, Quiet, Top
<1>3. CASE UNCHANGED <<window, pausing>>
  BY <1>0, <1>3, StaysQuiet DEF window, pausing
<1> QED BY <1>1, <1>2, <1>3 DEF HostDoes, Rejects, Says, Waits, Takes1

\* A step of the Host keeps types, phases and what is consumed.
LEMMA HostTyped ==
  ASSUME FInv, HostSide
  PROVE  Inv' /\ Typed' /\ Phases' /\ Consumed'
<1>1. HostDoes /\ UNCHANGED client /\ connected' = connected /\ [Next]_vars
  BY HostSays DEF FInv, Ordered
<1>2. Inv'
  BY <1>1, InvStep DEF FInv
<1>3. to_client' \in Seq(Frames)
  BY <1>1, WireAfterHost DEF FInv
<1>4. /\ to_host' \in Seq(Messages) /\ pages' \subseteq HostPages /\ acks' \subseteq 1 .. seen
      /\ \A i \in DOMAIN to_host' : to_host'[i].kind = "ack" => to_host'[i].seq <= seen
  <2>0. to_host \in Seq(Messages) /\ pages \subseteq HostPages /\ acks \subseteq 1 .. seen
        /\ \A i \in DOMAIN to_host : to_host[i].kind = "ack" => to_host[i].seq <= seen
    BY DEF FInv, Typed, Consumed
  <2>1. CASE Takes1
    <3>1. /\ to_host' \in Seq(Messages) /\ Head(to_host) = to_host[1] /\ 1 \in DOMAIN to_host
          /\ \A i \in DOMAIN to_host' : i + 1 \in DOMAIN to_host /\ to_host'[i] = to_host[i + 1]
      <4>1. /\ to_host' \in Seq(Messages) /\ Head(to_host) = to_host[1] /\ Len(to_host') = Len(to_host) - 1
            /\ Len(to_host) \in Nat /\ Len(to_host) > 0
            /\ \A i \in 1 .. Len(to_host') : to_host'[i] = to_host[i + 1]
        BY <2>0, <2>1, HeadTailProperties, EmptySeq, LenProperties DEF Takes1
      <4>2. DOMAIN to_host = 1 .. Len(to_host) /\ DOMAIN to_host' = 1 .. Len(to_host')
        BY <2>0, <4>1, LenProperties
      <4> QED BY <4>1, <4>2
    <3>2. Head(to_host) \in Messages
      BY <2>0, <3>1
    <3>3. CASE TakesAck(Head(to_host))
      <4>1. Head(to_host).seq \in 1 .. seen
        BY <2>0, <3>1, <3>2, <3>3, PipelineTyped DEF TakesAck, Messages, FInv
      <4> QED BY <2>0, <3>1, <3>3, <4>1 DEF TakesAck
    <3>4. CASE TakesReplay(Head(to_host))
      BY <2>0, <3>1, <3>4 DEF TakesReplay
    <3> QED BY <2>1, <3>3, <3>4 DEF Takes1
  <2> QED BY <1>1, <2>0, <2>1 DEF HostDoes, SaysNote, Accepts, Rejects, ResumeFails, Says, Waits, wires, tasks
<1>5. Typed'
  <2>1. TypeOK' /\ FeedTypeOK'
    BY <1>1, <1>2, ClientStays DEF Inv, FInv, Typed, FeedTypeOK
  <2> QED BY <1>1, <1>3, <1>4, <2>1, ClientStays DEF FInv, Typed
<1>6. Phases' /\ Consumed'
  <2>1. Phases'
    BY <1>1, ClientStays DEF FInv, Phases, Java, OneGap
  <2> QED BY <1>1, <1>4, <2>1, ClientStays DEF FInv, Consumed
<1> QED BY <1>2, <1>5, <1>6

\* A step of the Host keeps the invariant.
LEMMA HostKeeps ==
  ASSUME FInv, HostSide
  PROVE  FInv'
<1>1. /\ HostDoes /\ UNCHANGED client /\ Inv' /\ Typed' /\ Phases' /\ Consumed' /\ Typed
      /\ Unsendable \subseteq Unsendable'
  BY HostSays, HostTyped, RefusedStay DEF FInv, Inv, Ordered
<1>2. /\ UNCHANGED <<HandMarks, Marks(queue), Rising(queue), HeldMarks, HeldRising, HeldEvents, Fore, ForeEvents,
                     seen, queue_state, last_sequence, ack_cursor, sdk>>
  BY <1>1, ClientStays DEF HandMarks, HandEvents, Marks, EventMarks, Places, Rising, HeldMarks, HeldRising, HeldEvents,
     Fore, ForeEvents
<1>3. CASE \E x \in Notes : SaysNote(x)
  <2> PICK x \in Notes :
        /\ SaysNote(x) /\ Marks(to_client)' = Marks(to_client) \union {Mark(x)} /\ EventMarks(to_client)' =
             EventMarks(to_client) \union (IF x.kind = "event" THEN {Mark(x)} ELSE {})
        /\ Rising(to_client) /\ Below(Marks(to_client), {Mark(x)}) => Rising(to_client)'
    BY <1>1, <1>3, WireAfterHost
  <2>1. /\ x.kind \in {"event", "gap"} /\ ~ paused /\ last_sent_sequence < Mark(x) /\ Top = last_sent_sequence
        /\ Joined(last_sent_sequence, Mark(x)) /\ Mark(x) \in Nat
        /\ Top' = Mark(x) /\ Top \in Nat /\ last_sent_sequence \in Nat
        /\ paused' => last_sent_sequence' <= paused_sequence'
        /\ ~ paused' => last_sent_sequence' = Mark(x) /\ x.kind = "event"
    <3>1. /\ x.kind \in {"event", "gap"} /\ ~ paused /\ last_sent_sequence < Mark(x)
          /\ Joined(last_sent_sequence, Mark(x)) /\ Mark(x) \in Nat /\ last_sent_sequence \in Nat /\ Top \in Nat
      BY <1>1, NoteKinds, PipelineTyped DEF SaysNote, Announces
    <3>2. CASE x.kind = "event"
      BY <3>1, <3>2 DEF SaysNote, Announces, pausing, Top
    <3>3. CASE x.kind = "gap"
      BY <3>1, <3>3 DEF SaysNote, Announces, window, Top
    <3> QED BY <3>1, <3>2, <3>3
  <2>2. /\ Fore \subseteq 1 .. Terminal /\ Rear \subseteq 1 .. Terminal /\ last_sequence \in 0 .. Terminal
        /\ ack_cursor \in 0 .. Terminal /\ seen \in 0 .. Terminal /\ Terminal \in Nat
    BY <1>1, PipelineTyped
  <2>3. /\ Rear' = Rear \union {Mark(x)}
        /\ RearEvents' = RearEvents \union (IF x.kind = "event" THEN {Mark(x)} ELSE {})
    BY <1>2 DEF Rear, RearEvents
  <2>4. Ordered'
    <3>1. \A m \in Fore \union Rear : m <= Top
      BY DEF FInv, Ordered, RearOrdered, ForeOrdered
    <3>2. Below(Fore \union Rear, {Mark(x)})
      BY <2>1, <2>2, <3>1 DEF Below
    <3>3. Below(Fore', Rear')
      BY <1>2, <2>3, <3>2 DEF FInv, Ordered, Below
    <3>4. RearOrdered'
      <4>1. Rising(to_client)' /\ HeldRising'
        BY <1>2, <3>2 DEF FInv, Ordered, RearOrdered, Rear, Below
      <4>2. Below(HeldMarks, Marks(to_client))'
        BY <1>2, <3>2 DEF FInv, Ordered, RearOrdered, Rear, Below
      <4>3. \A m \in Rear' : m <= Top'
        BY <2>1, <2>2, <2>3, <3>1
      <4> QED BY <4>1, <4>2, <4>3 DEF RearOrdered
    <3>5. ForeOrdered'
      BY <1>2, <2>1, <2>2, <3>1 DEF FInv, Ordered, ForeOrdered
    <3> QED BY <2>1, <3>3, <3>4, <3>5 DEF Ordered
  <2>5. Latest'
    <3>1. \/ last_sequence <= ack_cursor
          \/ /\ last_sequence <= Top /\ Below({last_sequence}, Marks(to_client))
             /\ Java => Below({last_sequence}, HeldMarks)
      BY DEF FInv, Latest
    <3> QED BY <1>2, <2>1, <2>2, <3>1 DEF Latest, Java, Below
  <2>6. Chained'
    <3>1. \A s \in ForeEvents' : Joined(seen', s) \/ JoinedIn(Fore', s)
      BY <1>2 DEF FInv, Chained, Linked
    <3>2. ASSUME queue_state' = "open", NEW s \in RearEvents'
          PROVE  Joined(seen', s) \/ JoinedIn(Fore' \union Rear', s)
      <4>1. CASE s \in RearEvents
        BY <1>2, <2>3, <3>2, <4>1 DEF FInv, Chained, Linked, JoinedIn
      <4>2. CASE s = Mark(x)
        <5>1. last_sent_sequence <= seen \/ last_sent_sequence \in Fore' \union Rear'
          BY <1>2, <2>1, <2>3, <3>2 DEF FInv, Chained
        <5> QED BY <1>2, <2>1, <2>2, <4>2, <5>1, JoinedFacts DEF JoinedIn
      <4> QED BY <2>3, <4>1, <4>2
    <3>3. ~ paused' => last_sent_sequence' <= seen' \/ last_sent_sequence' \in Fore' \union Rear'
      BY <2>1, <2>3
    <3> QED BY <1>1, <3>1, <3>2, <3>3, ChainedAfter
  <2> QED BY <1>1, <2>4, <2>5, <2>6 DEF FInv
<1>4. CASE ~ \E x \in Notes : SaysNote(x)
  <2>1. /\ Marks(to_client)' = Marks(to_client) /\ EventMarks(to_client)' = EventMarks(to_client)
        /\ Rising(to_client) => Rising(to_client)'
    BY <1>1, <1>4, WireAfterHost
  <2>2. Rear' = Rear /\ RearEvents' = RearEvents
    BY <1>2, <2>1 DEF Rear, RearEvents
  <2>3. Quiet
    BY <1>1, <1>4, QuietUnlessNote
  <2>4. Top \in Nat /\ Top' \in Nat /\ Fore \subseteq Nat /\ Rear \subseteq Nat /\ last_sequence \in Nat
    <3>1. Top' \in Nat
      BY <1>1 DEF Inv, TypeOK, Top
    <3>2. Typed
      BY <1>1
    <3>3. Top \in Nat /\ Fore \subseteq 1 .. Terminal /\ Rear \subseteq 1 .. Terminal /\ last_sequence \in 0 .. Terminal
      BY <3>2, PipelineTyped
    <3>4. Terminal \in Nat
      BY Constants
    <3> QED BY <3>1, <3>3, <3>4
  <2>5. Ordered'
    <3>1. RearOrdered' /\ ForeOrdered'
      BY <1>2, <2>1, <2>2, <2>3, <2>4 DEF FInv, Ordered, RearOrdered, ForeOrdered, Quiet
    <3> QED BY <1>2, <2>2, <2>3, <3>1 DEF FInv, Ordered, Quiet
  <2>6. Latest'
    BY <1>2, <2>1, <2>3, <2>4 DEF FInv, Latest, Java, Quiet
  <2>7. Chained'
    BY <1>1, <1>2, <2>2, <2>3, ChainedAfter DEF FInv, Chained, Linked, Quiet
  <2> QED BY <1>1, <2>5, <2>6, <2>7 DEF FInv
<1> QED BY <1>3, <1>4
--------
(* What a step of the client does to the pipeline. *)

\* What the client's own steps leave alone of the Host.
LEMMA HostStays ==
  ASSUME FInv, UNCHANGED vars
  PROVE  /\ Inv' /\ Top' = Top /\ Unsendable' = Unsendable
         /\ UNCHANGED <<paused, paused_sequence, last_sent_sequence, ackable_sequence, unacked, acks, pages,
                        registered, connected>>
<1>1. Inv'
  BY InvStep DEF FInv
<1>2. UNCHANGED <<paused, paused_sequence, last_sent_sequence, ackable_sequence, unacked, acks, pages,
                  registered, connected>>
  BY DEF vars, window, pausing, tasks, env
<1>3. Unsendable' = Unsendable
  BY DEF vars, Unsendable
<1> QED BY <1>1, <1>2, <1>3 DEF Top

\* Queue and hand that do not move keep their marks.
LEMMA ForeStays ==
  ASSUME UNCHANGED <<hand, queue>>
  PROVE  UNCHANGED <<HandMarks, HandEvents, Marks(queue), EventMarks(queue), Rising(queue), OneGap(queue), Fore, ForeEvents>>
BY DEF HandMarks, HandEvents, Marks, EventMarks, Rising, OneGap, Places, Fore, ForeEvents

\* So does the lane.
LEMMA HeldStays ==
  ASSUME UNCHANGED held
  PROVE  UNCHANGED <<HeldMarks, HeldEvents, HeldRising>>
BY DEF HeldMarks, HeldEvents, HeldRising

\* And the wire.
LEMMA WireStays ==
  ASSUME UNCHANGED to_client
  PROVE  UNCHANGED <<Marks(to_client), EventMarks(to_client), Rising(to_client)>>
BY DEF Marks, EventMarks, Rising, Places

\* Thinning out the pipeline keeps its order and leaves no hole.
LEMMA ThinningKeeps ==
  ASSUME FInv, UNCHANGED vars, Thins
  PROVE  Ordered' /\ Chained'
<1>1. /\ Fore \subseteq Nat /\ Rear \subseteq Nat /\ seen \in Nat /\ last_sent_sequence \in Nat
      /\ ForeEvents \subseteq Fore /\ RearEvents \subseteq Rear
  BY PipelineTyped DEF FInv
<1>2. Ordered'
  BY HostStays DEF FInv, Ordered, Below, Thins
<1>3. ASSUME NEW s \in ForeEvents' PROVE Joined(seen', s) \/ JoinedIn(Fore', s)
  <2>1. s \in ForeEvents /\ s \in Nat /\ seen' \in Nat /\ seen' >= seen
    BY <1>1, <1>3 DEF Thins
  <2>2. Joined(seen, s) \/ JoinedIn(Fore, s)
    BY <2>1 DEF FInv, Chained, Linked
  <2>3. \A m \in Fore : m \in Fore' \/ m <= seen'
    BY DEF Thins
  <2> QED BY <1>1, <2>1, <2>2, <2>3, JoinedFacts DEF JoinedIn
<1>4. ASSUME queue_state' = "open", NEW s \in RearEvents'
      PROVE  Joined(seen', s) \/ JoinedIn(Fore' \union Rear', s)
  <2>1. s \in RearEvents /\ s \in Nat /\ seen' \in Nat /\ seen' >= seen /\ queue_state = "open"
    BY <1>1, <1>4 DEF Thins
  <2>2. Joined(seen, s) \/ JoinedIn(Fore \union Rear, s)
    BY <2>1 DEF FInv, Chained, Linked
  <2>3. \A m \in Fore \union Rear : m \in Fore' \union Rear' \/ m <= seen'
    BY <1>4 DEF Thins
  <2> QED BY <1>1, <2>1, <2>2, <2>3, JoinedFacts DEF JoinedIn
<1>5. queue_state' = "open" /\ ~ paused' =>
        last_sent_sequence' <= seen' \/ last_sent_sequence' \in Fore' \union Rear'
  BY <1>1, HostStays DEF FInv, Chained, Thins
<1> QED BY <1>2, <1>3, <1>4, <1>5, HostStays, ChainedAfter

\* So does an item that moves from the lane to the queue.
LEMMA ArrivalKeeps ==
  ASSUME FInv, UNCHANGED <<vars, seen>>, NEW m, NEW e \in BOOLEAN, Departs(m, e), Arrives(m, e)
  PROVE  Ordered' /\ Chained'
<1>1. /\ Fore \subseteq Nat /\ Rear \subseteq Nat /\ seen \in Nat /\ last_sent_sequence \in Nat /\ m \in Nat
      /\ ForeEvents \subseteq Fore /\ RearEvents \subseteq Rear /\ m \in Rear
  BY PipelineTyped DEF FInv, Departs
<1>2. Ordered'
  <2>1. Below(Fore', Rear')
    BY DEF FInv, Ordered, Below, Departs, Arrives
  <2> QED BY <2>1, HostStays DEF FInv, Ordered, Departs, Arrives
<1>3. ASSUME NEW s \in ForeEvents' PROVE Joined(seen', s) \/ JoinedIn(Fore', s)
  <2>0. s \in Nat /\ \A d \in Fore : d \in Fore' \/ d <= seen \/ s <= d
    BY <1>1, <1>3 DEF Arrives
  <2>1. CASE s \in ForeEvents
    <3>1. Joined(seen, s) \/ JoinedIn(Fore, s)
      BY <2>1 DEF FInv, Chained, Linked
    <3> QED BY <1>1, <2>0, <3>1, JoinedFacts DEF JoinedIn
  <2>2. CASE s \notin ForeEvents
    <3>1. queue_state = "open" /\ e /\ s = m
      BY <1>3, <2>2 DEF Arrives
    <3>2. Joined(seen, s) \/ JoinedIn(Fore \union Rear, s)
      BY <3>1 DEF FInv, Chained, Linked, Departs
    <3>3. \A d \in Fore \union Rear : d \in Fore' \/ d <= seen \/ s <= d
      BY <1>1, <2>0, <3>1 DEF Departs, Below
    <3> QED BY <1>1, <2>0, <3>2, <3>3, JoinedFacts DEF JoinedIn
  <2> QED BY <2>1, <2>2
<1>4. ASSUME queue_state' = "open", NEW s \in RearEvents'
      PROVE  Joined(seen', s) \/ JoinedIn(Fore' \union Rear', s)
  <2>1. s \in RearEvents /\ s \in Rear' /\ queue_state = "open" /\ s \in Nat
    BY <1>1, <1>4 DEF Departs, Arrives
  <2>2. Joined(seen, s) \/ JoinedIn(Fore \union Rear, s)
    BY <2>1 DEF FInv, Chained, Linked
  <2>3. m \in Fore' \/ m <= seen
    BY <1>4 DEF Arrives
  <2>4. m < s /\ \A d \in Fore : d <= m
    BY <1>1, <2>1 DEF Departs, Below
  <2>5. \A d \in Rear : d \in Rear' \/ d = m
    BY DEF Departs
  <2>6. ASSUME NEW d \in Fore \union Rear
        PROVE  d <= seen \/ s <= d \/ \E n \in Fore' \union Rear' : n \in Nat /\ d <= n /\ n < s
    BY <1>1, <2>1, <2>3, <2>4, <2>5
  <2> QED BY <1>1, <2>1, <2>2, <2>6, JoinedFacts DEF JoinedIn
<1>5. queue_state' = "open" /\ ~ paused' =>
        last_sent_sequence' <= seen' \/ last_sent_sequence' \in Fore' \union Rear'
  <2> SUFFICES ASSUME queue_state' = "open", ~ paused'
               PROVE  last_sent_sequence <= seen \/ last_sent_sequence \in Fore' \union Rear'
    BY HostStays
  <2>1. /\ queue_state = "open" /\ ~ paused /\ m <= last_sent_sequence
        /\ m \in Fore' \/ m <= seen
    BY HostStays DEF Arrives, Departs, Top
  <2>2. last_sent_sequence <= seen \/ last_sent_sequence \in Fore \union Rear
    BY <2>1 DEF FInv, Chained
  <2>3. last_sent_sequence \notin Fore
    BY <1>1, <2>1 DEF Departs, Below
  <2> QED BY <1>1, <2>1, <2>2, <2>3 DEF Departs
<1> QED BY <1>2, <1>3, <1>4, <1>5, HostStays, ChainedAfter
--------
(* The lane. *)

\* The head of the wire leaves it, with the lowest mark there.
LEMMA WireHeadLeaves ==
  ASSUME FInv, UNCHANGED vars, to_client # <<>>, to_client' = Tail(to_client), held' = held
  PROVE  LET x == Head(to_client)
         IN  /\ x \in Frames /\ to_client' \in Seq(Frames)
             /\ RearOrdered' /\ Rear' \subseteq Rear /\ RearEvents' \subseteq RearEvents
             /\ Marks(to_client)' \subseteq Marks(to_client)
             /\ x \notin Notes => UNCHANGED <<Rear, RearEvents>>
             /\ x \in Notes => /\ Rear = Rear' \union {Mark(x)} /\ Mark(x) \in Marks(to_client)
                               /\ Below({Mark(x)}, Marks(to_client)')
                               /\ held = <<>> => Departs(Mark(x), x.kind = "event")
<1> DEFINE x == Head(to_client)
           m == Mark(x)
<1>1. Typed /\ Ordered /\ Rising(to_client) /\ to_client \in Seq(Frames) /\ Top' = Top
  BY PipelineTyped, HostStays DEF FInv, Ordered, RearOrdered
<1>2. /\ Rising(to_client') /\ to_client' \in Seq(Frames) /\ x \in Frames
      /\ Marks(to_client) = Marks(to_client') \union (IF x \in Notes THEN {m} ELSE {})
      /\ x \in Notes => Below({m}, Marks(to_client'))
      /\ EventMarks(to_client) = EventMarks(to_client') \union (IF x.kind = "event" THEN {x.seq} ELSE {})
  BY <1>1, TailMarks
<1>3. UNCHANGED <<HeldMarks, HeldEvents, HeldRising>>
  BY HeldStays
<1>9. RearEvents' \subseteq Rear'
  BY <1>2, MarksTyped DEF RearEvents, Rear, HeldEvents, HeldMarks
<1>4. x \notin Notes => x.kind # "event"
  BY <1>2, NoteKinds DEF Notification
<1>5. x \in Notes => m \in 1 .. Terminal /\ (x.kind = "event" => x.seq = m)
  BY NoteKinds
<1> HIDE DEF x, m
<1>6. /\ Rear' \subseteq Rear /\ RearEvents' \subseteq RearEvents
      /\ x \notin Notes => Rear' = Rear /\ RearEvents' = RearEvents
      /\ x \in Notes => Rear = Rear' \union {m}
  BY <1>2, <1>3, <1>4 DEF Rear, RearEvents
<1>7. RearOrdered'
  <2>1. \A r \in Rear' : r <= Top'
    BY <1>1, <1>6 DEF Ordered, RearOrdered
  <2>2. Below(HeldMarks, Marks(to_client))'
    BY <1>1, <1>2, <1>3 DEF Ordered, RearOrdered, Below
  <2> QED BY <1>1, <1>2, <1>3, <2>1, <2>2 DEF Ordered, RearOrdered
<1>8. ASSUME x \in Notes, held = <<>> PROVE Departs(m, x.kind = "event")
  <2>1. HeldMarks = {} /\ HeldEvents = {}
    BY <1>8 DEF HeldMarks, HeldEvents
  <2>2. Rear' = Marks(to_client') /\ m \in Rear /\ (x.kind = "event" => m \in RearEvents)
    BY <1>2, <1>3, <1>5, <1>8, <2>1 DEF Rear, RearEvents
  <2> QED BY <1>1, <1>2, <1>5, <1>6, <1>7, <1>8, <1>9, <2>2 DEF Departs, Ordered, RearOrdered, Below
<1> QED BY <1>2, <1>6, <1>7, <1>8 DEF x, m

\* The head of the lane leaves it, with the lowest mark of lane and wire.
LEMMA HeldHeadLeaves ==
  ASSUME FInv, UNCHANGED <<vars, to_client>>, held # <<>>, held' = Tail(held)
  PROVE  LET x == Head(held).item
         IN  /\ x \in Notes /\ Head(held).seq = Mark(x) /\ Head(held) \in Entries
             /\ held' \in Seq(Entries) /\ \A i \in DOMAIN held' : held'[i].seq = Mark(held'[i].item)
             /\ HeldMarks = HeldMarks' \union {Mark(x)} /\ Below({Mark(x)}, HeldMarks')
             /\ Departs(Mark(x), x.kind = "event")
<1> DEFINE x == Head(held).item
           m == Mark(x)
<1>1. Typed /\ Ordered /\ HeldRising /\ Top' = Top
  BY HostStays DEF FInv, Ordered, RearOrdered
<1>2. /\ held' \in Seq(Entries) /\ \A i \in DOMAIN held' : held'[i].seq = Mark(held'[i].item)
      /\ Head(held) \in Entries /\ x \in Notes /\ Head(held).seq = m /\ HeldRising'
      /\ HeldMarks = HeldMarks' \union {m} /\ Below({m}, HeldMarks')
      /\ HeldEvents = HeldEvents' \union (IF x.kind = "event" THEN {m} ELSE {})
  BY <1>1, HeldTail
<1>3. UNCHANGED <<Marks(to_client), EventMarks(to_client), Rising(to_client)>>
  BY WireStays
<1>4. m \in 1 .. Terminal
  BY <1>2, NoteKinds
<1> HIDE DEF x, m
<1>5. /\ Rear = Rear' \union {m} /\ RearEvents' \subseteq RearEvents
      /\ x.kind = "event" => m \in RearEvents
  BY <1>2, <1>3 DEF Rear, RearEvents
<1>8. RearEvents' \subseteq Rear'
  BY <1>1, <1>3, PipelineTyped DEF RearEvents, Rear, HeldEvents, HeldMarks
<1>6. RearOrdered' /\ m \in HeldMarks
  <2>1. \A r \in Rear' : r <= Top'
    BY <1>1, <1>5 DEF Ordered, RearOrdered
  <2> QED BY <1>1, <1>2, <1>3, <2>1 DEF Ordered, RearOrdered, Below
<1>7. Departs(m, x.kind = "event")
  BY <1>1, <1>2, <1>3, <1>4, <1>5, <1>6, <1>8 DEF Departs, Ordered, RearOrdered, Below, Rear
<1> QED BY <1>2, <1>7 DEF x, m
--------
(* What enters the queue. *)

LEMMA GapMarksAppend ==
  ASSUME NEW s \in Seq(Frames), NEW x \in Frames
  PROVE  GapMarks(Append(s, x)) = GapMarks(s) \union (IF x.kind = "gap" THEN {x.watermark} ELSE {})
<1> DEFINE t == Append(s, x)
<1>1. /\ DOMAIN t = DOMAIN s \union {Len(s) + 1} /\ Len(s) + 1 \notin DOMAIN s
      /\ t[Len(s) + 1] = x /\ \A i \in DOMAIN s : t[i] = s[i]
  OBVIOUS
<1> HIDE DEF t
<1>2. GapMarks(t) = GapMarks(s) \union (IF x.kind = "gap" THEN {x.watermark} ELSE {})
  BY <1>1 DEF GapMarks
<1> QED BY <1>2 DEF t

\* The gap that is not taken yet, and all that came after it, give way.
LEMMA MergedMarks ==
  ASSUME FInv, NEW x \in Notes, x.kind = "gap", GapQueued
  PROVE  LET q == WithGap(x)
         IN  /\ q \in Seq(Notes) /\ OneGap(q)
             /\ Below(Fore, {Mark(x)}) => Rising(q)
             /\ Marks(q) \subseteq Marks(queue) \union {Mark(x)} /\ Mark(x) \in Marks(q)
             /\ EventMarks(q) \subseteq EventMarks(queue)
             /\ GapMarks(q) \subseteq GapMarks(queue) \union {Mark(x)}
             /\ \A d \in Marks(queue) \ Marks(q), s \in EventMarks(q) : s <= d
<1> DEFINE at == CHOOSE i \in DOMAIN queue : queue[i].kind = "gap"
           t  == SubSeq(queue, 1, at - 1)
           g  == [x EXCEPT !.from = queue[at].from]
<1>1. at \in DOMAIN queue /\ queue[at].kind = "gap"
  BY DEF GapQueued
<1>2. queue \in Seq(Notes) /\ queue \in Seq(Frames) /\ OneGap(queue) /\ Rising(queue) /\ Marks(queue) \subseteq Nat
  BY PipelineTyped DEF FInv, Typed, Phases, Ordered, ForeOrdered
<1>3. WithGap(x) = Append(t, g)
  BY DEF WithGap
<1> HIDE DEF at
<1>4. queue[at] \in Notes /\ at \in Nat /\ DOMAIN queue = 1 .. Len(queue) /\ Len(queue) \in Nat /\ at \in 1 .. Len(queue)
      /\ \A i \in 1 .. Len(queue) : queue[i] \in Notes
  BY <1>1, <1>2
<1>5. g \in Notes /\ g \in Frames /\ g.kind = "gap" /\ Mark(g) = Mark(x) /\ g.watermark = Mark(x)
  <2>1. x \in Notices /\ queue[at] \in Notices
    BY <1>1, <1>4 DEF Notes, Events
  <2>2. queue[at].from \in Nat
    BY <2>1 DEF Notices
  <2>3. g \in Notices /\ g.kind = "gap" /\ g.watermark = x.watermark
    BY <2>1, <2>2 DEF Notices
  <2> QED BY <2>3 DEF Notes, Frames, Mark
<1>6. /\ t \in Seq(Frames) /\ \A i \in DOMAIN t : i \in 1 .. at - 1 /\ t[i] = queue[i]
      /\ DOMAIN t = 1 .. at - 1 /\ Rising(t)
      /\ Marks(t) \subseteq Marks(queue) /\ EventMarks(t) \subseteq EventMarks(queue) /\ OneGap(t)
  BY <1>1, <1>2, PrefixMarks
<1>7. t \in Seq(Notes)
  BY <1>2, <1>4, SubSeqProperties
<1> HIDE DEF t, g
<1>8. \A i \in DOMAIN t : t[i].kind # "gap"
  <2> SUFFICES ASSUME NEW i \in DOMAIN t, t[i].kind = "gap" PROVE FALSE
    OBVIOUS
  <2>1. i \in 1 .. at - 1 /\ queue[i].kind = "gap" /\ i \in DOMAIN queue
    BY <1>4, <1>6
  <2>2. i = at
    BY <1>1, <1>2, <2>1 DEF OneGap
  <2> QED BY <1>4, <2>1, <2>2
<1>9. /\ Marks(Append(t, g)) = Marks(t) \union {Mark(x)} /\ EventMarks(Append(t, g)) = EventMarks(t)
      /\ Below(Marks(t), {Mark(x)}) => Rising(Append(t, g))
      /\ OneGap(Append(t, g))
  BY <1>5, <1>6, <1>8, AppendMarks
<1>10. ASSUME NEW d \in Marks(queue) \ Marks(t), NEW s \in EventMarks(t) PROVE s <= d
  <2>1. PICK j \in Places(queue) : d = Mark(queue[j])
    BY <1>10 DEF Marks
  <2>2. PICK i \in Places(t) : s = Mark(t[i])
    BY <1>6, <1>10, MarksTyped DEF Marks
  <2>3. i \in DOMAIN t /\ i \in 1 .. at - 1 /\ t[i] = queue[i] /\ i \in Places(queue)
    BY <1>4, <1>6, <2>2 DEF Places
  <2>4. ~ (j \in 1 .. at - 1)
    <3>1. j \in 1 .. at - 1 => j \in Places(t) /\ Mark(t[j]) = d
      BY <1>6, <2>1 DEF Places
    <3> QED BY <1>10, <3>1 DEF Marks
  <2>5. i < j
    BY <1>4, <2>1, <2>3, <2>4 DEF Places
  <2>6. s < d /\ s \in Nat /\ d \in Nat
    <3>1. s \in Marks(queue) /\ d \in Marks(queue)
      BY <1>10, <2>2, <2>3 DEF Marks
    <3> QED BY <1>2, <2>1, <2>2, <2>3, <2>5, <3>1 DEF Rising
  <2> QED BY <2>6
<1>11. Below(Fore, {Mark(x)}) => Below(Marks(t), {Mark(x)})
  BY <1>6 DEF Below, Fore
<1>12. Append(t, g) \in Seq(Notes)
  BY <1>5, <1>7
<1>13. GapMarks(Append(t, g)) \subseteq GapMarks(queue) \union {Mark(x)}
  <2>1. \A i \in DOMAIN t : i \in DOMAIN queue /\ t[i] = queue[i]
    BY <1>4, <1>6
  <2>2. GapMarks(t) \subseteq GapMarks(queue)
    BY <2>1 DEF GapMarks
  <2>3. GapMarks(Append(t, g)) = GapMarks(t) \union {Mark(x)}
    BY <1>5, <1>6, GapMarksAppend
  <2> QED BY <2>2, <2>3
<1> QED BY <1>3, <1>6, <1>9, <1>10, <1>11, <1>12, <1>13

\* An item that enters the queue arrives behind all that is there.
LEMMA EnteringArrives ==
  ASSUME FInv, UNCHANGED vars, queue_state = "open", NEW x \in Notes,
         Departs(Mark(x), x.kind = "event"), Enters(x)
  PROVE  /\ Arrives(Mark(x), x.kind = "event")
         /\ queue' \in Seq(Notes) /\ OneGap(queue') /\ hand' \in Notes \union {NoFrame}
<1> DEFINE m == Mark(x)
           e == IF x.kind = "event" THEN {m} ELSE {}
<1>1. /\ m \in 1 .. Terminal /\ (x.kind = "event" => x.seq = m) /\ x \in Frames /\ m \in Nat /\ x # NoFrame
      /\ x.kind \in {"event", "gap"}
  BY NoteKinds
<1>2. /\ queue \in Seq(Notes) /\ queue \in Seq(Frames) /\ OneGap(queue) /\ Rising(queue) /\ Top' = Top
      /\ Below(HandMarks, Marks(queue)) /\ hand \in Notes \union {NoFrame}
      /\ HandEvents \subseteq HandMarks /\ HandMarks \subseteq Nat /\ Marks(queue) \subseteq Nat
      /\ Below(Fore, {m}) /\ m <= Top /\ \A f \in Fore : f <= Top
  <2>1. Typed /\ Top' = Top
    BY HostStays DEF FInv
  <2>2. OneGap(queue) /\ Rising(queue) /\ Below(HandMarks, Marks(queue)) /\ \A f \in Fore : f <= Top
    BY DEF FInv, Phases, Ordered, ForeOrdered
  <2>3. Below(Fore, {m}) /\ m <= Top
    BY DEF Departs
  <2>4. /\ queue \in Seq(Frames) /\ HandEvents \subseteq HandMarks
        /\ HandMarks \subseteq Nat /\ Marks(queue) \subseteq Nat
    BY <2>1, PipelineTyped
  <2> QED BY <2>1, <2>2, <2>3, <2>4 DEF Typed
<1> HIDE DEF m, e
<1>3. ASSUME hand' = hand, queue' \in Seq(Notes), OneGap(queue'), Rising(queue'),
             Marks(queue') \subseteq Marks(queue) \union {m}, m \in Marks(queue'),
             EventMarks(queue') \subseteq EventMarks(queue) \union e,
             \A d \in Marks(queue) \ Marks(queue'), s \in EventMarks(queue') : s <= d
      PROVE  Arrives(m, x.kind = "event")
  <2>1. HandMarks' = HandMarks /\ HandEvents' = HandEvents
    BY <1>3 DEF HandMarks, HandEvents
  <2>2. Fore' \subseteq Fore \union {m} /\ m \in Fore'
    BY <1>3, <2>1 DEF Fore
  <2>3. ForeEvents' \subseteq ForeEvents \union e
    BY <1>3, <2>1 DEF ForeEvents
  <2>4. ForeOrdered'
    <3>1. Below(HandMarks', Marks(queue'))
      BY <1>2, <1>3, <2>1 DEF Below, Fore
    <3>2. \A f \in Fore' : f <= Top'
      BY <1>2, <2>2
    <3> QED BY <1>3, <3>1, <3>2 DEF ForeOrdered
  <2>5. ASSUME NEW d \in Fore \ Fore', NEW s \in ForeEvents' PROVE s <= d
    <3>1. d \in Marks(queue) \ Marks(queue')
      BY <2>1, <2>5 DEF Fore
    <3>2. s \in HandEvents => s < d /\ s \in Nat /\ d \in Nat
      BY <1>2, <3>1 DEF Below
    <3>3. s \in HandEvents \/ s \in EventMarks(queue')
      BY <2>1, <2>5 DEF ForeEvents
    <3> QED BY <1>3, <3>1, <3>2, <3>3
  <2> QED BY <2>2, <2>3, <2>4, <2>5 DEF Arrives, e
<1>4. CASE queue' = Append(queue, x) /\ hand' = hand /\ (x.kind = "gap" => ~ GapQueued)
  <2>1. /\ Marks(queue') = Marks(queue) \union {m} /\ EventMarks(queue') = EventMarks(queue) \union e
        /\ Below(Marks(queue), {m}) => Rising(queue')
        /\ OneGap(queue')
    BY <1>1, <1>2, <1>4, AppendMarks DEF m, e, GapQueued
  <2>2. Below(Marks(queue), {m}) /\ queue' \in Seq(Notes)
    BY <1>2, <1>4 DEF Below, Fore
  <2>3. Arrives(m, x.kind = "event")
    BY <1>3, <1>4, <2>1, <2>2
  <2> QED BY <1>2, <1>4, <2>1, <2>2, <2>3 DEF m
<1>5. CASE x.kind = "gap" /\ GapQueued /\ queue' = WithGap(x) /\ hand' = hand
  <2>1. /\ queue' \in Seq(Notes) /\ OneGap(queue') /\ Rising(queue')
        /\ Marks(queue') \subseteq Marks(queue) \union {m} /\ m \in Marks(queue')
        /\ EventMarks(queue') \subseteq EventMarks(queue)
        /\ \A d \in Marks(queue) \ Marks(queue'), s \in EventMarks(queue') : s <= d
    BY <1>2, <1>5, MergedMarks DEF m
  <2>2. Arrives(m, x.kind = "event")
    BY <1>3, <1>5, <2>1
  <2> QED BY <1>2, <1>5, <2>1, <2>2 DEF m
<1>6. CASE hand = NoFrame /\ queue = <<>> /\ hand' = x /\ queue' = queue
  <2>1. Marks(queue) = {} /\ EventMarks(queue) = {} /\ HandMarks = {} /\ HandEvents = {}
    BY <1>6, EmptyMarks DEF HandMarks, HandEvents, NoFrame
  <2>2. HandMarks' = {m} /\ HandEvents' = e /\ UNCHANGED <<Marks(queue), EventMarks(queue), Rising(queue)>>
    BY <1>1, <1>6 DEF HandMarks, HandEvents, m, e, Marks, EventMarks, Rising, Places
  <2>3. Fore = {} /\ Fore' = {m} /\ ForeEvents' = e
    BY <2>1, <2>2 DEF Fore, ForeEvents
  <2>4. ForeOrdered'
    BY <1>2, <2>1, <2>2, <2>3 DEF ForeOrdered, Below
  <2>5. Arrives(m, x.kind = "event")
    BY <2>3, <2>4 DEF Arrives, e
  <2> QED BY <1>2, <1>6, <2>5 DEF m
<1> QED BY <1>4, <1>5, <1>6 DEF Enters

\* A feed that fails drops its queue (Java).
LEMMA FailingArrives ==
  ASSUME FInv, UNCHANGED <<vars, hand>>, queue' = <<>>, queue_state' = "failed", NEW m, NEW e
  PROVE  Arrives(m, e) /\ queue' \in Seq(Notes) /\ OneGap(queue')
<1>1. HandMarks' = HandMarks /\ HandEvents' = HandEvents
  BY DEF HandMarks, HandEvents
<1>2. Marks(queue') = {} /\ EventMarks(queue') = {} /\ Rising(queue') /\ OneGap(queue') /\ queue' \in Seq(Notes)
  BY EmptyMarks
<1>3. Fore' = HandMarks /\ ForeEvents' = HandEvents /\ HandEvents \subseteq HandMarks /\ HandMarks \subseteq Fore
      /\ HandEvents \subseteq ForeEvents
  BY <1>1, <1>2, PipelineTyped DEF Fore, ForeEvents, FInv
<1>4. ForeOrdered'
  BY <1>1, <1>2, <1>3, HostStays DEF FInv, Ordered, ForeOrdered, Below
<1>5. \A d \in Fore \ Fore', s \in ForeEvents' : s <= d
  <2>1. Below(HandMarks, Marks(queue)) /\ HandMarks \subseteq Nat /\ Marks(queue) \subseteq Nat
    BY PipelineTyped DEF FInv, Ordered, ForeOrdered
  <2> QED BY <1>3, <2>1 DEF Below, Fore
<1> QED BY <1>2, <1>3, <1>4, <1>5 DEF Arrives

\* Nothing in the queue lies beyond a gap that arrives.
LEMMA MergesToTheEnd ==
  ASSUME FInv, NEW x \in Notes, x.kind = "gap", GapQueued, Below(Fore, {Mark(x)})
  PROVE  WithMergedGap(x) = WithGap(x)
<1> DEFINE at == CHOOSE i \in DOMAIN queue : queue[i].kind = "gap"
           t  == SubSeq(queue, 1, at - 1)
           g  == [x EXCEPT !.from = queue[at].from]
           later == {i \in at + 1 .. Len(queue) : queue[i].seq > x.watermark}
<1>1. at \in DOMAIN queue /\ queue[at].kind = "gap"
  BY DEF GapQueued
<1>2. queue \in Seq(Notes) /\ OneGap(queue) /\ Marks(queue) \subseteq Nat
  BY PipelineTyped DEF FInv, Typed, Phases
<1>3. WithGap(x) = Append(t, g) /\ WithMergedGap(x) = t \o <<g>> \o Selected(later)
  BY DEF WithGap, WithMergedGap
<1> HIDE DEF at
<1>4. DOMAIN queue = 1 .. Len(queue) /\ Len(queue) \in Nat /\ at \in 1 .. Len(queue)
      /\ \A i \in 1 .. Len(queue) : queue[i] \in Notes
  BY <1>1, <1>2
<1>5. later = {}
  <2> SUFFICES ASSUME NEW i \in at + 1 .. Len(queue), queue[i].seq > x.watermark PROVE FALSE
    OBVIOUS
  <2>1. i \in DOMAIN queue /\ i # at /\ queue[i] \in Notes
    BY <1>4
  <2>2. queue[i].kind = "event" /\ queue[i].seq = Mark(queue[i]) /\ Notification(queue[i])
    BY <1>1, <1>2, <2>1, NoteKinds DEF OneGap
  <2>3. queue[i].seq \in Marks(queue)
    BY <2>1, <2>2 DEF Marks, Places
  <2>4. queue[i].seq < x.watermark /\ queue[i].seq \in Nat /\ x.watermark \in Nat
    BY <1>2, <2>3, NoteKinds DEF Below, Fore, Mark
  <2> QED BY <2>4
<1>6. Selected(later) = <<>>
  <2>1. Cardinality({}) = 0
    BY FS_EmptySet
  <2> HIDE DEF later
  <2>2. Cardinality(later) = 0
    BY <1>5, <2>1
  <2> QED BY <2>2 DEF Selected
<1>7. t \in Seq(Notes)
  BY <1>4, <1>2, SubSeqProperties
<1> HIDE DEF t, g, later
<1> QED BY <1>3, <1>6, <1>7, AppendIsConcat, ConcatEmptySeq
--------
(* What an ACK leaves in the queue. *)

\* Selected enumerates the named places of the queue from the first to the last.
LEMMA SelectedPlaces ==
  ASSUME NEW n \in Nat, NEW places \in SUBSET (1 .. n)
  PROVE  LET Rank(i) == Cardinality({j \in places : j <= i})
             c == Cardinality(places)
         IN  /\ c \in Nat
             /\ \A i, k \in places : i < k => Rank(i) < Rank(k)
             /\ \A i \in places : Rank(i) \in 1 .. c
             /\ \A r \in 1 .. c : \E i \in places : Rank(i) = r
<1> DEFINE Upto(i) == {j \in places : j <= i}
           Rank(i) == Cardinality(Upto(i))
           c == Cardinality(places)
           f == [i \in places |-> Rank(i)]
<1>1. IsFiniteSet(places) /\ c \in Nat
  <2>1. IsFiniteSet(1 .. n)
    BY FS_Interval
  <2>2. IsFiniteSet(places)
    BY <2>1, FS_Subset
  <2> QED BY <2>2, FS_CardinalityType
<1>2. \A i \in places : IsFiniteSet(Upto(i)) /\ Rank(i) \in Nat /\ Rank(i) <= c /\ Rank(i) # 0
  <2> SUFFICES ASSUME NEW i \in places
               PROVE  IsFiniteSet(Upto(i)) /\ Rank(i) \in Nat /\ Rank(i) <= c /\ Rank(i) # 0
    OBVIOUS
  <2>1. Upto(i) \in SUBSET places /\ i \in Upto(i)
    OBVIOUS
  <2> HIDE DEF Upto
  <2>2. IsFiniteSet(Upto(i)) /\ Cardinality(Upto(i)) <= c
    BY <1>1, <2>1, FS_Subset
  <2> QED BY <2>1, <2>2, FS_CardinalityType, FS_EmptySet
<1>3. \A i, k \in places : i < k => Rank(i) < Rank(k)
  <2> SUFFICES ASSUME NEW i \in places, NEW k \in places, i < k PROVE Rank(i) < Rank(k)
    OBVIOUS
  <2>1. i \in Nat /\ k \in Nat /\ places \subseteq Nat
    OBVIOUS
  <2>2. Upto(i) \in SUBSET Upto(k) /\ k \in Upto(k) /\ k \notin Upto(i)
    <3>1. \A j \in places : j <= i => j <= k
      BY <2>1
    <3>2. k <= k /\ ~ (k <= i)
      BY <2>1
    <3> QED BY <3>1, <3>2
  <2> HIDE DEF Upto
  <2>3. Cardinality(Upto(i)) <= Cardinality(Upto(k)) /\ Cardinality(Upto(k)) # Cardinality(Upto(i))
    BY <1>2, <2>2, FS_Subset
  <2> QED BY <1>2, <2>3
<1> HIDE DEF Upto, Rank, c
<1>4. f \in Injection(places, 1 .. c)
  <2>1. f \in [places -> 1 .. c]
    BY <1>1, <1>2
  <2>2. ASSUME NEW a \in places, NEW b \in places, f[a] = f[b] PROVE a = b
    <3>1. a \in Nat /\ b \in Nat /\ Rank(a) = Rank(b) /\ Rank(a) \in Nat
      BY <1>2, <2>2
    <3>2. ~ (a < b) /\ ~ (b < a)
      BY <1>3, <3>1
    <3> QED BY <3>1, <3>2
  <2> QED BY <2>1, <2>2 DEF Injection, IsInjective
<1>5. IsFiniteSet(1 .. c) /\ Cardinality(1 .. c) = c
  BY <1>1, FS_Interval
<1>6. f \in Surjection(places, 1 .. c)
  BY <1>4, <1>5, FS_Injection DEF c
<1>7. \A r \in 1 .. c : \E i \in places : Rank(i) = r
  BY <1>6 DEF Surjection
<1> QED BY <1>1, <1>2, <1>3, <1>7 DEF Upto, Rank, c

\* What is selected is in the queue's order, and it is all that was named.
LEMMA SelectedPicks ==
  ASSUME queue \in Seq(Notes), NEW places \in SUBSET DOMAIN queue
  PROVE  LET t == Selected(places)
         IN  /\ t \in Seq(Notes)
             /\ \E f \in [DOMAIN t -> places] :
                  /\ \A i, j \in DOMAIN t : i < j => f[i] < f[j]
                  /\ \A i \in DOMAIN t : t[i] = queue[f[i]]
                  /\ \A p \in places : \E i \in DOMAIN t : f[i] = p
<1> DEFINE Rank(i) == Cardinality({j \in places : j <= i})
           c == Cardinality(places)
           Nth(n) == CHOOSE i \in places : Rank(i) = n
           f == [n \in 1 .. c |-> Nth(n)]
           t == [n \in 1 .. c |-> queue[Nth(n)]]
<1>1. /\ DOMAIN queue = 1 .. Len(queue) /\ Len(queue) \in Nat
      /\ \A i \in DOMAIN queue : queue[i] \in Notes
  OBVIOUS
<1>2. /\ c \in Nat
      /\ \A i, k \in places : i < k => Rank(i) < Rank(k)
      /\ \A i \in places : Rank(i) \in 1 .. c
      /\ \A r \in 1 .. c : \E i \in places : Rank(i) = r
  BY <1>1, SelectedPlaces
<1>3. Selected(places) = t
  BY DEF Selected
<1> HIDE DEF Rank, c
<1>4. \A n \in 1 .. c : Nth(n) \in places /\ Rank(Nth(n)) = n
  BY <1>2
<1>5. f \in [1 .. c -> places]
  BY <1>4
<1>6. t \in Seq(Notes) /\ DOMAIN t = 1 .. c
  <2>1. \A n \in 1 .. c : queue[Nth(n)] \in Notes
    BY <1>1, <1>4
  <2> HIDE DEF Nth
  <2> QED BY <1>2, <2>1
<1>7. \A n \in 1 .. c : f[n] = Nth(n) /\ t[n] = queue[f[n]]
  OBVIOUS
<1>8. ASSUME NEW i \in 1 .. c, NEW j \in 1 .. c, i < j PROVE Nth(i) < Nth(j)
  <2>1. Nth(i) \in Nat /\ Nth(j) \in Nat /\ Rank(Nth(i)) = i /\ Rank(Nth(j)) = j /\ Nth(i) \in places /\ Nth(j) \in places
    BY <1>1, <1>4
  <2> HIDE DEF Nth
  <2>2. Nth(i) # Nth(j)
    BY <1>8, <2>1
  <2>3. ~ (Nth(j) < Nth(i))
    BY <1>2, <1>8, <2>1
  <2> QED BY <2>1, <2>2, <2>3
<1>9. \A p \in places : \E i \in 1 .. c : Nth(i) = p
  <2> SUFFICES ASSUME NEW p \in places PROVE Nth(Rank(p)) = p /\ Rank(p) \in 1 .. c
    OBVIOUS
  <2>1. Rank(p) \in 1 .. c
    BY <1>2
  <2>2. Nth(Rank(p)) \in places /\ Rank(Nth(Rank(p))) = Rank(p)
    BY <1>4, <2>1
  <2> DEFINE q == Nth(Rank(p))
  <2>3. q \in places /\ Rank(q) = Rank(p) /\ q \in Nat /\ p \in Nat /\ Rank(p) \in Nat
    BY <1>1, <2>1, <2>2
  <2> HIDE DEF q
  <2>4. ~ (q < p) /\ ~ (p < q)
    BY <1>2, <2>3
  <2>5. q = p
    BY <2>3, <2>4
  <2> QED BY <2>1, <2>5 DEF q
<1> HIDE DEF Nth
<1>10. /\ \A i, j \in 1 .. c : i < j => f[i] < f[j]
       /\ \A i \in 1 .. c : t[i] = queue[f[i]]
       /\ \A p \in places : \E i \in 1 .. c : f[i] = p
  BY <1>7, <1>8, <1>9
<1> HIDE DEF f, t
<1>11. \E g \in [DOMAIN t -> places] :
         /\ \A i, j \in DOMAIN t : i < j => g[i] < g[j]
         /\ \A i \in DOMAIN t : t[i] = queue[g[i]]
         /\ \A p \in places : \E i \in DOMAIN t : g[i] = p
  <2>1. f \in [DOMAIN t -> places]
    BY <1>5, <1>6
  <2> WITNESS f \in [DOMAIN t -> places]
  <2> QED BY <1>6, <1>10
<1> QED BY <1>3, <1>6, <1>11

\* A selection that names all that lies beyond a cursor discards what it covers.
LEMMA PickedDiscards ==
  ASSUME FInv, NEW cursor \in Nat, queue' \in Seq(Notes), NEW f, Picks(queue', queue, f),
         \A i \in DOMAIN queue : Mark(queue[i]) > cursor => \E j \in DOMAIN queue' : f[j] = i,
         \A i \in DOMAIN queue' : queue'[i].kind = "event" => queue'[i].seq > cursor
  PROVE  Discards(cursor)
<1>1. /\ queue \in Seq(Notes) /\ queue \in Seq(Frames) /\ OneGap(queue) /\ Rising(queue) /\ Marks(queue) \subseteq Nat
  BY PipelineTyped DEF FInv, Typed, Phases, Ordered, ForeOrdered
<1>2. queue' \in Seq(Frames)
  <2>1. Notes \subseteq Frames
    BY DEF Frames
  <2> QED BY <2>1
<1>3. /\ Rising(queue') /\ OneGap(queue')
      /\ Marks(queue') \subseteq Marks(queue) /\ EventMarks(queue') \subseteq EventMarks(queue)
  BY <1>1, <1>2, PickedMarks
<1>4. ASSUME NEW d \in Marks(queue) \ Marks(queue') PROVE d <= cursor
  <2>1. PICK i \in Places(queue) : d = Mark(queue[i])
    BY <1>4 DEF Marks
  <2>2. i \in DOMAIN queue /\ d \in Nat
    BY <1>1, <1>4, <2>1 DEF Places
  <2>3. ASSUME d > cursor PROVE FALSE
    <3>1. PICK j \in DOMAIN queue' : f[j] = i
      BY <2>1, <2>2, <2>3
    <3>2. queue'[j] \in Notes /\ queue[i] \in Notes
      BY <1>1, <2>2
    <3>3. Notification(queue'[j]) /\ Mark(queue'[j]) = d
      BY <2>1, <3>1, <3>2, NoteKinds DEF Picks, Mark
    <3> QED BY <1>4, <3>3 DEF Marks, Places
  <2> QED BY <2>2, <2>3
<1>5. queue = <<>> => queue' = <<>>
  <2> SUFFICES ASSUME queue = <<>> PROVE queue' = <<>>
    OBVIOUS
  <2>1. DOMAIN queue' = {}
    BY DEF Picks
  <2> QED BY <1>2, <2>1, LenProperties, EmptySeq
<1>6. GapMarks(queue') \subseteq GapMarks(queue) /\ \A m \in EventMarks(queue') : m > cursor
  BY DEF Picks, GapMarks, EventMarks
<1> QED BY <1>3, <1>4, <1>5, <1>6 DEF Discards

\* It is what _AsyncQueue.discard leaves of the queue.
LEMMA AfterDiscardDiscards ==
  ASSUME FInv, NEW cursor \in Nat, queue' = AfterDiscard(cursor)
  PROVE  Discards(cursor)
<1> DEFINE places == {i \in DOMAIN queue : queue[i].kind = "gap" \/ queue[i].seq > cursor}
<1>1. queue \in Seq(Notes) /\ queue' = Selected(places) /\ places \in SUBSET DOMAIN queue
      /\ \A i \in DOMAIN queue : queue[i] \in Notes
  BY DEF FInv, Typed, AfterDiscard
<1>2. \A i \in DOMAIN queue : Mark(queue[i]) > cursor => i \in places
  BY <1>1, NoteKinds
<1>8. \A i \in places : queue[i].kind = "event" => queue[i].seq > cursor
  OBVIOUS
<1> HIDE DEF places
<1> DEFINE t == Selected(places)
<1>5. t \in Seq(Notes)
  BY <1>1, SelectedPicks
<1>6. PICK f \in [DOMAIN t -> places] :
        /\ \A i, j \in DOMAIN t : i < j => f[i] < f[j]
        /\ \A i \in DOMAIN t : t[i] = queue[f[i]]
        /\ \A p \in places : \E i \in DOMAIN t : f[i] = p
  BY <1>1, SelectedPicks
<1>7. queue' = t
  BY <1>1
<1> HIDE DEF t
<1>3. \A p \in places : \E i \in DOMAIN queue' : f[i] = p
  BY <1>6, <1>7
<1>4. Picks(queue', queue, f) /\ queue' \in Seq(Notes)
  BY <1>1, <1>5, <1>6, <1>7 DEF Picks
<1>9. \A i \in DOMAIN queue' : queue'[i].kind = "event" => queue'[i].seq > cursor
  BY <1>6, <1>7, <1>8
<1> QED BY <1>2, <1>3, <1>4, <1>9, PickedDiscards

\* And what the Java feed retains of it.
LEMMA RetainedDiscards ==
  ASSUME FInv, NEW cursor \in Nat, queue' = Retained(cursor)
  PROVE  Discards(cursor)
<1> DEFINE places == {i \in DOMAIN queue : ~ (IF queue[i].kind = "gap" THEN queue[i].watermark ELSE queue[i].seq) <= cursor}
           kept == Selected(places)
<1>1. queue \in Seq(Notes) /\ places \in SUBSET DOMAIN queue /\ \A i \in DOMAIN queue : queue[i] \in Notes
  BY DEF FInv, Typed
<1>2. \A i \in DOMAIN queue : Mark(queue[i]) > cursor => i \in places
  BY <1>1, NoteKinds DEF Mark
<1>9. ASSUME NEW i \in places, queue[i].kind = "event" PROVE queue[i].seq > cursor
  <2>1. queue[i] \in Notes /\ queue[i].seq \in Nat
    BY <1>1, <1>9, NoteKinds, Constants
  <2> QED BY <1>9, <2>1
<1>0. queue' = [i \in DOMAIN kept |->
            IF kept[i].kind = "gap"
            THEN [kept[i] EXCEPT !.from = Larger(@, cursor + 1), !.to = Larger(@, cursor + 1)]
            ELSE kept[i]]
  BY DEF Retained
<1> HIDE DEF places
<1>3. PICK f \in [DOMAIN kept -> places] :
        /\ \A i, j \in DOMAIN kept : i < j => f[i] < f[j]
        /\ \A i \in DOMAIN kept : kept[i] = queue[f[i]]
        /\ \A p \in places : \E i \in DOMAIN kept : f[i] = p
  BY <1>1, SelectedPicks
<1>4. kept \in Seq(Notes)
  BY <1>1, SelectedPicks
<1> HIDE DEF kept
<1>a. DOMAIN queue' = DOMAIN kept
  BY <1>0
<1>5. DOMAIN kept = 1 .. Len(kept) /\ Len(kept) \in Nat /\ DOMAIN queue' = DOMAIN kept
      /\ \A i \in DOMAIN kept : kept[i] \in Notes
  BY <1>4, <1>a
<1>6. ASSUME NEW i \in DOMAIN kept
      PROVE  /\ queue'[i] \in Notes /\ queue'[i].kind = kept[i].kind
             /\ kept[i].kind = "event" => queue'[i].seq = kept[i].seq
             /\ kept[i].kind = "gap" => queue'[i].watermark = kept[i].watermark
  <2>1. CASE kept[i].kind = "gap"
    <3>1. kept[i] \in Notices
      BY <1>5, <2>1 DEF Notes, Events
    <3>2. queue'[i] = [kept[i] EXCEPT !.from = Larger(@, cursor + 1), !.to = Larger(@, cursor + 1)]
      BY <1>0, <2>1
    <3>3. Larger(kept[i].from, cursor + 1) \in Nat /\ Larger(kept[i].to, cursor + 1) \in Nat
      BY <3>1 DEF Larger, Notices
    <3>4. queue'[i] \in Notices /\ queue'[i].kind = "gap" /\ queue'[i].watermark = kept[i].watermark
      BY <3>1, <3>2, <3>3 DEF Notices
    <3> QED BY <2>1, <3>4 DEF Notes
  <2>2. CASE kept[i].kind # "gap"
    BY <1>0, <1>5, <2>2
  <2> QED BY <2>1, <2>2
<1>7. queue' \in Seq(Notes)
  <2> DEFINE q == [i \in DOMAIN kept |->
            IF kept[i].kind = "gap"
            THEN [kept[i] EXCEPT !.from = Larger(@, cursor + 1), !.to = Larger(@, cursor + 1)]
            ELSE kept[i]]
  <2>1. queue' = q
    BY <1>0
  <2>2. q = [i \in 1 .. Len(kept) |-> q[i]]
    BY <1>5
  <2>3. \A i \in 1 .. Len(kept) : q[i] \in Notes
    BY <1>5, <1>6, <2>1
  <2> HIDE DEF q
  <2>4. q \in [1 .. Len(kept) -> Notes]
    BY <2>2, <2>3
  <2> QED BY <1>5, <2>1, <2>4, SeqDef
<1>8. Picks(queue', queue, f)
  BY <1>1, <1>3, <1>5, <1>6 DEF Picks
<1>b. \A i \in DOMAIN queue' : queue'[i].kind = "event" => queue'[i].seq > cursor
  BY <1>3, <1>5, <1>6, <1>9
<1> QED BY <1>2, <1>3, <1>5, <1>7, <1>8, <1>b, PickedDiscards
--------
(* The invariant in parts, for the steps of the client. *)

\* The invariant gives the parts.
LEMMA PartsHold ==
  ASSUME FInv
  PROVE  /\ FeedTyped /\ QueueTyped /\ LaneTyped /\ AckTyped /\ AppTyped /\ WireTyped
         /\ IteratorPhases /\ SubmitPhases /\ (Java => Len(held) <= 1)
         /\ Typed /\ Phases /\ Consumed /\ Ordered /\ RearOrdered /\ ForeOrdered /\ Latest /\ Chained
<1>1. Typed /\ Phases /\ Consumed /\ Ordered /\ RearOrdered /\ ForeOrdered /\ Latest /\ Chained
  BY DEF FInv, Ordered
<1>2. FeedTyped /\ QueueTyped /\ LaneTyped /\ AppTyped /\ WireTyped
  BY <1>1 DEF Typed, FeedTypeOK, FeedTyped, QueueTyped, LaneTyped, AppTyped, WireTyped
<1>3. AckTyped
  BY <1>1 DEF Typed, FeedTypeOK, AckTyped, Submissions
<1>4. IteratorPhases /\ SubmitPhases /\ (Java => Len(held) <= 1)
  BY <1>1 DEF Phases, IteratorPhases, SubmitPhases
<1> QED BY <1>1, <1>2, <1>3, <1>4

\* The parts give the invariant.
LEMMA PartsMake ==
  ASSUME FInv, UNCHANGED <<vars, sdk>>, Parts', Consumed', Ordered', Latest', Chained'
  PROVE  FInv'
<1>1. Inv' /\ UNCHANGED <<connected, pages>>
  BY HostStays
<1>2. FeedTypeOK'
  BY <1>1 DEF Parts, FeedTypeOK, FeedTyped, QueueTyped, AppTyped, AckTyped, Submissions, Inv
<1>3. Typed'
  BY <1>1, <1>2 DEF FInv, Typed, Parts, QueueTyped, LaneTyped, AppTyped, WireTyped
<1>4. Phases'
  BY DEF Parts, Phases, IteratorPhases, SubmitPhases
<1> QED BY <1>1, <1>3, <1>4 DEF FInv

\* The more is seen, the more of what is acknowledged is consumed.
LEMMA ConsumedGrows ==
  ASSUME FInv, UNCHANGED <<vars, to_host, ack_cursor, retired, submissions>>, seen' \in Nat, seen' >= seen
  PROVE  Consumed'
<1>1. Consumed /\ AckTyped /\ AppTyped /\ WireTyped /\ UNCHANGED acks
  BY PartsHold, HostStays
<1>2. seen \in Nat /\ ack_cursor \in Nat /\ \A n \in Nat : n <= seen => n <= seen'
  BY <1>1, Constants DEF AppTyped, AckTyped
<1>3. \A s \in submissions : s.seq \in 1 .. seen'
  BY <1>1, <1>2 DEF Consumed
<1>4. \A i \in DOMAIN to_host : to_host[i].kind = "ack" => to_host[i].seq <= seen'
  <2> SUFFICES ASSUME NEW i \in DOMAIN to_host, to_host[i].kind = "ack" PROVE to_host[i].seq <= seen'
    OBVIOUS
  <2>1. to_host[i] \in Messages
    BY <1>1 DEF WireTyped
  <2>2. to_host[i].seq \in Nat /\ to_host[i].seq <= seen
    BY <1>1, <2>1 DEF Consumed, Messages
  <2> QED BY <1>2, <2>2
<1>5. acks \subseteq 1 .. seen'
  BY <1>1, <1>2 DEF Consumed
<1> QED BY <1>1, <1>2, <1>3, <1>4, <1>5 DEF Consumed
--------
(* The feed receives. *)

\* The bounds of a page are sequences of the Run.
LEMMA PageTyped ==
  ASSUME NEW x \in Answers, x.kind = "page"
  PROVE  /\ x.page.base \in 0 .. Terminal /\ x.page.end \in 0 .. Terminal
         /\ NextCursor(x.page) \in 0 .. Terminal
<1>1. x.page \in HostPages
  BY DEF Answers, Settled
<1> QED BY <1>1 DEF HostPages, NextCursor

\* An answer may bring the application what it misses.
LEMMA AnswerKeeps ==
  ASSUME FInv, NEW x \in Answers, AcceptAnswer(x), UNCHANGED <<vars, to_host>>,
         to_client' \in Seq(Frames), Rising(to_client)',
         UNCHANGED <<Marks(to_client), EventMarks(to_client)>>
  PROVE  FInv'
<1>0. /\ FeedTyped /\ QueueTyped /\ LaneTyped /\ AckTyped /\ AppTyped /\ WireTyped
      /\ IteratorPhases /\ SubmitPhases /\ (Java => Len(held) <= 1)
      /\ Consumed /\ RearOrdered /\ ForeOrdered /\ Latest
  BY PartsHold
<1>1. UNCHANGED <<sdk, last_sequence, gap_mark, live, held, queue, queue_state, retired,
                  ack_cursor, submissions, iterator, hand>>
  BY DEF AcceptAnswer, AcceptPage, AcceptReplayError, AcceptSettled, feed, mail, acking
<1>2. /\ recovery' \in {"idle", "requested", "consumed", "acking"} /\ seen' \in 0 .. Terminal /\ seen' >= seen
      /\ ranges' \subseteq [base : 0 .. Terminal, end : 0 .. Terminal]
  <2>0. seen \in 0 .. Terminal /\ Terminal \in Nat
    BY <1>0, Constants DEF AppTyped
  <2>1. CASE x.kind = "page" /\ AcceptPage(x.page)
    BY <1>0, <2>0, <2>1, PageTyped DEF AcceptPage, FeedTyped, Larger
  <2>2. CASE AcceptReplayError
    <3>1. iterator = "gap" => hand.watermark \in 0 .. Terminal
      BY <1>0, <2>2, NoteKinds DEF AppTyped, IteratorPhases, NoFrame
    <3> QED BY <1>0, <2>0, <2>2, <3>1 DEF AcceptReplayError, FeedTyped, Larger, feed
  <2>3. CASE AcceptSettled
    BY <1>0, <2>0, <2>3 DEF AcceptSettled, FeedTyped, AppTyped, feed
  <2> QED BY <2>1, <2>2, <2>3 DEF AcceptAnswer
<1>3. /\ FeedTyped' /\ QueueTyped' /\ LaneTyped' /\ AckTyped' /\ AppTyped' /\ WireTyped'
      /\ SubmitPhases' /\ (Java => Len(held) <= 1)'
  BY <1>0, <1>1, <1>2 DEF FeedTyped, QueueTyped, LaneTyped, AckTyped, AppTyped, WireTyped, SubmitPhases, Java
<1>4. IteratorPhases'
  <2>1. iterator \in {"ack", "acking"} => hand.kind = "event" /\ hand.seq <= seen'
    <3>1. iterator \in {"ack", "acking"} => hand.kind = "event" /\ hand.seq <= seen /\ hand.seq \in Nat
      BY <1>0, NoteKinds DEF AppTyped, IteratorPhases, NoFrame
    <3> QED BY <1>0, <1>2, <3>1 DEF AppTyped
  <2> QED BY <1>0, <1>1, <2>1 DEF IteratorPhases, Java, OneGap
<1>5. Consumed'
  BY <1>0, <1>1, <1>2, ConsumedGrows DEF AppTyped
<1>6. Ordered' /\ Chained'
  <2>1. /\ UNCHANGED <<HandMarks, HandEvents, Marks(queue), EventMarks(queue), Rising(queue), Fore, ForeEvents,
                       HeldMarks, HeldEvents, HeldRising>>
    BY <1>1, ForeStays, HeldStays
  <2>2. Rear' = Rear /\ RearEvents' = RearEvents
    BY <2>1 DEF Rear, RearEvents
  <2>3. RearOrdered' /\ ForeOrdered'
    BY <1>0, <2>1, <2>2, HostStays DEF RearOrdered, ForeOrdered
  <2>4. Thins
    BY <1>1, <1>2, <2>1, <2>2, <2>3 DEF Thins
  <2> QED BY <2>4, ThinningKeeps
<1>7. Latest'
  BY <1>0, <1>1, HostStays, HeldStays DEF Latest, Java
<1> QED BY <1>1, <1>3, <1>4, <1>5, <1>6, <1>7, PartsMake DEF Parts

\* A notification is passed by: it is consumed already, or the feed is over.
LEMMA PassedKeeps ==
  ASSUME FInv, UNCHANGED <<vars, to_host>>, to_client # <<>>, to_client' = Tail(to_client),
         UNCHANGED <<feed, held, queue, retired, acking, app>>,
         queue_state' \in {"open", "closed", "failed"},
         Head(to_client) \in Notes,
         queue_state' = "open" => queue_state = "open" /\ Mark(Head(to_client)) <= seen
  PROVE  FInv'
<1>0. /\ FeedTyped /\ QueueTyped /\ LaneTyped /\ AckTyped /\ AppTyped /\ WireTyped
      /\ IteratorPhases /\ SubmitPhases /\ (Java => Len(held) <= 1)
      /\ Consumed /\ RearOrdered /\ ForeOrdered /\ Latest
  BY PartsHold
<1>1. UNCHANGED <<sdk, last_sequence, gap_mark, live, ranges, held, queue, retired,
                  ack_cursor, submissions, iterator, hand, recovery, seen>>
  BY DEF feed, acking, app
<1>2. /\ to_client' \in Seq(Frames) /\ RearOrdered' /\ Rear' \subseteq Rear /\ RearEvents' \subseteq RearEvents
      /\ Marks(to_client)' \subseteq Marks(to_client) /\ Rear = Rear' \union {Mark(Head(to_client))}
  BY <1>1, WireHeadLeaves
<1>3. Parts'
  <2>1. /\ FeedTyped' /\ QueueTyped' /\ LaneTyped' /\ AckTyped' /\ AppTyped' /\ WireTyped'
    BY <1>0, <1>1, <1>2 DEF FeedTyped, QueueTyped, LaneTyped, AckTyped, AppTyped, WireTyped
  <2>2. IteratorPhases' /\ SubmitPhases' /\ (Java => Len(held) <= 1)'
    BY <1>0, <1>1 DEF IteratorPhases, SubmitPhases, Java, OneGap
  <2> QED BY <2>1, <2>2 DEF Parts
<1>4. Consumed'
  BY <1>0, <1>1, ConsumedGrows DEF AppTyped
<1>5. Ordered' /\ Chained'
  <2>1. UNCHANGED <<Fore, ForeEvents, Marks(queue), HandMarks, Rising(queue)>>
    BY <1>1, ForeStays
  <2>2. ForeOrdered'
    BY <1>0, <2>1, HostStays DEF ForeOrdered
  <2>3. Thins
    BY <1>0, <1>1, <1>2, <2>1, <2>2 DEF Thins, AppTyped
  <2> QED BY <2>3, ThinningKeeps
<1>6. Latest'
  BY <1>0, <1>1, <1>2, HostStays, HeldStays DEF Latest, Java, Below
<1> QED BY <1>1, <1>3, <1>4, <1>5, <1>6, PartsMake

\* What arrives again has been consumed.
LEMMA StepBefore ==
  ASSUME FInv
  PROVE  /\ seen \in Nat /\ ack_cursor \in Nat /\ retired \in Nat /\ ack_cursor <= seen /\ retired <= ack_cursor
         /\ last_sequence \in Nat /\ Terminal \in Nat
         /\ \A m \in Marks(to_client) : m = last_sequence => m <= seen
         /\ Java => \A m \in HeldMarks : m = last_sequence => m <= seen
<1>1. AppTyped /\ AckTyped /\ FeedTyped /\ Consumed /\ Latest
  BY PartsHold
<1>2. seen \in Nat /\ ack_cursor \in Nat /\ retired \in Nat /\ last_sequence \in Nat /\ ack_cursor <= seen /\ retired <= ack_cursor
      /\ Terminal \in Nat
  BY <1>1, Constants DEF AppTyped, AckTyped, FeedTyped, Consumed
<1>3. CASE last_sequence <= ack_cursor
  BY <1>2, <1>3
<1>4. CASE /\ Below({last_sequence}, Marks(to_client)) /\ (Java => Below({last_sequence}, HeldMarks))
  <2>1. \A m \in Marks(to_client) : last_sequence < m
    BY <1>4 DEF Below
  <2>2. Java => \A m \in HeldMarks : last_sequence < m
    BY <1>4 DEF Below
  <2> QED BY <1>2, <2>1, <2>2
<1> QED BY <1>1, <1>3, <1>4 DEF Latest

\* What an admitted item does to the queue.
LEMMA AdmitKeeps ==
  ASSUME FInv, ~ Java, UNCHANGED <<vars, sdk, retired, seen, submissions>>, NEW entry \in Entries,
         entry.seq = Mark(entry.item), Admit(entry),
         Departs(entry.seq, entry.item.kind = "event")
  PROVE  /\ Ordered' /\ Chained' /\ QueueTyped' /\ IteratorPhases' /\ SubmitPhases'
         /\ iterator' \in {"next", "waiting", "handed", "ack", "acking", "gap", "done"}
         /\ hand' \in Notes \union {NoFrame}
<1> DEFINE x == entry.item
           m == Mark(x)
<1>0. /\ x \in Notes /\ entry.seq = m /\ x.kind \in {"event", "gap"}
      /\ (x.kind = "event" => x.seq = m) /\ m \in Nat /\ x # NoFrame
  BY NoteKinds DEF Entries
<1>1. /\ QueueTyped /\ AppTyped /\ IteratorPhases /\ SubmitPhases /\ ForeOrdered
  BY PartsHold
<1>2. retired <= seen /\ retired \in Nat /\ seen \in Nat
  BY StepBefore
<1>a. sdk' = sdk /\ submissions' = submissions /\ seen' = seen
  OBVIOUS
<1>3. ASSUME UNCHANGED <<queue, iterator, hand>>, queue_state' \in {"open", "closed", "failed"},
             queue_state' = "open" => queue_state = "open" /\ m <= seen
      PROVE  /\ Ordered' /\ Chained' /\ QueueTyped' /\ IteratorPhases' /\ SubmitPhases'
             /\ iterator' \in {"next", "waiting", "handed", "ack", "acking", "gap", "done"}
             /\ hand' \in Notes \union {NoFrame}
  <2>1. UNCHANGED <<Fore, ForeEvents, HandMarks, Marks(queue), Rising(queue), OneGap(queue)>>
    BY <1>3, ForeStays
  <2>2. ForeOrdered'
    BY <1>1, <2>1, HostStays DEF ForeOrdered
  <2>3. Arrives(m, x.kind = "event")
    BY <1>3, <2>1, <2>2 DEF Arrives
  <2>4. Ordered' /\ Chained'
    BY <1>0, <2>3, ArrivalKeeps
  <2>5. QueueTyped' /\ IteratorPhases' /\ SubmitPhases'
    BY <1>1, <1>3, <1>a, <2>1 DEF QueueTyped, IteratorPhases, SubmitPhases, Java
  <2> QED BY <1>1, <1>3, <2>4, <2>5 DEF AppTyped
<1>4. CASE queue_state # "open" \/ entry.seq <= retired
  <2>1. UNCHANGED <<queue, queue_state, iterator, hand>>
    BY <1>4 DEF Admit
  <2> QED BY <1>0, <1>1, <1>2, <1>3, <1>4, <2>1 DEF QueueTyped
<1>5. CASE queue_state = "open" /\ queue_state' = "failed" /\ UNCHANGED <<queue, iterator, hand>>
  BY <1>3, <1>5
<1>6. CASE /\ queue_state = "open" /\ Enters(x) /\ queue_state' \in {"open", "closed"}
           /\ iterator' = IF hand' = hand THEN iterator ELSE "handed"
           /\ iterator = "waiting" => iterator' = "handed"
  <2>1. /\ Arrives(m, x.kind = "event")
        /\ queue' \in Seq(Notes) /\ OneGap(queue') /\ hand' \in Notes \union {NoFrame}
    BY <1>0, <1>6, EnteringArrives
  <2>2. Ordered' /\ Chained'
    BY <1>0, <2>1, ArrivalKeeps
  <2>3. IteratorPhases'
    <3>1. CASE hand' = hand
      BY <1>1, <1>6, <1>a, <2>1, <3>1 DEF IteratorPhases, Java
    <3>2. CASE hand' # hand
      <4>1. hand' = x /\ iterator' = "handed"
        BY <1>6, <3>2 DEF Enters
      <4> QED BY <1>0, <2>1, <4>1 DEF IteratorPhases
    <3> QED BY <3>1, <3>2
  <2>4. SubmitPhases'
    <3>1. iterator = "acking" => iterator' = "acking"
      BY <1>1, <1>6 DEF IteratorPhases, Enters
    <3> QED BY <1>1, <1>a, <3>1 DEF SubmitPhases, Java
  <2> QED BY <1>1, <1>6, <2>1, <2>2, <2>3, <2>4 DEF QueueTyped, AppTyped
<1>7. CASE queue_state = "open" /\ ~ (entry.seq <= retired) /\ x.kind = "gap" /\ GapQueued
  <2>1. queue' = WithMergedGap(x) /\ UNCHANGED <<queue_state, iterator, hand>>
    BY <1>7 DEF Admit
  <2>2. queue' = WithGap(x)
    BY <1>0, <1>7, <2>1, MergesToTheEnd DEF Departs
  <2>3. iterator # "waiting"
    BY <1>1, <1>7 DEF IteratorPhases, GapQueued
  <2> QED BY <1>6, <1>7, <2>1, <2>2, <2>3 DEF Enters
<1>8. CASE /\ queue_state = "open" /\ ~ (entry.seq <= retired) /\ ~ (x.kind = "gap" /\ GapQueued)
           /\ ~ (x.kind = "event" /\ ~ HasCapacity)
  <2>1. /\ IF iterator = "waiting"
           THEN hand' = x /\ iterator' = "handed" /\ UNCHANGED queue
           ELSE queue' = Append(queue, x) /\ UNCHANGED <<iterator, hand>>
        /\ queue_state' \in {"open", "closed"}
    BY <1>8 DEF Admit
  <2>2. iterator = "waiting" => hand = NoFrame /\ queue = <<>>
    BY <1>1 DEF IteratorPhases
  <2> QED BY <1>0, <1>6, <1>8, <2>1, <2>2 DEF Enters
<1>9. CASE queue_state = "open" /\ ~ (entry.seq <= retired) /\ x.kind = "event" /\ ~ HasCapacity
  BY <1>5, <1>9 DEF Admit
<1> QED BY <1>0, <1>4, <1>7, <1>8, <1>9

\* A notification moves from the transport to the end of the lane.
LEMMA MovesUp ==
  ASSUME FInv, UNCHANGED vars, to_client # <<>>, to_client' = Tail(to_client),
         NEW entry \in Entries, entry.item = Head(to_client), entry.seq = Mark(entry.item),
         held' = Append(held, entry)
  PROVE  /\ RearOrdered' /\ Rear' = Rear /\ RearEvents' = RearEvents /\ to_client' \in Seq(Frames) /\ LaneTyped'
         /\ Below({entry.seq}, Marks(to_client)')
         /\ Marks(to_client)' \subseteq Marks(to_client) /\ entry.seq \in Marks(to_client)
         /\ HeldMarks' = HeldMarks \union {entry.seq}
<1> DEFINE x == Head(to_client)
           m == Mark(x)
<1>1. Typed /\ RearOrdered /\ Rising(to_client) /\ to_client \in Seq(Frames) /\ Top' = Top
  BY PartsHold, PipelineTyped, HostStays DEF RearOrdered
<1>2. x \in Notes /\ (x.kind = "event" => x.seq = m) /\ entry.seq = m
  BY NoteKinds DEF Entries
<1>3. /\ Rising(to_client') /\ to_client' \in Seq(Frames) /\ Marks(to_client) = Marks(to_client') \union {m}
      /\ Below({m}, Marks(to_client'))
      /\ EventMarks(to_client) = EventMarks(to_client') \union (IF x.kind = "event" THEN {m} ELSE {})
  BY <1>1, <1>2, TailMarks
<1>4. Below(HeldMarks, {m})
  BY <1>1, <1>3 DEF RearOrdered, Below
<1>5. /\ held' \in Seq(Entries) /\ \A i \in DOMAIN held' : held'[i].seq = Mark(held'[i].item)
      /\ HeldMarks' = HeldMarks \union {m}
      /\ HeldEvents' = HeldEvents \union (IF x.kind = "event" THEN {m} ELSE {}) /\ HeldRising'
  BY <1>1, <1>2, <1>4, HeldAppend DEF RearOrdered
<1>6. Rear' = Rear /\ RearEvents' = RearEvents
  <2> HIDE DEF x, m
  <2> QED BY <1>3, <1>5 DEF Rear, RearEvents
<1>7. RearOrdered'
  <2>1. Below(HeldMarks', Marks(to_client'))
    BY <1>1, <1>3, <1>5 DEF RearOrdered, Below
  <2> QED BY <1>1, <1>3, <1>5, <1>6, <2>1 DEF RearOrdered
<1> QED BY <1>2, <1>3, <1>5, <1>6, <1>7 DEF LaneTyped

\* A notification is taken from the transport into lane or queue.
LEMMA TakenKeeps ==
  ASSUME FInv, ~ Java, UNCHANGED <<vars, to_host, sdk, ranges>>, to_client # <<>>, to_client' = Tail(to_client),
         Head(to_client) \in Notes, last_sequence' = Mark(Head(to_client)),
         gap_mark' \in 0 .. Terminal, live' \subseteq 1 .. Terminal,
         Deliveries(Head(to_client), Mark(Head(to_client)))
  PROVE  FInv'
<1> DEFINE x == Head(to_client)
           m == Mark(x)
           entry == [item |-> x, seq |-> m, waits_for |-> IF x.kind = "event" THEN Candidates(m) ELSE {}]
<1>0. /\ FeedTyped /\ QueueTyped /\ LaneTyped /\ AckTyped /\ AppTyped /\ WireTyped
      /\ IteratorPhases /\ SubmitPhases /\ Consumed /\ RearOrdered /\ ForeOrdered
  BY PartsHold
<1>1. m \in 1 .. Terminal /\ Terminal \in Nat
  BY NoteKinds, Constants
<1>2. entry \in Entries /\ entry.item = x /\ entry.seq = m
  <2>1. Candidates(m) \subseteq Tasks \X (0 .. Terminal)
    BY <1>0 DEF Candidates, Named, AckTyped, Submissions
  <2> QED BY <1>1, <2>1 DEF Entries
<1>3. /\ UNCHANGED <<retired, ack_cursor, submissions, recovery, seen, sdk, ranges>>
      /\ \/ Admit(entry) /\ held = <<>> /\ UNCHANGED held
         \/ held' = Append(held, entry) /\ UNCHANGED <<queue, queue_state, iterator, hand>>
  BY DEF Deliveries, acking
<1>4. Consumed'
  BY <1>0, <1>3, ConsumedGrows DEF AppTyped
<1> HIDE DEF entry
<1>5. CASE Admit(entry) /\ held = <<>> /\ UNCHANGED held
  <2>1. /\ to_client' \in Seq(Frames) /\ m \in Marks(to_client) /\ Below({m}, Marks(to_client)')
        /\ Departs(m, x.kind = "event")
    BY <1>5, WireHeadLeaves
  <2>2. /\ Ordered' /\ Chained' /\ QueueTyped' /\ IteratorPhases' /\ SubmitPhases'
        /\ iterator' \in {"next", "waiting", "handed", "ack", "acking", "gap", "done"}
        /\ hand' \in Notes \union {NoFrame}
    BY <1>2, <1>3, <1>5, <2>1, AdmitKeeps
  <2>3. Latest'
    BY <1>3, <2>1, HostStays DEF Latest, Java, Departs
  <2>4. Parts'
    <3>1. FeedTyped' /\ LaneTyped' /\ AckTyped' /\ AppTyped' /\ WireTyped' /\ ~ Java'
      BY <1>0, <1>1, <1>3, <1>5, <2>1, <2>2 DEF FeedTyped, LaneTyped, AckTyped, AppTyped, WireTyped, Java
    <3> QED BY <2>2, <3>1 DEF Parts
  <2> QED BY <1>3, <1>4, <2>2, <2>3, <2>4, PartsMake
<1>6. CASE held' = Append(held, entry) /\ UNCHANGED <<queue, queue_state, iterator, hand>>
  <2>1. /\ RearOrdered' /\ Rear' = Rear /\ RearEvents' = RearEvents /\ to_client' \in Seq(Frames) /\ LaneTyped'
        /\ Below({m}, Marks(to_client)') /\ m \in Marks(to_client)
    BY <1>2, <1>6, MovesUp
  <2>2. UNCHANGED <<Fore, ForeEvents, HandMarks, Marks(queue), Rising(queue), OneGap(queue)>>
    BY <1>6, ForeStays
  <2>3. Ordered' /\ Chained'
    <3>1. ForeOrdered'
      BY <1>0, <2>2, HostStays DEF ForeOrdered
    <3>2. Thins
      BY <1>0, <1>3, <1>6, <2>1, <2>2, <3>1 DEF Thins, AppTyped
    <3> QED BY <3>2, ThinningKeeps
  <2>4. Latest'
    <3>1. m <= Top
      BY <1>0, <2>1 DEF RearOrdered, Rear
    <3> QED BY <1>3, <2>1, <3>1, HostStays DEF Latest, Java
  <2>5. Parts'
    <3>1. FeedTyped' /\ QueueTyped' /\ AckTyped' /\ AppTyped' /\ WireTyped' /\ ~ Java'
      BY <1>0, <1>1, <1>3, <1>6, <2>1 DEF FeedTyped, QueueTyped, AckTyped, AppTyped, WireTyped, Java
    <3>2. IteratorPhases' /\ SubmitPhases'
      BY <1>0, <1>3, <1>6, <2>2 DEF IteratorPhases, SubmitPhases, Java
    <3> QED BY <2>1, <3>1, <3>2 DEF Parts
  <2> QED BY <1>3, <1>4, <2>3, <2>4, <2>5, PartsMake
<1> QED BY <1>3, <1>5, <1>6

\* Python and TypeScript: the next frame of the wire is received.
LEMMA ClientReceivesKeeps ==
  ASSUME FInv, ~ Java, ClientReceives
  PROVE  FInv'
<1> DEFINE x == Head(to_client)
           m == Mark(x)
<1>1. /\ to_client # <<>> /\ to_client' = Tail(to_client) /\ UNCHANGED <<vars, to_host>>
  BY DEF ClientReceives, Received
<1>2. /\ FeedTyped /\ QueueTyped /\ LaneTyped /\ to_client \in Seq(Frames) /\ RearOrdered
  BY PartsHold DEF WireTyped
<1>3. x \in Frames /\ (x.kind \in {"event", "gap"} <=> x \in Notes)
  BY <1>1, <1>2, TailPicks, NoteKinds DEF Notification
<1>4. x \in Notes => /\ m \in 1 .. Terminal /\ m \in Marks(to_client) /\ (x.kind = "event" => x.seq = m)
                     /\ (x.kind = "gap" => x.watermark = m)
  <2>1. x \in Notes => /\ m \in 1 .. Terminal /\ (x.kind = "event" => x.seq = m)
                       /\ (x.kind = "gap" => x.watermark = m)
    BY NoteKinds
  <2>2. x = to_client[1] /\ 1 \in DOMAIN to_client
    BY <1>1, <1>2, TailPicks
  <2> QED BY <1>3, <2>1, <2>2 DEF Marks, Places, Notification
<1>5. ASSUME x \in Notes, Refuse PROVE FInv'
  <2>1. queue_state' \in {"closed", "failed"}
    BY <1>2, <1>5 DEF Refuse, QueueTyped
  <2>2. UNCHANGED <<feed, held, queue, retired, acking, app>>
    BY <1>5 DEF Refuse
  <2> QED BY <1>1, <1>5, <2>1, <2>2, PassedKeeps
<1>6. ASSUME x \in Notes, Ignore, m = last_sequence PROVE FInv'
  <2>1. m <= seen
    BY <1>4, <1>6, StepBefore
  <2>2. UNCHANGED <<feed, held, queue, queue_state, retired, acking, app>>
    BY <1>6 DEF Ignore, client, mail
  <2> QED BY <1>1, <1>2, <1>6, <2>1, <2>2, PassedKeeps DEF QueueTyped
<1>7. ASSUME x.kind = "event", AcceptEvent(x.seq) PROVE FInv'
  <2>1. x \in Notes /\ x.seq = m
    BY <1>3, <1>4, <1>7
  <2>2. CASE last_sequence' = x.seq /\ live' = live \union {x.seq} /\ UNCHANGED <<sdk, gap_mark, ranges, terminal_replayed>>
             /\ Deliveries(EventFrame(x.seq), x.seq)
    <3>1. EventFrame(x.seq) = x
      BY <1>7, <2>1 DEF Notes, Events, Notices, EventFrame
    <3>2. gap_mark' \in 0 .. Terminal /\ live' \subseteq 1 .. Terminal
      BY <1>2, <1>4, <2>1, <2>2 DEF FeedTyped
    <3>3. Deliveries(x, m)
      BY <2>1, <2>2, <3>1
    <3> QED BY <1>1, <2>1, <2>2, <3>2, <3>3, TakenKeeps
  <2> QED BY <1>5, <1>6, <1>7, <2>1, <2>2 DEF AcceptEvent
<1>8. ASSUME x.kind = "gap", TakeGap(x) PROVE FInv'
  <2>1. x \in Notes /\ x.watermark = m /\ m \in 0 .. Terminal
    BY <1>3, <1>4, <1>8
  <2>2. last_sequence' = m /\ gap_mark' = m /\ UNCHANGED <<sdk, live, ranges>> /\ Deliveries(x, m)
    BY <1>8, <2>1 DEF TakeGap
  <2>3. live' \subseteq 1 .. Terminal
    BY <1>2, <2>2 DEF FeedTyped
  <2> QED BY <1>1, <2>1, <2>2, <2>3, TakenKeeps
<1>9. ASSUME x.kind = "gap", AcceptGap(x) PROVE FInv'
  BY <1>3, <1>4, <1>5, <1>6, <1>8, <1>9 DEF AcceptGap
<1>10. ASSUME AcceptAnswer(x), x \in Answers PROVE FInv'
  <2>1. x \notin Notes
    BY <1>10, NoteKinds
  <2>2. /\ Rising(to_client)' /\ to_client' \in Seq(Frames)
        /\ UNCHANGED <<Marks(to_client), EventMarks(to_client)>>
    <3>1. Rising(to_client) /\ x.kind # "event"
      BY <1>2, <1>10, NoteKinds DEF RearOrdered
    <3> QED BY <1>1, <1>2, <2>1, <3>1, TailMarks
  <2> QED BY <1>1, <1>10, <2>2, AnswerKeeps
<1>11. AcceptAnswer(x) => x \in Answers
  <2>1. x.kind \in {"page", "replay_error", "settled"} => x \in Answers
    BY <1>3 DEF Frames
  <2> QED BY <2>1 DEF AcceptAnswer
<1> QED BY <1>7, <1>8, <1>9, <1>10, <1>11 DEF ClientReceives
--------
(* The queue and the iterator. *)

\* Python and TypeScript: the head of the lane is pushed into the queue.
LEMMA PushKeeps ==
  ASSUME FInv, ~ Java, Push
  PROVE  FInv'
<1> DEFINE entry == Head(held)
           m == Mark(entry.item)
<1>0. /\ FeedTyped /\ AckTyped /\ AppTyped /\ WireTyped /\ Latest /\ QueueTyped
  BY PartsHold
<1>1. /\ held # <<>> /\ held' = Tail(held) /\ Admit(entry)
      /\ UNCHANGED <<vars, to_client, to_host, sdk, last_sequence, gap_mark, live, ranges, retired,
                     ack_cursor, submissions, recovery, seen>>
  BY DEF Push, wires, feed, acking
<1>2. /\ entry \in Entries /\ entry.seq = m /\ Departs(m, entry.item.kind = "event")
      /\ held' \in Seq(Entries) /\ \A i \in DOMAIN held' : held'[i].seq = Mark(held'[i].item)
  BY <1>1, HeldHeadLeaves
<1>3. /\ Ordered' /\ Chained' /\ QueueTyped' /\ IteratorPhases' /\ SubmitPhases'
      /\ iterator' \in {"next", "waiting", "handed", "ack", "acking", "gap", "done"}
      /\ hand' \in Notes \union {NoFrame}
  BY <1>1, <1>2, AdmitKeeps
<1>4. Latest'
  BY <1>0, <1>1, HostStays, WireStays DEF Latest, Java
<1>5. Parts'
  <2>1. FeedTyped' /\ LaneTyped' /\ AckTyped' /\ AppTyped' /\ WireTyped' /\ ~ Java'
    BY <1>0, <1>1, <1>2, <1>3 DEF FeedTyped, LaneTyped, AckTyped, AppTyped, WireTyped, Java
  <2> QED BY <1>3, <2>1 DEF Parts
<1>6. Consumed'
  BY <1>0, <1>1, ConsumedGrows DEF AppTyped
<1> QED BY <1>1, <1>3, <1>4, <1>5, <1>6, PartsMake

\* The application's side moves, the transport and the lane do not.
LEMMA ForeMovesKeeps ==
  ASSUME FInv, UNCHANGED <<vars, to_client, sdk, last_sequence, gap_mark, live, ranges, held>>,
         QueueTyped', AckTyped', AppTyped', to_host' \in Seq(Messages),
         IteratorPhases', SubmitPhases', Consumed',
         ForeOrdered', Fore' \subseteq Fore, ForeEvents' \subseteq ForeEvents,
         seen' >= seen, queue_state' = "open" => queue_state = "open",
         ack_cursor' >= ack_cursor,
         \A d \in Fore \ Fore' : d <= seen'
  PROVE  FInv'
<1>0. /\ FeedTyped /\ LaneTyped /\ WireTyped /\ RearOrdered /\ Latest /\ AckTyped /\ (Java => Len(held) <= 1)
  BY PartsHold
<1>1. /\ UNCHANGED <<Marks(to_client), EventMarks(to_client), Rising(to_client), HeldMarks, HeldEvents, HeldRising>>
  BY HeldStays, WireStays
<1>2. Rear' = Rear /\ RearEvents' = RearEvents
  BY <1>1 DEF Rear, RearEvents
<1>3. RearOrdered'
  BY <1>0, <1>1, <1>2, HostStays DEF RearOrdered
<1>4. Ordered' /\ Chained'
  <2>1. seen' \in Nat
    BY Constants DEF AppTyped
  <2>2. Thins
    BY <1>2, <1>3, <2>1 DEF Thins
  <2> QED BY <2>2, ThinningKeeps
<1>5. Latest'
  <2>1. ack_cursor \in Nat /\ ack_cursor' \in Nat /\ last_sequence \in Nat
    BY <1>0, Constants DEF AckTyped, FeedTyped
  <2> QED BY <1>0, <1>1, <2>1, HostStays DEF Latest, Java
<1>6. Parts'
  <2>1. FeedTyped' /\ LaneTyped' /\ WireTyped' /\ (Java => Len(held) <= 1)'
    BY <1>0 DEF FeedTyped, LaneTyped, WireTyped, Java
  <2> QED BY <2>1 DEF Parts
<1> QED BY <1>4, <1>5, <1>6, PartsMake

\* The head of the queue is taken.
LEMMA TakenFromQueue ==
  ASSUME FInv, UNCHANGED vars, hand = NoFrame, queue # <<>>, hand' = Head(queue), queue' = Tail(queue)
  PROVE  /\ hand' \in Notes /\ queue' \in Seq(Notes) /\ OneGap(queue')
         /\ ForeOrdered' /\ Fore' = Fore /\ ForeEvents' = ForeEvents
<1>1. queue \in Seq(Frames) /\ Rising(queue) /\ OneGap(queue) /\ ForeOrdered /\ queue \in Seq(Notes)
  BY PartsHold, PipelineTyped DEF ForeOrdered, IteratorPhases, QueueTyped
<1>2. hand' \in Notes /\ queue' \in Seq(Notes)
  BY <1>1, HeadTailProperties
<1>3. /\ Rising(queue') /\ OneGap(queue') /\ Marks(queue) = Marks(queue') \union {Mark(hand')}
      /\ Below({Mark(hand')}, Marks(queue'))
      /\ EventMarks(queue) = EventMarks(queue') \union (IF hand'.kind = "event" THEN {hand'.seq} ELSE {})
  BY <1>1, <1>2, TailMarks
<1>4. HandMarks = {} /\ HandEvents = {}
  BY DEF HandMarks, HandEvents, NoFrame
<1>5. HandMarks' = {Mark(hand')} /\ HandEvents' = IF hand'.kind = "event" THEN {hand'.seq} ELSE {}
  <2>1. hand' # NoFrame
    BY <1>2, NoteKinds
  <2>2. (Mark(hand))' = Mark(hand')
    BY DEF Mark
  <2> QED BY <2>1, <2>2 DEF HandMarks, HandEvents
<1>6. Fore' = Fore /\ ForeEvents' = ForeEvents
  BY <1>3, <1>4, <1>5 DEF Fore, ForeEvents
<1>7. ForeOrdered'
  BY <1>1, <1>3, <1>5, <1>6, HostStays DEF ForeOrdered
<1> QED BY <1>2, <1>3, <1>6, <1>7

\* The iterator takes the head of the queue, or finds it empty.
LEMMA TakesHeadKeeps ==
  ASSUME FInv, UNCHANGED <<vars, to_client, to_host, sdk, last_sequence, gap_mark, live, ranges, held, queue_state,
                           retired, ack_cursor, submissions, recovery, seen>>,
         hand = NoFrame, iterator \in {"next", "waiting"}, SubmitPhases',
         \/ queue # <<>> /\ hand' = Head(queue) /\ queue' = Tail(queue) /\ iterator' = "handed"
         \/ /\ iterator' \in {"done", "waiting"} /\ UNCHANGED <<hand, queue>>
            /\ iterator' = "waiting" => queue = <<>> /\ ~ Java
  PROVE  FInv'
<1>0. /\ QueueTyped /\ AckTyped /\ AppTyped /\ WireTyped /\ IteratorPhases /\ ForeOrdered
  BY PartsHold
<1>1. Consumed' /\ AckTyped' /\ seen \in Nat /\ ack_cursor \in Nat /\ to_host' \in Seq(Messages)
  BY <1>0, ConsumedGrows, StepBefore DEF AppTyped, AckTyped, WireTyped
<1>2. CASE queue # <<>> /\ hand' = Head(queue) /\ queue' = Tail(queue) /\ iterator' = "handed"
  <2>1. /\ hand' \in Notes /\ queue' \in Seq(Notes) /\ OneGap(queue')
        /\ ForeOrdered' /\ Fore' = Fore /\ ForeEvents' = ForeEvents
    BY <1>2, TakenFromQueue
  <2>2. QueueTyped' /\ AppTyped' /\ IteratorPhases'
    BY <1>0, <1>2, <2>1, NoteKinds DEF QueueTyped, AppTyped, IteratorPhases
  <2> QED BY <1>1, <2>1, <2>2, ForeMovesKeeps
<1>3. CASE /\ iterator' \in {"done", "waiting"} /\ UNCHANGED <<hand, queue>>
           /\ iterator' = "waiting" => queue = <<>> /\ ~ Java
  <2>1. UNCHANGED <<Fore, ForeEvents, HandMarks, Marks(queue), Rising(queue), OneGap(queue)>>
    BY <1>3, ForeStays
  <2>2. ForeOrdered' /\ QueueTyped' /\ AppTyped' /\ IteratorPhases'
    BY <1>0, <1>3, <2>1, HostStays DEF ForeOrdered, QueueTyped, AppTyped, IteratorPhases, Java
  <2> QED BY <1>1, <2>1, <2>2, ForeMovesKeeps
<1> QED BY <1>2, <1>3

\* Python and TypeScript.
LEMMA GetKeeps ==
  ASSUME FInv, ~ Java, Get
  PROVE  FInv'
<1>1. hand = NoFrame /\ iterator \in {"next", "waiting"}
  BY PartsHold DEF Get, IteratorPhases
<1>2. SubmitPhases'
  BY <1>1, PartsHold DEF SubmitPhases, Java, Get, wires, feed, acking
<1> QED BY <1>1, <1>2, TakesHeadKeeps DEF Get, wires, feed, acking

\* Java: the drain hands it out.
LEMMA DrainKeeps ==
  ASSUME FInv, Java, Drain
  PROVE  FInv'
<1>1. hand = NoFrame /\ iterator = "next"
  BY PartsHold DEF Drain, IteratorPhases
<1>2. SubmitPhases'
  BY DEF SubmitPhases, Java, Drain, feed
<1> QED BY <1>1, <1>2, TakesHeadKeeps DEF Drain, wires, feed, acking

\* The iterator consumes or faces what it has in hand, or is done with it.
LEMMA HandMovesKeeps ==
  ASSUME FInv, UNCHANGED <<vars, to_client, sdk, last_sequence, gap_mark, live, ranges, held, queue, queue_state,
                           retired, ack_cursor, recovery>>,
         AckTyped', SubmitPhases', Consumed', to_host' \in Seq(Messages),
         seen' \in 0 .. Terminal, seen' >= seen,
         iterator \notin {"next", "waiting", "done"},
         \/ /\ hand' = hand /\ iterator' \in {"ack", "acking", "gap"}
            /\ iterator' = "gap" => hand.kind = "gap"
            /\ iterator' \in {"ack", "acking"} => hand.kind = "event" /\ hand.seq <= seen'
         \/ hand' = NoFrame /\ iterator' = "next" /\ Mark(hand) <= seen'
  PROVE  FInv'
<1>0. /\ QueueTyped /\ AckTyped /\ AppTyped /\ IteratorPhases /\ ForeOrdered
  BY PartsHold
<1>1. hand \in Notes /\ Mark(hand) \in Nat /\ hand # NoFrame
  <2>1. hand # NoFrame
    BY <1>0 DEF IteratorPhases
  <2> QED BY <1>0, <2>1, NoteKinds DEF AppTyped
<1>2. QueueTyped' /\ ack_cursor \in Nat
  BY <1>0, StepBefore DEF QueueTyped
<1>3. UNCHANGED <<Marks(queue), EventMarks(queue), Rising(queue), OneGap(queue)>>
  BY DEF Marks, EventMarks, Rising, Places, OneGap
<1>4. CASE /\ hand' = hand /\ iterator' \in {"ack", "acking", "gap"}
           /\ iterator' = "gap" => hand.kind = "gap"
           /\ iterator' \in {"ack", "acking"} => hand.kind = "event" /\ hand.seq <= seen'
  <2>1. UNCHANGED <<Fore, ForeEvents, HandMarks>>
    BY <1>4, ForeStays
  <2>2. ForeOrdered' /\ AppTyped' /\ IteratorPhases'
    BY <1>0, <1>1, <1>3, <1>4, <2>1, HostStays DEF ForeOrdered, AppTyped, IteratorPhases
  <2> QED BY <1>2, <2>1, <2>2, ForeMovesKeeps
<1>5. CASE hand' = NoFrame /\ iterator' = "next" /\ Mark(hand) <= seen'
  <2>1. HandMarks = {Mark(hand)} /\ HandMarks' = {} /\ HandEvents' = {}
    BY <1>1, <1>5 DEF HandMarks, HandEvents, NoFrame
  <2>2. Fore' = Marks(queue) /\ ForeEvents' = EventMarks(queue)
    BY <1>3, <2>1 DEF Fore, ForeEvents
  <2>3. /\ Fore' \subseteq Fore /\ ForeEvents' \subseteq ForeEvents /\ \A d \in Fore \ Fore' : d <= seen'
    BY <1>5, <2>1, <2>2 DEF Fore, ForeEvents
  <2>4. ForeOrdered'
    BY <1>0, <1>3, <2>1, <2>3, HostStays DEF ForeOrdered, Below
  <2>5. AppTyped' /\ IteratorPhases'
    BY <1>0, <1>3, <1>5 DEF AppTyped, IteratorPhases
  <2> QED BY <1>2, <2>3, <2>4, <2>5, ForeMovesKeeps
<1> QED BY <1>4, <1>5

\* The steps of the iterator that submit nothing.
LEMMA IteratesKeeps ==
  ASSUME FInv, IteratorOnly, Skip \/ ConsumeEvent \/ FaceGap \/ LeaveGap \/ OnNext
  PROVE  FInv'
<1>0. /\ QueueTyped /\ AckTyped /\ AppTyped /\ IteratorPhases /\ SubmitPhases /\ WireTyped
  BY PartsHold
<1>1. UNCHANGED <<vars, to_client, to_host, sdk, last_sequence, gap_mark, live, ranges, held, queue, queue_state,
                  retired, ack_cursor, submissions, recovery>>
  BY DEF IteratorOnly, wires, feed, mail, acking
<1>2. iterator \in {"handed", "gap"}
  BY DEF Skip, ConsumeEvent, FaceGap, LeaveGap, OnNext
<1>3. hand \in Notes /\ Mark(hand) \in 1 .. Terminal /\ (hand.kind = "event" => hand.seq = Mark(hand))
      /\ (hand.kind = "gap" => hand.watermark = Mark(hand)) /\ hand.kind \in {"event", "gap"}
  <2>1. hand # NoFrame
    BY <1>0, <1>2 DEF IteratorPhases
  <2> QED BY <1>0, <2>1, NoteKinds DEF AppTyped
<1>4. seen \in 0 .. Terminal /\ ack_cursor \in Nat /\ ack_cursor <= seen /\ Terminal \in Nat
  BY <1>0, StepBefore DEF AppTyped
<1>5. SubmitPhases'
  BY <1>0, <1>1, <1>2 DEF SubmitPhases, Java
<1>6. AckTyped' /\ to_host' \in Seq(Messages)
  BY <1>0, <1>1 DEF AckTyped, WireTyped
<1>7. CASE Skip
  <2>1. Mark(hand) <= seen /\ seen' = seen /\ hand' = NoFrame /\ iterator' = "next"
    BY <1>3, <1>4, <1>7 DEF Skip, Covered, Mark
  <2>2. Consumed'
    BY <1>1, <1>4, <2>1, ConsumedGrows
  <2> QED BY <1>1, <1>2, <1>4, <1>5, <1>6, <2>1, <2>2, HandMovesKeeps
<1>8. CASE LeaveGap
  <2>1. Mark(hand) <= seen /\ seen' = seen /\ hand' = NoFrame /\ iterator' = "next"
    BY <1>0, <1>3, <1>4, <1>8 DEF LeaveGap, IteratorPhases
  <2>2. Consumed'
    BY <1>1, <1>4, <2>1, ConsumedGrows
  <2> QED BY <1>1, <1>2, <1>4, <1>5, <1>6, <2>1, <2>2, HandMovesKeeps
<1>9. CASE /\ iterator = "handed" /\ hand.kind = "event" /\ seen' = Larger(seen, hand.seq) /\ iterator' = "ack" /\ hand' = hand
  <2>1. seen' \in 0 .. Terminal /\ seen' >= seen /\ hand.seq <= seen'
    BY <1>3, <1>4, <1>9 DEF Larger
  <2>2. Consumed'
    BY <1>1, <1>4, <2>1, ConsumedGrows
  <2> QED BY <1>1, <1>2, <1>5, <1>6, <1>9, <2>1, <2>2, HandMovesKeeps
<1>10. CASE /\ iterator = "handed" /\ hand.kind = "gap" /\ UNCHANGED <<seen, hand>> /\ iterator' = "gap"
  <2>1. Consumed'
    BY <1>1, <1>4, <1>10, ConsumedGrows
  <2> QED BY <1>1, <1>2, <1>4, <1>5, <1>6, <1>10, <2>1, HandMovesKeeps
<1> QED BY <1>7, <1>8, <1>9, <1>10 DEF ConsumeEvent, FaceGap, OnNext
--------
(* ACKs and the recovery. *)

\* Only the two tasks of the application move, and what they submit.
LEMMA TasksMoveKeeps ==
  ASSUME FInv, UNCHANGED <<vars, to_client, sdk, last_sequence, gap_mark, live, ranges, held, queue, queue_state,
                           iterator, hand, seen, ack_cursor>>,
         AckTyped', recovery' \in {"idle", "requested", "consumed", "acking"}, to_host' \in Seq(Messages),
         SubmitPhases', Consumed'
  PROVE  FInv'
<1>0. /\ QueueTyped /\ AppTyped /\ IteratorPhases /\ ForeOrdered /\ seen \in Nat /\ ack_cursor \in Nat
  BY PartsHold, StepBefore
<1>1. UNCHANGED <<Fore, ForeEvents, HandMarks, Marks(queue), Rising(queue), OneGap(queue)>>
  BY ForeStays
<1>2. QueueTyped' /\ AppTyped' /\ IteratorPhases' /\ ForeOrdered'
  BY <1>0, <1>1, HostStays DEF QueueTyped, AppTyped, IteratorPhases, ForeOrdered, Java
<1> QED BY <1>0, <1>1, <1>2, ForeMovesKeeps

\* Submitting an ACK adds one request for something consumed.
LEMMA SubmitAdds ==
  ASSUME FInv, UNCHANGED <<vars, to_host, retired, ack_cursor, seen>>, NEW by \in Tasks, NEW acked \in 1 .. seen,
         Submit(by, acked)
  PROVE  /\ AckTyped' /\ Consumed' /\ to_host' \in Seq(Messages)
         /\ \E e : submissions' = submissions \union {e} /\ e.task = by
<1> DEFINE e == [task     |-> by,
          seq      |-> acked,
          covered  |-> ReplayCovers(acked) /\ acked > last_sequence,
          observed |-> \/ ReplayCovers(acked) \/ acked = gap_mark
                       \/ acked <= ack_cursor \/ acked \in live,
          written  |-> FALSE]
<1>0. AckTyped /\ AppTyped /\ WireTyped /\ Consumed /\ Terminal \in Nat
  BY PartsHold, Constants
<1>1. acked \in 0 .. Terminal
  BY <1>0 DEF AppTyped
<1>2. submissions' = submissions \union {e} /\ e.task = by /\ e.seq = acked
  BY DEF Submit
<1>3. e \in Submissions
  <2>1. (ReplayCovers(acked) /\ acked > last_sequence) \in BOOLEAN
    OBVIOUS
  <2>2. (ReplayCovers(acked) \/ acked = gap_mark \/ acked <= ack_cursor \/ acked \in live) \in BOOLEAN
    OBVIOUS
  <2> QED BY <1>1, <2>1, <2>2 DEF Submissions
<1> HIDE DEF e
<1>4. AckTyped' /\ to_host' \in Seq(Messages)
  BY <1>0, <1>2, <1>3 DEF AckTyped, WireTyped
<1>5. Consumed'
  BY <1>0, <1>2, HostStays DEF Consumed
<1> QED BY <1>2, <1>4, <1>5

\* Python and TypeScript: the iterator submits the ACK of its event and waits.
LEMMA IteratorAcksKeeps ==
  ASSUME FInv, ~ Java, IteratorAcks
  PROVE  FInv'
<1>0. /\ AckTyped /\ AppTyped /\ IteratorPhases /\ SubmitPhases /\ WireTyped
  BY PartsHold
<1>1. UNCHANGED <<vars, to_client, to_host, sdk, last_sequence, gap_mark, live, ranges, held, queue, queue_state,
                  retired, ack_cursor, recovery, seen>>
  BY DEF IteratorAcks, wires, feed, mail
<1>2. iterator = "ack" /\ hand.kind = "event" /\ hand.seq <= seen /\ hand.seq = Mark(hand) /\ hand.seq \in 1 .. seen
      /\ seen \in 0 .. Terminal /\ seen \in Nat
  BY <1>0, NoteKinds, StepBefore DEF IteratorAcks, IteratorPhases, AppTyped, NoFrame
<1>3. CASE Submit("iterator", hand.seq) /\ iterator' = "acking" /\ UNCHANGED hand
  <2>1. "iterator" \in Tasks
    BY DEF Tasks
  <2>2. PICK e : submissions' = submissions \union {e} /\ e.task = "iterator"
    BY <1>1, <1>2, <1>3, <2>1, SubmitAdds
  <2>3. AckTyped' /\ Consumed' /\ to_host' \in Seq(Messages)
    BY <1>1, <1>2, <1>3, <2>1, SubmitAdds
  <2>4. \A s \in submissions : s.task # "iterator"
    BY <1>0, <1>2 DEF SubmitPhases
  <2>5. SubmitPhases'
    BY <1>3, <2>2, <2>4 DEF SubmitPhases
  <2> QED BY <1>1, <1>2, <1>3, <2>3, <2>5, HandMovesKeeps
<1>4. CASE UNCHANGED submissions /\ iterator' = "next" /\ hand' = NoFrame
  <2>1. Consumed' /\ AckTyped' /\ to_host' \in Seq(Messages)
    BY <1>0, <1>1, <1>2, <1>4, ConsumedGrows DEF AckTyped, WireTyped
  <2>2. SubmitPhases'
    BY <1>0, <1>1, <1>2, <1>4 DEF SubmitPhases, Java
  <2> QED BY <1>1, <1>2, <1>4, <2>1, <2>2, HandMovesKeeps
<1> QED BY <1>3, <1>4 DEF IteratorAcks

\* Java: the iterator submits the ACK of its event and goes on.
LEMMA AcknowledgeEventKeeps ==
  ASSUME FInv, Java, AcknowledgeEvent
  PROVE  FInv'
<1>0. /\ AckTyped /\ AppTyped /\ IteratorPhases /\ WireTyped
  BY PartsHold
<1>1. UNCHANGED <<vars, to_client, to_host, sdk, last_sequence, gap_mark, live, ranges, held, queue, queue_state,
                  retired, ack_cursor, recovery, seen>>
  BY DEF AcknowledgeEvent, wires, feed, mail
<1>2. iterator = "ack" /\ hand.kind = "event" /\ hand.seq <= seen /\ hand.seq = Mark(hand) /\ hand.seq \in 1 .. seen
      /\ seen \in 0 .. Terminal /\ seen \in Nat
  BY <1>0, NoteKinds, StepBefore DEF AcknowledgeEvent, IteratorPhases, AppTyped, NoFrame
<1>3. Submit("iterator", hand.seq) /\ iterator' = "next" /\ hand' = NoFrame /\ "iterator" \in Tasks
  BY DEF AcknowledgeEvent, Tasks
<1>4. AckTyped' /\ Consumed' /\ to_host' \in Seq(Messages)
  BY <1>1, <1>2, <1>3, SubmitAdds
<1>5. SubmitPhases'
  BY <1>1 DEF SubmitPhases, Java
<1> QED BY <1>1, <1>2, <1>3, <1>4, <1>5, HandMovesKeeps

\* The recovery acknowledges what the application has seen.
LEMMA RecoveryAcksKeeps ==
  ASSUME FInv, RecoveryAcks
  PROVE  FInv'
<1>0. /\ AckTyped /\ AppTyped /\ SubmitPhases /\ WireTyped
  BY PartsHold
<1>1. UNCHANGED <<vars, to_client, to_host, sdk, last_sequence, gap_mark, live, ranges, held, queue, queue_state,
                  retired, ack_cursor, iterator, hand, seen>>
  BY DEF RecoveryAcks, wires, feed, mail
<1>2. seen \in Nat /\ ack_cursor \in Nat
  BY StepBefore
<1>3. CASE seen > ack_cursor /\ Submit("recovery", seen) /\ recovery' = "acking"
  <2>1. "recovery" \in Tasks /\ seen \in 1 .. seen
    BY <1>2, <1>3 DEF Tasks
  <2>2. PICK e : submissions' = submissions \union {e} /\ e.task = "recovery"
    BY <1>1, <1>3, <2>1, SubmitAdds
  <2>3. AckTyped' /\ Consumed' /\ to_host' \in Seq(Messages)
    BY <1>1, <1>3, <2>1, SubmitAdds
  <2>4. SubmitPhases'
    BY <1>0, <1>1, <2>2 DEF SubmitPhases, Java
  <2> QED BY <1>1, <1>3, <2>3, <2>4, TasksMoveKeeps
<1>4. CASE UNCHANGED submissions /\ recovery' = "idle"
  <2>1. Consumed' /\ AckTyped' /\ to_host' \in Seq(Messages)
    BY <1>0, <1>1, <1>2, <1>4, ConsumedGrows DEF AckTyped, WireTyped
  <2>2. SubmitPhases'
    BY <1>0, <1>1, <1>4 DEF SubmitPhases, Java
  <2> QED BY <1>1, <1>4, <2>1, <2>2, TasksMoveKeeps
<1> QED BY <1>3, <1>4 DEF RecoveryAcks

\* The recovery asks for a page.
LEMMA RecoverKeeps ==
  ASSUME FInv, Recover
  PROVE  FInv'
<1>0. /\ AckTyped /\ AppTyped /\ SubmitPhases /\ WireTyped /\ Consumed
  BY PartsHold
<1>1. UNCHANGED <<vars, to_client, sdk, last_sequence, gap_mark, live, ranges, held, queue, queue_state,
                  retired, ack_cursor, submissions, iterator, hand, seen>>
  BY DEF Recover, feed, mail, acking
<1>2. to_host' = Append(to_host, ReplayRequest(seen, MaxReplayEvents)) /\ recovery' = "requested"
  BY DEF Recover
<1>3. ReplayRequest(seen, MaxReplayEvents) \in Messages
  BY <1>0 DEF ReplayRequest, Messages, AppTyped
<1>4. to_host' \in Seq(Messages)
  BY <1>0, <1>2, <1>3 DEF WireTyped
<1>5. \A i \in DOMAIN to_host' : to_host'[i].kind = "ack" => to_host'[i].seq <= seen
  <2> SUFFICES ASSUME NEW i \in DOMAIN to_host', to_host'[i].kind = "ack" PROVE to_host'[i].seq <= seen
    OBVIOUS
  <2>1. i \in DOMAIN to_host /\ to_host'[i] = to_host[i]
    BY <1>0, <1>2 DEF WireTyped, ReplayRequest
  <2> QED BY <1>0, <2>1 DEF Consumed
<1>6. Consumed'
  BY <1>0, <1>1, <1>5, HostStays DEF Consumed
<1>7. AckTyped' /\ SubmitPhases'
  BY <1>0, <1>1 DEF AckTyped, SubmitPhases, Java
<1> QED BY <1>1, <1>2, <1>4, <1>6, <1>7, TasksMoveKeeps

\* A submitted ACK is written to the wire.
LEMMA WriteKeeps ==
  ASSUME FInv, NEW sent \in submissions, Write(sent)
  PROVE  FInv'
<1> DEFINE after == [sent EXCEPT !.written = TRUE]
<1>0. /\ AckTyped /\ AppTyped /\ SubmitPhases /\ WireTyped /\ Consumed
  BY PartsHold
<1>1. UNCHANGED <<vars, to_client, sdk, last_sequence, gap_mark, live, ranges, held, queue, queue_state,
                  retired, ack_cursor, iterator, hand, seen, recovery>>
  BY DEF Write, feed, mail, app
<1>2. /\ to_host' = Append(to_host, AckRequest(sent.seq))
      /\ submissions' = (submissions \ {sent}) \union {after}
  BY DEF Write
<1>3. sent \in Submissions /\ sent.seq \in 1 .. seen /\ seen \in 0 .. Terminal
  BY <1>0 DEF AckTyped, Consumed, AppTyped
<1>4. after \in Submissions /\ after.seq = sent.seq /\ after.task = sent.task
  BY <1>3 DEF Submissions
<1>5. AckRequest(sent.seq) \in Messages
  BY <1>3, Constants DEF AckRequest, Messages
<1> HIDE DEF after
<1>6. to_host' \in Seq(Messages)
  BY <1>0, <1>2, <1>5 DEF WireTyped
<1>7. \A i \in DOMAIN to_host' : to_host'[i].kind = "ack" => to_host'[i].seq <= seen
  <2> SUFFICES ASSUME NEW i \in DOMAIN to_host', to_host'[i].kind = "ack" PROVE to_host'[i].seq <= seen
    OBVIOUS
  <2>1. \/ i \in DOMAIN to_host /\ to_host'[i] = to_host[i]
        \/ to_host'[i] = AckRequest(sent.seq)
    BY <1>0, <1>2 DEF WireTyped
  <2> QED BY <1>0, <1>3, <2>1 DEF Consumed, AckRequest
<1>8. Consumed'
  <2>1. \A s \in submissions' : s.seq \in 1 .. seen'
    BY <1>0, <1>1, <1>2, <1>3, <1>4 DEF Consumed
  <2> QED BY <1>0, <1>1, <1>7, <2>1, HostStays DEF Consumed
<1>9. AckTyped'
  BY <1>0, <1>1, <1>2, <1>4 DEF AckTyped
<1>10. SubmitPhases'
  <2> SUFFICES ASSUME ~ Java, NEW s \in submissions', NEW t \in submissions', s.task = "iterator"
               PROVE  iterator = "acking" /\ (t.task = "iterator" => s = t)
    BY <1>1 DEF SubmitPhases, Java
  <2>1. \A u, w \in submissions :
              u.task = "iterator" => iterator = "acking" /\ (w.task = "iterator" => u = w)
    BY <1>0 DEF SubmitPhases
  <2> QED BY <1>2, <1>4, <2>1
<1>11. recovery' \in {"idle", "requested", "consumed", "acking"}
  BY <1>0, <1>1 DEF AppTyped
<1> QED BY <1>1, <1>6, <1>8, <1>9, <1>10, <1>11, TasksMoveKeeps

\* An ACK commits, or is found to prove nothing.
LEMMA DiscardKeeps ==
  ASSUME FInv, UNCHANGED <<vars, to_client, to_host, sdk, gap_mark, live, ranges, held, seen>>,
         NEW cursor \in ack_cursor .. seen,
         \/ Discards(cursor) /\ ack_cursor' = cursor /\ last_sequence' = Larger(last_sequence, cursor)
         \/ UNCHANGED <<queue, ack_cursor, last_sequence>>,
         retired' \in Nat, retired' <= ack_cursor',
         queue_state' \in {"open", "closed", "failed"}, queue_state' = "open" => queue_state = "open",
         submissions' \subseteq submissions, SubmitPhases',
         recovery' \in {"idle", "requested", "consumed", "acking"},
         \/ UNCHANGED <<hand, iterator>>
         \/ hand' = NoFrame /\ iterator' = "next" /\ Mark(hand) <= seen
  PROVE  FInv'
<1>0. /\ FeedTyped /\ QueueTyped /\ AckTyped /\ AppTyped /\ WireTyped /\ LaneTyped
      /\ IteratorPhases /\ ForeOrdered /\ RearOrdered /\ Latest /\ Consumed /\ (Java => Len(held) <= 1)
  BY PartsHold
<1>1. /\ seen \in 0 .. Terminal /\ Terminal \in Nat /\ ack_cursor \in Nat /\ cursor \in Nat /\ cursor <= seen
      /\ last_sequence \in 0 .. Terminal /\ ack_cursor <= cursor
  BY <1>0, StepBefore DEF AppTyped, FeedTyped
<1>2. /\ queue' \in Seq(Notes) /\ OneGap(queue') /\ Rising(queue')
      /\ Marks(queue') \subseteq Marks(queue) /\ EventMarks(queue') \subseteq EventMarks(queue)
      /\ \A d \in Marks(queue) \ Marks(queue') : d <= seen
      /\ queue = <<>> => queue' = <<>>
  <2>1. CASE Discards(cursor)
    <3>1. Marks(queue) \subseteq Nat
      BY PipelineTyped DEF FInv
    <3> QED BY <1>1, <2>1, <3>1 DEF Discards
  <2>2. CASE queue' = queue
    BY <1>0, <2>2 DEF QueueTyped, IteratorPhases, ForeOrdered
  <2> QED BY <2>1, <2>2
<1>3. HandMarks' \subseteq HandMarks /\ HandEvents' \subseteq HandEvents /\ \A d \in HandMarks \ HandMarks' : d <= seen
  <2>1. CASE hand' = hand
    BY <2>1 DEF HandMarks, HandEvents
  <2>2. CASE hand' = NoFrame /\ Mark(hand) <= seen
    BY <2>2 DEF HandMarks, HandEvents, NoFrame
  <2> QED BY <2>1, <2>2
<1>4. /\ Fore' \subseteq Fore /\ ForeEvents' \subseteq ForeEvents /\ \A d \in Fore \ Fore' : d <= seen
  BY <1>2, <1>3 DEF Fore, ForeEvents
<1>5. ForeOrdered'
  BY <1>0, <1>2, <1>3, <1>4, HostStays DEF ForeOrdered, Below
<1>6. /\ UNCHANGED <<Marks(to_client), EventMarks(to_client), Rising(to_client), HeldMarks, HeldEvents, HeldRising>>
  BY HeldStays, WireStays
<1>7. Rear' = Rear /\ RearEvents' = RearEvents
  BY <1>6 DEF Rear, RearEvents
<1>8. Ordered' /\ Chained'
  <2>1. RearOrdered'
    BY <1>0, <1>6, <1>7, HostStays DEF RearOrdered
  <2>2. Thins
    BY <1>1, <1>4, <1>5, <1>7, <2>1 DEF Thins
  <2> QED BY <2>2, ThinningKeeps
<1>9. ack_cursor' \in 0 .. seen /\ last_sequence' \in 0 .. Terminal
  BY <1>1 DEF Larger
<1>10. Latest'
  <2>1. CASE UNCHANGED <<ack_cursor, last_sequence>>
    BY <1>0, <1>6, <2>1, HostStays DEF Latest, Java
  <2>2. CASE ack_cursor' = cursor /\ last_sequence' = Larger(last_sequence, cursor)
    <3>1. CASE last_sequence <= cursor
      BY <1>1, <2>2, <3>1 DEF Latest, Larger
    <3>2. CASE ~ (last_sequence <= cursor)
      <4>1. last_sequence' = last_sequence /\ ~ (last_sequence <= ack_cursor)
        BY <1>1, <2>2, <3>2 DEF Larger
      <4> QED BY <1>0, <1>6, <4>1, HostStays DEF Latest, Java
    <3> QED BY <3>1, <3>2
  <2> QED BY <2>1, <2>2
<1>11. Parts'
  <2>1. FeedTyped' /\ QueueTyped' /\ AckTyped' /\ WireTyped' /\ LaneTyped' /\ (Java => Len(held) <= 1)'
    <3>1. retired' \in 0 .. Terminal /\ ack_cursor' \in 0 .. Terminal
      BY <1>1, <1>9
    <3> QED BY <1>0, <1>2, <1>9, <3>1 DEF FeedTyped, QueueTyped, AckTyped, WireTyped, LaneTyped, Java
  <2>2. AppTyped' /\ IteratorPhases'
    BY <1>0, <1>2 DEF AppTyped, IteratorPhases, Java
  <2> QED BY <2>1, <2>2 DEF Parts
<1>12. Consumed'
  BY <1>0, <1>1, <1>9, HostStays DEF Consumed
<1> QED BY <1>8, <1>10, <1>11, <1>12, PartsMake

\* Python and TypeScript: an ACK that was written settles.
LEMMA CommitAckKeeps ==
  ASSUME FInv, ~ Java, NEW sent \in submissions, CommitAck(sent)
  PROVE  FInv'
<1> DEFINE cursor == Larger(ack_cursor, sent.seq)
<1>0. /\ FeedTyped /\ QueueTyped /\ AckTyped /\ AppTyped /\ IteratorPhases /\ SubmitPhases /\ Consumed
  BY PartsHold
<1>1. UNCHANGED <<vars, to_client, to_host, sdk, gap_mark, live, ranges, held, seen>>
  BY DEF CommitAck, wires
<1>2. submissions' = submissions \ {sent}
  BY DEF CommitAck
<1>3. seen \in Nat /\ ack_cursor \in Nat /\ retired \in Nat /\ ack_cursor <= seen /\ retired <= ack_cursor /\ sent.seq \in 1 .. seen
  BY <1>0, StepBefore DEF Consumed
<1>4. cursor \in ack_cursor .. seen /\ cursor \in Nat
  BY <1>3 DEF Larger
<1>6. /\ SubmitPhases' /\ recovery' \in {"idle", "requested", "consumed", "acking"}
      /\ \/ UNCHANGED <<hand, iterator>>
         \/ hand' = NoFrame /\ iterator' = "next" /\ Mark(hand) <= seen
  <2>1. CASE sent.task = "iterator"
    <3>1. iterator' = "next" /\ hand' = NoFrame /\ UNCHANGED recovery
      BY <2>1 DEF CommitAck
    <3>2. iterator = "acking" /\ \A s \in submissions : s.task = "iterator" => s = sent
      BY <1>0, <2>1 DEF SubmitPhases
    <3>3. hand.kind = "event" /\ Mark(hand) <= seen
      BY <1>0, <3>2 DEF IteratorPhases, Mark
    <3>4. SubmitPhases'
      BY <1>2, <3>2 DEF SubmitPhases
    <3> QED BY <1>0, <3>1, <3>3, <3>4 DEF AppTyped
  <2>2. CASE sent.task # "iterator"
    <3>1. recovery' = "idle" /\ UNCHANGED <<iterator, hand>>
      BY <2>2 DEF CommitAck
    <3>2. SubmitPhases'
      BY <1>0, <1>1, <1>2, <3>1 DEF SubmitPhases, Java
    <3> QED BY <3>1, <3>2
  <2> QED BY <2>1, <2>2
<1>5. CASE sent.observed
  <2>1. /\ ack_cursor' = cursor /\ last_sequence' = Larger(last_sequence, cursor)
        /\ retired' = Larger(retired, cursor) /\ queue' = AfterDiscard(cursor)
        /\ queue_state' = IF queue_state = "open" /\ EndsFeed(cursor) THEN "closed" ELSE queue_state
    BY <1>5 DEF CommitAck
  <2>2. Discards(cursor)
    BY <1>4, <2>1, AfterDiscardDiscards
  <2>3. retired' \in Nat /\ retired' <= ack_cursor'
    BY <1>3, <1>4, <2>1 DEF Larger
  <2>4. queue_state' \in {"open", "closed", "failed"} /\ (queue_state' = "open" => queue_state = "open")
    BY <1>0, <2>1 DEF QueueTyped
  <2> QED BY <1>1, <1>2, <1>4, <1>6, <2>1, <2>2, <2>3, <2>4, DiscardKeeps
<1>7. CASE ~ sent.observed
  <2>1. UNCHANGED <<ack_cursor, last_sequence, retired, queue, queue_state>>
    BY <1>7 DEF CommitAck
  <2> QED BY <1>0, <1>1, <1>2, <1>3, <1>4, <1>6, <2>1, DiscardKeeps DEF QueueTyped
<1> QED BY <1>5, <1>7

\* Java: an ACK that was written settles.
LEMMA CommitsKeeps ==
  ASSUME FInv, Java, NEW sent \in submissions, Commits(sent)
  PROVE  FInv'
<1> DEFINE cursor == Larger(ack_cursor, sent.seq)
<1>0. /\ QueueTyped /\ AppTyped /\ Consumed
  BY PartsHold
<1>1. UNCHANGED <<vars, to_client, to_host, sdk, gap_mark, live, ranges, held, seen, retired, iterator, hand>>
  BY DEF Commits, wires
<1>2. submissions' = submissions \ {sent} /\ recovery' = IF sent.task = "recovery" THEN "idle" ELSE recovery
  BY DEF Commits
<1>3. seen \in Nat /\ ack_cursor \in Nat /\ retired \in Nat /\ ack_cursor <= seen /\ retired <= ack_cursor /\ sent.seq \in 1 .. seen
  BY <1>0, StepBefore DEF Consumed
<1>4. cursor \in ack_cursor .. seen /\ cursor \in Nat
  BY <1>3 DEF Larger
<1>5. SubmitPhases' /\ recovery' \in {"idle", "requested", "consumed", "acking"}
  BY <1>0, <1>1, <1>2 DEF SubmitPhases, Java, AppTyped
<1>6. CASE /\ ack_cursor' = cursor /\ last_sequence' = Larger(last_sequence, cursor) /\ queue' = Retained(cursor)
           /\ queue_state' = IF queue_state = "open" /\ EndsFeed(sent.seq) THEN "closed" ELSE queue_state
  <2>1. Discards(cursor)
    BY <1>4, <1>6, RetainedDiscards
  <2>2. retired' \in Nat /\ retired' <= ack_cursor'
    BY <1>1, <1>3, <1>4, <1>6
  <2>3. queue_state' \in {"open", "closed", "failed"} /\ (queue_state' = "open" => queue_state = "open")
    BY <1>0, <1>6 DEF QueueTyped
  <2> QED BY <1>1, <1>2, <1>4, <1>5, <1>6, <2>1, <2>2, <2>3, DiscardKeeps
<1>7. CASE UNCHANGED <<ack_cursor, last_sequence, queue, queue_state>>
  BY <1>0, <1>1, <1>2, <1>3, <1>4, <1>5, <1>7, DiscardKeeps DEF QueueTyped
<1> QED BY <1>6, <1>7 DEF Commits
--------
(* The Java feed. *)

\* Java: the answer to a request is received, ahead of notifications.
LEMMA JavaReceivesKeeps ==
  ASSUME FInv, JavaReceives
  PROVE  FInv'
<1> PICK i \in DOMAIN to_client :
        /\ ~ Notification(to_client[i]) /\ AcceptAnswer(to_client[i]) /\ to_client' = RemoveAt(to_client, i)
        /\ UNCHANGED <<vars, to_host>>
  BY DEF JavaReceives
<1>1. to_client \in Seq(Frames) /\ Rising(to_client)
  BY PartsHold DEF WireTyped, RearOrdered
<1>2. to_client[i] \in Answers
  BY <1>1, NoteKinds DEF Frames
<1>3. /\ to_client' \in Seq(Frames) /\ Rising(to_client)'
      /\ UNCHANGED <<Marks(to_client), EventMarks(to_client)>>
  BY <1>1, WithoutAnswer
<1> QED BY <1>2, <1>3, AnswerKeeps

\* Java: a notification waits for the ACKs that were submitted before it.
LEMMA FenceKeeps ==
  ASSUME FInv, Fence
  PROVE  FInv'
<1> DEFINE x == Head(to_client)
           m == Mark(x)
           entry == [item |-> x, seq |-> x.seq, waits_for |-> Fences(x)]
<1>0. /\ FeedTyped /\ QueueTyped /\ LaneTyped /\ AckTyped /\ AppTyped /\ WireTyped
      /\ IteratorPhases /\ SubmitPhases /\ Consumed /\ RearOrdered /\ ForeOrdered /\ Latest
  BY PartsHold
<1>1. /\ to_client # <<>> /\ to_client' = Tail(to_client) /\ held = <<>> /\ held' = <<entry>>
      /\ UNCHANGED <<vars, to_host, sdk, last_sequence, gap_mark, live, ranges, queue, queue_state, retired,
                     ack_cursor, submissions, iterator, hand, recovery, seen>>
  BY DEF Fence, AtHead, Received, feed, acking, app
<1>2. x \in Notes /\ x.kind = "event" /\ m \in 1 .. Terminal /\ x.seq = m
  <2>1. x \in Frames /\ Notification(x)
    BY <1>0, <1>1, TailPicks DEF Fence, AtHead, WireTyped
  <2>2. x.kind = "event"
    BY DEF Fence, Fences
  <2> QED BY <2>1, <2>2, NoteKinds
<1>3. entry \in Entries /\ entry.item = x /\ entry.seq = m
  <2>1. Fences(x) \subseteq Tasks \X (0 .. Terminal)
    BY <1>0 DEF Fences, Predecessors, Named, AckTyped, Submissions
  <2> QED BY <1>2, <2>1 DEF Entries
<1> HIDE DEF entry
<1>4. held' = Append(held, entry) /\ Len(held') = 1
  BY <1>1
<1>5. /\ RearOrdered' /\ Rear' = Rear /\ RearEvents' = RearEvents /\ to_client' \in Seq(Frames) /\ LaneTyped'
      /\ Marks(to_client)' \subseteq Marks(to_client) /\ m \in Marks(to_client)
      /\ HeldMarks' = HeldMarks \union {m}
  BY <1>1, <1>3, <1>4, MovesUp
<1>6. UNCHANGED <<Fore, ForeEvents, HandMarks, Marks(queue), Rising(queue), OneGap(queue)>>
  BY <1>1, ForeStays
<1>7. Ordered' /\ Chained'
  <2>1. ForeOrdered'
    BY <1>0, <1>6, HostStays, <1>1 DEF ForeOrdered
  <2>2. Thins
    BY <1>0, <1>1, <1>5, <1>6, <2>1 DEF Thins, AppTyped
  <2> QED BY <1>1, <2>2, ThinningKeeps
<1>8. Latest'
  <2>1. HeldMarks = {}
    BY <1>1 DEF HeldMarks
  <2> QED BY <1>0, <1>1, <1>5, <2>1, HostStays DEF Latest, Java, Below
<1>9. Consumed'
  BY <1>0, <1>1, ConsumedGrows DEF AppTyped
<1>10. Parts'
  <2>1. FeedTyped' /\ QueueTyped' /\ AckTyped' /\ AppTyped' /\ WireTyped'
    BY <1>0, <1>1, <1>5 DEF FeedTyped, QueueTyped, AckTyped, AppTyped, WireTyped
  <2>2. IteratorPhases' /\ SubmitPhases'
    BY <1>0, <1>1, <1>6 DEF IteratorPhases, SubmitPhases, Java
  <2> QED BY <1>4, <1>5, <2>1, <2>2 DEF Parts
<1> QED BY <1>1, <1>7, <1>8, <1>9, <1>10, PartsMake

\* The item that leaves the lane is published.
LEMMA PublishKeeps ==
  ASSUME FInv, Java, NEW x \in Notes,
         UNCHANGED <<vars, to_host, sdk, ranges, retired, ack_cursor, submissions, iterator, hand, recovery, seen>>,
         Departs(Mark(x), x.kind = "event"), PublishItem(x),
         to_client' \in Seq(Frames), held' = <<>>, Marks(to_client)' \subseteq Marks(to_client),
         Mark(x) = last_sequence => Mark(x) <= seen
  PROVE  FInv'
<1> DEFINE m == Mark(x)
<1>0. /\ FeedTyped /\ QueueTyped /\ AckTyped /\ AppTyped /\ WireTyped
      /\ IteratorPhases /\ SubmitPhases /\ Consumed /\ ForeOrdered /\ Latest
  BY PartsHold
<1>1. /\ m \in 1 .. Terminal /\ (x.kind = "event" => x.seq = m) /\ (x.kind = "gap" => x.watermark = m)
      /\ x.kind \in {"event", "gap"} /\ (x.kind = "event" => EventFrame(m) = x)
  <2>1. /\ m \in 1 .. Terminal /\ (x.kind = "event" => x.seq = m) /\ (x.kind = "gap" => x.watermark = m)
        /\ x.kind \in {"event", "gap"}
    BY NoteKinds
  <2>2. x.kind = "event" => x \in Events
    BY DEF Notes, Notices
  <2> QED BY <2>1, <2>2 DEF Events, EventFrame
<1>2. ack_cursor <= seen /\ ack_cursor \in Nat /\ seen \in Nat /\ m \in Nat
  BY <1>1, StepBefore
<1>3. /\ HeldMarks' = {} /\ Below({m}, Marks(to_client)') /\ m <= Top
  <2>1. HeldMarks' = {}
    BY DEF HeldMarks
  <2>2. Marks(to_client)' \subseteq Rear'
    BY DEF Rear
  <2> QED BY <2>1, <2>2 DEF Departs, Below
<1>4. ASSUME Arrives(m, x.kind = "event"), queue' \in Seq(Notes), OneGap(queue'),
             last_sequence' \in {last_sequence, m}, gap_mark' \in {gap_mark, m}, live' \subseteq live \union {m},
             queue_state' \in {"open", "closed", "failed"}
      PROVE  FInv'
  <2>1. Ordered' /\ Chained'
    BY <1>4, ArrivalKeeps
  <2>2. Latest'
    <3>1. CASE last_sequence' = last_sequence
      BY <1>0, <1>3, <3>1, HostStays DEF Latest, Below
    <3>2. CASE last_sequence' = m
      BY <1>3, <3>2, HostStays DEF Latest, Below
    <3> QED BY <1>4, <3>1, <3>2
  <2>3. Consumed'
    BY <1>2, ConsumedGrows
  <2>4. FeedTyped' /\ QueueTyped' /\ AckTyped' /\ AppTyped' /\ WireTyped' /\ LaneTyped' /\ Len(held') <= 1
    <3>1. FeedTyped' /\ QueueTyped'
      BY <1>0, <1>1, <1>4 DEF FeedTyped, QueueTyped
    <3>2. AckTyped' /\ AppTyped'
      BY <1>0, <1>1, <1>4 DEF AckTyped, AppTyped
    <3>3. WireTyped' /\ LaneTyped'
      BY <1>0, <1>1, <1>4 DEF WireTyped, LaneTyped
    <3>4. Len(held') <= 1
      BY <1>0, <1>1, <1>4
    <3> QED BY <3>1, <3>2, <3>3, <3>4
  <2>5. IteratorPhases' /\ SubmitPhases'
    BY <1>0, <1>4 DEF IteratorPhases, SubmitPhases, Java
  <2> QED BY <2>1, <2>2, <2>3, <2>4, <2>5, PartsMake DEF Parts
<1>5. ASSUME UNCHANGED <<queue, last_sequence, gap_mark, live>>, queue_state' \in {queue_state, "closed"},
             queue_state' = "open" => m <= seen
      PROVE  FInv'
  <2>1. UNCHANGED <<Fore, ForeEvents, HandMarks, Marks(queue), Rising(queue), OneGap(queue)>>
    BY <1>5, ForeStays
  <2>2. ForeOrdered'
    BY <1>0, <2>1, HostStays DEF ForeOrdered
  <2>3. Arrives(m, x.kind = "event")
    BY <1>5, <2>1, <2>2 DEF Arrives
  <2> QED BY <1>0, <1>4, <1>5, <2>1, <2>3 DEF QueueTyped, IteratorPhases
<1>6. ASSUME Fail, last_sequence' \in {last_sequence, m}, gap_mark' \in {gap_mark, m}, live' \subseteq live \union {m}
      PROVE  FInv'
  <2>1. Arrives(m, x.kind = "event") /\ queue' \in Seq(Notes) /\ OneGap(queue')
    BY <1>6, FailingArrives DEF Fail
  <2> QED BY <1>4, <1>6, <2>1 DEF Fail
<1>7. ASSUME Enters(x), queue_state = "open", queue_state' \in {"open", "closed"},
             last_sequence' = m, gap_mark' \in {gap_mark, m}, live' \subseteq live \union {m}
      PROVE  FInv'
  <2>1. Arrives(m, x.kind = "event") /\ queue' \in Seq(Notes) /\ OneGap(queue')
    BY <1>7, EnteringArrives
  <2> QED BY <1>4, <1>7, <2>1
<1>8. CASE x.kind = "event" /\ PublishEvent(m) /\ UNCHANGED gap_mark
  <2> DEFINE passes == queue_state # "open" \/ m <= ack_cursor \/ m = last_sequence
  <2>1. CASE passes /\ ClosesAfter(m) /\ UNCHANGED <<last_sequence, live, queue>>
    <3>1. queue_state' \in {queue_state, "closed"} /\ (queue_state' = "open" => queue_state = "open")
      BY <2>1 DEF ClosesAfter
    <3>2. queue_state' = "open" => m <= seen
      BY <1>2, <2>1, <3>1
    <3> QED BY <1>5, <1>8, <2>1, <3>1, <3>2
  <2>2. CASE Fail /\ UNCHANGED <<last_sequence, live>>
    BY <1>6, <1>8, <2>2
  <2>3. CASE ~ passes /\ last_sequence' = m /\ live' = live \union {m} /\ queue' = Append(queue, EventFrame(m)) /\ ClosesAfter(m)
    <3>1. Enters(x)
      BY <1>1, <1>8, <2>3 DEF Enters
    <3>2. queue_state = "open" /\ queue_state' \in {"open", "closed"}
      BY <2>3 DEF ClosesAfter
    <3> QED BY <1>7, <1>8, <2>3, <3>1, <3>2
  <2>4. CASE last_sequence' = m /\ live' = live \union {m} /\ Fail
    BY <1>6, <1>8, <2>4
  <2> QED BY <1>8, <2>1, <2>2, <2>3, <2>4 DEF PublishEvent
<1>9. CASE x.kind = "gap" /\ PublishGap(x)
  <2> DEFINE passes == queue_state # "open" \/ m <= ack_cursor
  <2>1. CASE (passes \/ m = last_sequence) /\ UNCHANGED <<last_sequence, gap_mark, live, queue, queue_state>>
    <3>1. queue_state' = "open" => m <= seen
      BY <1>2, <2>1
    <3> QED BY <1>5, <2>1, <3>1
  <2>2. CASE Fail /\ UNCHANGED <<last_sequence, gap_mark, live>>
    BY <1>6, <2>2
  <2>3. CASE ~ passes /\ last_sequence' = m /\ gap_mark' = m /\ queue' = WithGap(x) /\ UNCHANGED <<queue_state, live>>
    <3>1. Enters(x)
      BY <1>9, <2>3 DEF Enters, WithGap
    <3> QED BY <1>7, <2>3, <3>1
  <2> QED BY <1>1, <1>9, <2>1, <2>2, <2>3 DEF PublishGap
<1> QED BY <1>1, <1>8, <1>9 DEF PublishItem

\* Java: the lane publishes its head.
LEMMA PublishesKeeps ==
  ASSUME FInv, Java, Publishes
  PROVE  FInv'
<1>1. UNCHANGED <<vars, to_host, sdk, ranges, retired, ack_cursor, submissions, iterator, hand, recovery, seen>>
  BY DEF Publishes, acking, app, Received, wires
<1>2. LaneTyped /\ WireTyped /\ Len(held) <= 1 /\ QueueTyped
  BY PartsHold
<1>3. CASE /\ AtHead /\ PublishItem(Head(to_client)) /\ Received /\ UNCHANGED held
  <2> DEFINE x == Head(to_client)
  <2>1. to_client # <<>> /\ to_client' = Tail(to_client) /\ held = <<>>
    BY <1>3 DEF AtHead, Received
  <2>2. x \in Notes
    <3>1. x \in Frames /\ Notification(x)
      BY <1>2, <1>3, <2>1, TailPicks DEF AtHead, WireTyped
    <3> QED BY <3>1, NoteKinds
  <2>3. /\ to_client' \in Seq(Frames) /\ Departs(Mark(x), x.kind = "event")
        /\ Marks(to_client)' \subseteq Marks(to_client) /\ Mark(x) \in Marks(to_client)
    BY <1>1, <1>3, <2>1, <2>2, WireHeadLeaves
  <2>4. Mark(x) = last_sequence => Mark(x) <= seen
    BY <2>3, StepBefore
  <2> QED BY <1>1, <1>3, <2>1, <2>2, <2>3, <2>4, PublishKeeps
<1>4. CASE held # <<>> /\ PublishItem(Head(held).item) /\ held' = <<>> /\ UNCHANGED wires
  <2> DEFINE x == Head(held).item
  <2>1. held' = Tail(held) /\ UNCHANGED to_client
    <3>1. held \in Seq(Entries) /\ Len(held) = 1
      <4>1. held \in Seq(Entries) /\ Len(held) \in Nat /\ Len(held) <= 1
        BY <1>2, LenProperties DEF LaneTyped
      <4>2. Len(held) # 0
        BY <1>4, <4>1, EmptySeq
      <4>3. \A n \in Nat : n <= 1 /\ n # 0 => n = 1
        OBVIOUS
      <4> QED BY <4>1, <4>2, <4>3
    <3>2. Len(Tail(held)) = 0 /\ Tail(held) \in Seq(Entries)
      BY <1>4, <3>1, HeadTailProperties
    <3> QED BY <1>4, <3>2, EmptySeq DEF wires
  <2>2. /\ x \in Notes /\ Departs(Mark(x), x.kind = "event") /\ HeldMarks = HeldMarks' \union {Mark(x)}
    BY <1>1, <1>4, <2>1, HeldHeadLeaves
  <2>3. to_client' \in Seq(Frames) /\ UNCHANGED Marks(to_client)
    BY <1>2, <2>1, WireStays DEF WireTyped
  <2>4. Mark(x) = last_sequence => Mark(x) <= seen
    BY <2>2, StepBefore
  <2> QED BY <1>1, <1>4, <2>2, <2>3, <2>4, PublishKeeps
<1> QED BY <1>3, <1>4 DEF Publishes
--------
(* The invariant, and what it shows. *)

\* The invariant holds at first.
LEMMA FeedStarts ==
  ASSUME FeedInit PROVE FInv
<1> USE DEF FeedInit
<1>1. Inv
  BY InvInit
<1>2. /\ HandMarks = {} /\ HandEvents = {} /\ HeldMarks = {} /\ HeldEvents = {} /\ HeldRising
      /\ Marks(queue) = {} /\ EventMarks(queue) = {} /\ Rising(queue) /\ OneGap(queue)
      /\ Marks(to_client) = {} /\ EventMarks(to_client) = {} /\ Rising(to_client)
  BY EmptyMarks DEF HandMarks, HandEvents, HeldMarks, HeldEvents, HeldRising, NoFrame
<1>3. paused = FALSE /\ last_sent_sequence = 0 /\ paused_sequence = 0 /\ connected = TRUE /\ pages = {} /\ acks = {}
  BY DEF Init
<1>4. Fore = {} /\ ForeEvents = {} /\ Rear = {} /\ RearEvents = {} /\ Top = 0
  BY <1>2, <1>3 DEF Fore, ForeEvents, Rear, RearEvents, Top
<1>5. Terminal \in Nat
  BY Constants
<1>6. Typed
  BY <1>1, <1>3, <1>5 DEF Typed, FeedTypeOK, Inv
<1>7. Phases
  BY <1>2 DEF Phases
<1>8. Consumed
  BY <1>3 DEF Consumed
<1>9. Ordered
  BY <1>2, <1>3, <1>4 DEF Ordered, RearOrdered, ForeOrdered, Below
<1>10. Latest /\ Chained
  BY <1>2, <1>3, <1>4 DEF Latest, Chained, Linked, Below
<1> QED BY <1>1, <1>6, <1>7, <1>8, <1>9, <1>10 DEF FInv

\* A step that changes nothing keeps it.
LEMMA FeedStutters ==
  ASSUME FInv, UNCHANGED all PROVE FInv'
<1>1. UNCHANGED <<vars, to_client, to_host>> /\ UNCHANGED client
  BY DEF all, wires
<1>2. AckTyped /\ AppTyped /\ SubmitPhases /\ WireTyped /\ seen \in Nat
  BY PartsHold, StepBefore
<1>3. Consumed'
  BY <1>1, <1>2, ClientStays, ConsumedGrows
<1>4. AckTyped' /\ SubmitPhases' /\ to_host' \in Seq(Messages) /\ recovery' \in {"idle", "requested", "consumed", "acking"}
  BY <1>1, <1>2, ClientStays DEF AckTyped, SubmitPhases, WireTyped, Java, AppTyped
<1> QED BY <1>1, <1>3, <1>4, ClientStays, TasksMoveKeeps

\* Every step of Host and client keeps it.
LEMMA FeedStepKeeps == FInv /\ [FeedNext]_all => FInv'
<1> SUFFICES ASSUME FInv, [FeedNext]_all PROVE FInv'
  OBVIOUS
<1>1. CASE HostSide
  BY <1>1, HostKeeps
<1>2. CASE Receives
  BY <1>2, JavaReceivesKeeps, ClientReceivesKeeps DEF Receives
<1>3. CASE Lane
  BY <1>3, FenceKeeps, PublishesKeeps, PushKeeps DEF Lane
<1>4. CASE Takes
  BY <1>4, DrainKeeps, GetKeeps DEF Takes
<1>5. CASE Iterates
  <2>1. CASE Skip \/ ConsumeEvent \/ FaceGap \/ LeaveGap \/ OnNext
    <3>1. IteratorOnly
      BY <2>1 DEF Skip, ConsumeEvent, FaceGap, LeaveGap, OnNext
    <3> QED BY <2>1, <3>1, IteratesKeeps
  <2>2. CASE ~ Java /\ IteratorAcks
    BY <2>2, IteratorAcksKeeps
  <2>3. CASE Java /\ AcknowledgeEvent
    BY <2>3, AcknowledgeEventKeeps
  <2> QED BY <1>5, <2>1, <2>2, <2>3 DEF Iterates
<1>6. CASE Recovers
  BY <1>6, RecoverKeeps DEF Recovers, StartRecovery
<1>7. CASE RecoveryAcks
  BY <1>7, RecoveryAcksKeeps
<1>8. CASE \E task \in Tasks : Submits(task)
  BY <1>8, WriteKeeps, CommitAckKeeps, CommitsKeeps DEF Submits
<1>9. CASE UNCHANGED all
  BY <1>9, FeedStutters
<1> QED BY <1>1, <1>2, <1>3, <1>4, <1>5, <1>6, <1>7, <1>8, <1>9 DEF FeedNext

\* It holds throughout.
LEMMA FeedInvariance == FeedSafety => []FInv
<1>1. FeedInit => FInv
  BY FeedStarts
<1> QED BY <1>1, FeedStepKeeps, PTL DEF FeedSafety

\* Every reachable state of Host, wire and client is within its types, in each of
\* the three SDKs: cursors and marks are sequences of the Run (property
\* FeedTypeOK).
THEOREM FeedTypeCorrect == FeedSafety => []FeedTypeOK
<1>1. FInv => FeedTypeOK
  BY DEF FInv, Typed
<1> QED BY <1>1, FeedInvariance, PTL

\* Only a consumed event makes the iterator go on to its ACK.
LEMMA ConsumesAnEvent ==
  ASSUME FInv, [FeedNext]_all, iterator = "handed", iterator' = "ack"
  PROVE  hand.kind = "event"
<1>1. CASE HostSide
  BY <1>1, HostSays, ClientStays DEF FInv, Ordered
<1>2. ASSUME NEW x, AcceptAnswer(x) PROVE iterator' = iterator
  BY <1>2 DEF AcceptAnswer, AcceptPage, AcceptReplayError, AcceptSettled
<1>3. ASSUME NEW entry, Admit(entry) PROVE iterator' \in {iterator, "handed"}
  BY <1>3 DEF Admit
<1>4. ASSUME NEW x, NEW seq, Deliveries(x, seq) PROVE iterator' \in {iterator, "handed"}
  BY <1>3, <1>4 DEF Deliveries
<1>5. Refuse => iterator' = iterator
  BY DEF Refuse, app
<1>6. Ignore => iterator' = iterator
  BY ClientStays DEF Ignore
<1>7. CASE Receives
  <2>1. ASSUME NEW x, TakeGap(x) PROVE iterator' \in {iterator, "handed"}
    BY <1>4, <2>1 DEF TakeGap
  <2>2. ASSUME NEW seq, AcceptEvent(seq) PROVE iterator' \in {iterator, "handed"}
    BY <1>4, <1>5, <1>6, <2>2 DEF AcceptEvent
  <2>3. ASSUME NEW x, AcceptGap(x) PROVE iterator' \in {iterator, "handed"}
    BY <1>5, <1>6, <2>1, <2>3 DEF AcceptGap
  <2> QED BY <1>2, <1>7, <2>1, <2>2, <2>3 DEF Receives, JavaReceives, ClientReceives
<1>8. CASE Lane
  BY <1>3, <1>8 DEF Lane, Fence, Publishes, Push, app
<1>9. CASE Takes
  BY <1>9 DEF Takes, Drain, Get
<1>10. CASE Iterates
  BY <1>10 DEF Iterates, OnNext, LeaveGap, AcknowledgeEvent, Skip, ConsumeEvent, FaceGap, IteratorAcks
<1>11. CASE Recovers \/ RecoveryAcks
  BY <1>11 DEF Recovers, StartRecovery, Recover, RecoveryAcks
<1>12. CASE \E task \in Tasks : Submits(task)
  BY <1>12 DEF Submits, Write, Commits, CommitAck, app
<1>13. CASE UNCHANGED all
  BY <1>13, ClientStays DEF all
<1> QED BY <1>1, <1>7, <1>8, <1>9, <1>10, <1>11, <1>12, <1>13 DEF FeedNext

\* The application is never handed an event as consumable while one before it is
\* neither consumed nor recovered: with whatever gaps, pages, ACKs, failing reads
\* and full queues in between, an event that is consumed in the iteration is at
\* most one beyond what the application has seen, but for events that the wire
\* contract refuses.  The third part of the property FeedIsSound, for every number
\* of events, refused or not, and every window, queue and reading fault.
THEOREM NothingIsSkipped == FeedSafety => ConsumedWithoutHole
<1>1. FInv /\ [FeedNext]_all => [iterator = "handed" /\ iterator' = "ack" =>
                                    OnlyUnsendable(seen + 1, hand.seq - 1)]_all
  <2> SUFFICES ASSUME FInv, [FeedNext]_all, iterator = "handed", iterator' = "ack"
               PROVE  Joined(seen, hand.seq)
    BY DEF Joined
  <2>1. hand.kind = "event"
    BY ConsumesAnEvent
  <2>2. hand.seq \in ForeEvents /\ hand.seq \in HandEvents
    BY <2>1 DEF ForeEvents, HandEvents
  <2>3. Joined(seen, hand.seq) \/ JoinedIn(Fore, hand.seq)
    BY <2>2 DEF FInv, Chained, Linked
  <2>4. /\ HandMarks = {hand.seq} /\ hand.seq \in Nat /\ Below(HandMarks, Marks(queue)) /\ Marks(queue) \subseteq Nat
    <3>1. hand \in Notes /\ hand # NoFrame
      BY <2>1, PartsHold DEF AppTyped, NoFrame
    <3> QED BY <2>1, <3>1, NoteKinds, PartsHold, PipelineTyped DEF HandMarks, ForeOrdered
  <2>5. \A m \in Fore : hand.seq <= m /\ m \in Nat
    BY <2>4 DEF Fore, Below
  <2> QED BY <2>3, <2>4, <2>5 DEF JoinedIn
<1> QED BY <1>1, FeedInvariance, PTL DEF FeedSafety, ConsumedWithoutHole
--------
(* A pause is ended by its client. *)

\* The sequences that are compared are naturals.
LEMMA DebtTyped ==
  ASSUME FInv
  PROVE  /\ seen \in Nat /\ ack_cursor \in Nat /\ last_sent_sequence \in Nat /\ paused_sequence \in Nat
         /\ ackable_sequence \in Nat /\ registered \in BOOLEAN /\ paused \in BOOLEAN /\ faults \in Nat
         /\ submissions \subseteq Submissions /\ \A s \in submissions : s.seq \in Nat
         /\ acks \subseteq 1 .. seen /\ acks \subseteq Nat
         /\ to_host \in Seq(Messages) /\ \A i \in DOMAIN to_host : to_host[i] \in Messages
         /\ \A x \in Messages : /\ x.kind = "ack" => x.seq \in Nat
                                /\ x.kind = "replay" => x.after \in Nat
         /\ last_sent_sequence <= ackable_sequence /\ paused_sequence <= ackable_sequence
<1>1. Typed /\ Consumed /\ Inv
  BY DEF FInv
<1>2. /\ seen \in Nat /\ ack_cursor \in Nat /\ submissions \subseteq Submissions /\ Terminal \in Nat
  BY PartsHold, Constants DEF AckTyped, AppTyped
<1>3. \A s \in submissions : s.seq \in Nat
  BY <1>2, Constants DEF Submissions
<1>4. /\ last_sent_sequence \in Nat /\ paused_sequence \in Nat /\ ackable_sequence \in Nat
      /\ registered \in BOOLEAN /\ paused \in BOOLEAN /\ faults \in Nat
  BY <1>1, Constants DEF Inv, TypeOK
<1>5. to_host \in Seq(Messages) /\ \A i \in DOMAIN to_host : to_host[i] \in Messages
  BY <1>1, ElementOfSeq, LenProperties DEF Typed
<1>6. \A x \in Messages : (x.kind = "ack" => x.seq \in Nat) /\ (x.kind = "replay" => x.after \in Nat)
  BY Constants DEF Messages
<1>7. acks \subseteq 1 .. seen /\ acks \subseteq Nat
  BY <1>1, <1>2 DEF Consumed
<1>8. last_sent_sequence <= ackable_sequence /\ paused_sequence <= ackable_sequence
  BY <1>1 DEF Inv, AnnouncedIsCommitted
<1> QED BY <1>2, <1>3, <1>4, <1>5, <1>6, <1>7, <1>8

\* The fields of one request are not those of the other.
LEMMA RequestKinds ==
  ASSUME FInv
  PROVE  /\ \A seq : AckRequest(seq).kind = "ack" /\ AckRequest(seq).seq = seq
         /\ \A seq, limit : ReplayRequest(seq, limit).kind = "replay" /\ ReplayRequest(seq, limit).after = seq
BY DEF AckRequest, ReplayRequest

\* What is sent comes after what was sent before.
LEMMA SentLast ==
  ASSUME FInv, NEW x, Sends(x)
  PROVE  /\ DOMAIN to_host' = 1 .. Len(to_host) + 1 /\ Len(to_host) \in Nat /\ DOMAIN to_host = 1 .. Len(to_host)
         /\ to_host'[Len(to_host) + 1] = x
         /\ \A i \in DOMAIN to_host : i \in DOMAIN to_host' /\ to_host'[i] = to_host[i]
         /\ \A i \in DOMAIN to_host' : i \in DOMAIN to_host \/ to_host'[i] = x
<1>1. to_host \in Seq(Messages)
  BY DebtTyped
<1>2. Len(to_host) \in Nat /\ DOMAIN to_host = 1 .. Len(to_host)
  BY <1>1, LenProperties
<1> QED BY <1>1, <1>2 DEF Sends

\* An acknowledgement the Host has, or is about to have, stays on its way.
LEMMA StaysReached ==
  ASSUME FInv, NEW seq \in Nat, Reached(seq), last_sent_sequence' >= last_sent_sequence,
         last_sent_sequence' \in Nat, acks \subseteq acks',
         \A i \in DOMAIN to_host : to_host[i].kind = "ack" =>
            \E j \in DOMAIN to_host' : to_host'[j] = to_host[i]
  PROVE  Reached(seq)'
<1>1. CASE seq <= last_sent_sequence
  BY <1>1, DebtTyped DEF Reached
<1>2. CASE \E i \in DOMAIN to_host : to_host[i].kind = "ack" /\ to_host[i].seq >= seq
  <2> PICK i \in DOMAIN to_host : to_host[i].kind = "ack" /\ to_host[i].seq >= seq
    BY <1>2
  <2> PICK j \in DOMAIN to_host' : to_host'[j] = to_host[i]
    OBVIOUS
  <2> QED BY DEF Reached
<1>3. CASE \E acked \in acks : acked >= seq
  BY <1>3 DEF Reached
<1> QED BY <1>1, <1>2, <1>3 DEF Reached

\* A step of the client leaves every written ACK on its way, and writes one at
\* most.
LEMMA ClientMovesOwes ==
  ASSUME FInv, PauseInv, ClientMoves
  PROVE  PauseInv'
<1>0. UNCHANGED <<acks, pages, registered, last_sent_sequence, paused, paused_sequence, ackable_sequence, faults>>
  BY DEF ClientMoves, vars, window, pausing, tasks, env
<1>1. AsksForMore'
  <2>1. UNCHANGED journal
    BY DEF ClientMoves, vars
  <2>2. Unsendable' = Unsendable
    BY <2>1 DEF Unsendable
  <2> QED BY <1>0, <2>2 DEF PauseInv, AsksForMore, Carried
<1>2. ASSUME NEW seq \in Nat, Reached(seq) PROVE Reached(seq)'
  <2>1. \A i \in DOMAIN to_host : \E j \in DOMAIN to_host' : to_host'[j] = to_host[i]
    BY SentLast DEF ClientMoves
  <2> QED BY <1>0, <1>2, <2>1, StaysReached, DebtTyped
<1>3. ASSUME registered
      PROVE  /\ Reached(ack_cursor)'
             /\ \A s \in submissions' : s.written => Reached(s.seq)'
  <2>1. /\ Reached(ack_cursor) /\ \A s \in submissions : s.written => Reached(s.seq)
        /\ ack_cursor \in Nat /\ \A s \in submissions : s.seq \in Nat
    BY <1>3, DebtTyped DEF PauseInv, Owed
  <2>2. Reached(ack_cursor)' /\ \A s \in submissions : s.written => Reached(s.seq)'
    <3>1. ASSUME NEW n \in Nat, Reached(n), ack_cursor' = n PROVE Reached(ack_cursor)'
      BY <1>2, <3>1 DEF Reached
    <3> QED BY <1>2, <2>1, <3>1 DEF ClientMoves
  <2>3. ASSUME NEW sent \in submissions, Sends(AckRequest(sent.seq)) PROVE Reached(sent.seq)'
    <3>1. /\ Len(to_host) + 1 \in DOMAIN to_host' /\ to_host'[Len(to_host) + 1] = AckRequest(sent.seq)
      BY <2>3, SentLast
    <3>2. AckRequest(sent.seq).kind = "ack" /\ AckRequest(sent.seq).seq = sent.seq /\ sent.seq >= sent.seq
      BY <2>1, RequestKinds
    <3> QED BY <3>1, <3>2 DEF Reached
  <2> QED BY <2>2, <2>3 DEF ClientMoves
<1>4. Owed'
  <2>1. ASSUME registered, NEW i \in DOMAIN to_client', to_client'[i].kind = "page"
        PROVE  to_client'[i].page.end <= ackable_sequence
    BY <2>1 DEF ClientMoves, PauseInv, Owed
  <2>2. registered => seen' <= ackable_sequence
    BY DEF ClientMoves
  <2> QED BY <1>0, <1>3, <2>1, <2>2 DEF Owed
<1>5. Asked'
  <2>0. seen \in Nat /\ seen' \in Nat /\ seen' >= seen
    BY DebtTyped DEF ClientMoves
  <2>1. \A page \in pages : page.base <= seen' /\ page.base <= page.end
    <3>1. \A page \in pages : page.base \in Nat /\ page.base <= seen /\ page.base <= page.end
      BY Constants DEF PauseInv, Asked, FInv, Typed, HostPages
    <3> QED BY <2>0, <3>1
  <2>2. ASSUME NEW i \in DOMAIN to_host', to_host'[i].kind = "replay" PROVE to_host'[i].after <= seen'
    <3>1. ASSUME NEW j \in DOMAIN to_host, to_host[j].kind = "replay" PROVE to_host[j].after <= seen'
      <4>1. to_host[j].after \in Nat /\ to_host[j].after <= seen
        BY <3>1, DebtTyped DEF PauseInv, Asked
      <4> QED BY <2>0, <4>1
    <3>2. CASE Sends(ReplayRequest(seen, MaxReplayEvents))
      <4>1. (i \in DOMAIN to_host /\ to_host'[i] = to_host[i]) \/ to_host'[i] = ReplayRequest(seen, MaxReplayEvents)
        BY <3>2, SentLast
      <4> QED BY <2>0, <2>2, <3>1, <4>1, RequestKinds
    <3>3. ASSUME NEW n, Sends(AckRequest(n)) PROVE to_host'[i].after <= seen'
      <4>1. (i \in DOMAIN to_host /\ to_host'[i] = to_host[i]) \/ to_host'[i] = AckRequest(n)
        BY <3>3, SentLast
      <4> QED BY <2>2, <3>1, <4>1, RequestKinds
    <3> QED BY <2>2, <3>1, <3>2, <3>3 DEF ClientMoves
  <2> QED BY <1>0, <2>1, <2>2 DEF Asked
<1> QED BY <1>1, <1>4, <1>5 DEF PauseInv

\* Where the faults are counted.
LEMMA FaultsStay ==
  ASSUME TypeOK, [Next]_vars
  PROVE  faults \in Nat /\ faults' \in Nat /\ faults' >= faults
<1>1. faults \in Nat
  BY DeliveryAssumption DEF TypeOK, DeliveryAssumption
<1>2. faults' = faults \/ faults' = faults + 1
  <2>1. CASE HostStep
    BY <2>1 DEF HostStep, Observe, RejectAck, AcceptAck, ResumeRead, ResumePublish, ResumePublishFails, ResumeDone, ReplayPublish, env
  <2>2. CASE Environment
    BY <2>2 DEF Environment, Commit, Settle, ResumeReadFails, Disconnect, env
  <2>3. CASE Requests
    BY <2>3 DEF Requests, ReceiveAck, ReplayRead, ReplayTooLarge, ReplayConversionFails, ReplayReadFails, env
  <2> QED BY <2>1, <2>2, <2>3 DEF Next, vars, env
<1> QED BY <1>1, <1>2

\* A request the Host takes leaves the rest where it was.
LEMMA RequestTaken ==
  ASSUME FInv, to_host # <<>>, to_host' = Tail(to_host)
  PROVE  /\ Head(to_host) \in Messages /\ Head(to_host) = to_host[1] /\ 1 \in DOMAIN to_host
         /\ \A i \in DOMAIN to_host' : i + 1 \in DOMAIN to_host /\ to_host'[i] = to_host[i + 1]
         /\ \A i \in DOMAIN to_host : i = 1 \/ \E j \in DOMAIN to_host' : to_host'[j] = to_host[i]
<1>0. to_host \in Seq(Messages)
  BY DebtTyped
<1>1. /\ to_host' \in Seq(Messages) /\ Head(to_host) = to_host[1] /\ Len(to_host') = Len(to_host) - 1
      /\ Len(to_host) \in Nat /\ Len(to_host) > 0
      /\ \A i \in 1 .. Len(to_host') : to_host'[i] = to_host[i + 1]
  BY <1>0, HeadTailProperties, EmptySeq, LenProperties
<1>2. DOMAIN to_host = 1 .. Len(to_host) /\ DOMAIN to_host' = 1 .. Len(to_host')
  BY <1>0, <1>1, LenProperties
<1>3. ASSUME NEW i \in DOMAIN to_host, i # 1 PROVE \E j \in DOMAIN to_host' : to_host'[j] = to_host[i]
  <2>1. i - 1 \in 1 .. Len(to_host') /\ (i - 1) + 1 = i
    BY <1>1, <1>2, <1>3
  <2>2. to_host'[i - 1] = to_host[i]
    BY <1>1, <2>1
  <2> QED BY <1>2, <2>1, <2>2
<1>4. Head(to_host) \in Messages /\ 1 \in DOMAIN to_host
  BY <1>1, <1>2, DebtTyped
<1>5. \A i \in DOMAIN to_host' : i + 1 \in DOMAIN to_host /\ to_host'[i] = to_host[i + 1]
  BY <1>1, <1>2
<1> QED BY <1>1, <1>3, <1>4, <1>5

\* While the Run is registered, nothing the client has on its way is ahead of what
\* the Host may be asked to acknowledge.
LEMMA WithinAnnounced ==
  ASSUME FInv, PauseInv, registered
  PROVE  \A a \in acks : a <= ackable_sequence
BY DebtTyped DEF PauseInv, Owed

\* A step of the Host takes an ACK that is on its way to the cursor, step by step.
LEMMA HostReaches ==
  ASSUME FInv, PauseInv, HostDoes, registered', NEW seq \in Nat, Reached(seq)
  PROVE  Reached(seq)'
<1>0. /\ seq \in Nat /\ last_sent_sequence \in Nat /\ seen \in Nat /\ ackable_sequence \in Nat
      /\ acks \subseteq 1 .. seen
  BY DebtTyped
<1>1. CASE \E x \in Notes : SaysNote(x)
  <2> PICK x \in Notes : SaysNote(x)
    BY <1>1
  <2>1. Mark(x) \in Nat /\ last_sent_sequence < Mark(x) /\ UNCHANGED <<to_host, acks>>
    BY NoteKinds, Constants DEF SaysNote, Announces
  <2>2. last_sent_sequence' = last_sent_sequence \/ last_sent_sequence' = Mark(x)
    BY NoteKinds DEF SaysNote, Announces, window
  <2> QED BY <1>0, <2>1, <2>2, StaysReached
<1>2. ASSUME NEW a \in acks, Accepts(a) PROVE Reached(seq)'
  <2>1. last_sent_sequence' = Larger(last_sent_sequence, a) /\ acks' = acks \ {a} /\ UNCHANGED to_host
    BY <1>2 DEF Accepts, AcceptAck, CursorAfter, wires
  <2>2. a \in Nat
    BY <1>0
  <2>3. /\ last_sent_sequence' \in Nat /\ last_sent_sequence' >= last_sent_sequence /\ last_sent_sequence' >= a
    BY <1>0, <2>1, <2>2, LargerBounds
  <2>4. CASE \E acked \in acks : acked >= seq
    <3> PICK acked \in acks : acked >= seq
      BY <2>4
    <3>1. CASE acked = a
      BY <1>0, <2>2, <2>3, <3>1 DEF Reached
    <3>2. CASE acked # a
      BY <2>1, <3>2 DEF Reached
    <3> QED BY <3>1, <3>2
  <2>5. CASE ~ \E acked \in acks : acked >= seq
    BY <1>0, <2>1, <2>3, <2>5 DEF Reached
  <2> QED BY <2>4, <2>5
<1>3. ASSUME NEW a \in acks, Rejects(a) PROVE Reached(seq)'
  <2>1. registered /\ a > ackable_sequence /\ a \in Nat
    BY <1>0, <1>3 DEF Rejects
  <2> QED BY <1>0, <2>1, WithinAnnounced
<1>4. CASE ResumeFails
  BY <1>0, <1>4, StaysReached DEF ResumeFails, wires, tasks, window
<1>5. ASSUME NEW x \in Answers, Says(x) PROVE Reached(seq)'
  BY <1>0, <1>5, StaysReached DEF Says, window
<1>6. CASE Waits
  BY <1>0, <1>6, StaysReached DEF Waits, wires, tasks, window
<1>7. CASE Takes1
  <2>1. /\ to_host # <<>> /\ to_host' = Tail(to_host) /\ UNCHANGED <<registered, last_sent_sequence>>
    BY <1>7 DEF Takes1, window
  <2>2. CASE TakesAck(Head(to_host))
    <3>1. Head(to_host).kind = "ack" /\ acks' = acks \union {Head(to_host).seq}
      BY <2>1, <2>2 DEF TakesAck
    <3>2. CASE \E i \in DOMAIN to_host : to_host[i].kind = "ack" /\ to_host[i].seq >= seq
      <4> PICK i \in DOMAIN to_host : to_host[i].kind = "ack" /\ to_host[i].seq >= seq
        BY <3>2
      <4>1. CASE i = 1
        BY <2>1, <3>1, <4>1, RequestTaken DEF Reached
      <4>2. CASE i # 1
        <5> PICK j \in DOMAIN to_host' : to_host'[j] = to_host[i]
          BY <2>1, <4>2, RequestTaken
        <5> QED BY DEF Reached
      <4> QED BY <4>1, <4>2
    <3>3. CASE ~ \E i \in DOMAIN to_host : to_host[i].kind = "ack" /\ to_host[i].seq >= seq
      BY <2>1, <3>1, <3>3 DEF Reached
    <3> QED BY <3>2, <3>3
  <2>3. CASE TakesReplay(Head(to_host))
    <3>1. UNCHANGED acks /\ Head(to_host).kind = "replay"
      BY <2>3 DEF TakesReplay
    <3>2. \A i \in DOMAIN to_host : to_host[i].kind = "ack" => \E j \in DOMAIN to_host' : to_host'[j] = to_host[i]
      BY <2>1, <3>1, RequestTaken
    <3> QED BY <1>0, <2>1, <3>1, <3>2, StaysReached
  <2> QED BY <1>7, <2>2, <2>3 DEF Takes1
<1> QED BY <1>1, <1>2, <1>3, <1>4, <1>5, <1>6, <1>7 DEF HostDoes

\* What a page covers may be acknowledged once the page is on the wire.
LEMMA PageGrants ==
  ASSUME FInv, PauseInv, registered, NEW page \in pages
  PROVE  page.end <= Larger(ackable_sequence, Coverage(page))
<1>1. page.base \in Nat /\ page.end \in Nat /\ page.base <= seen /\ page.base <= page.end
  BY Constants DEF FInv, Typed, HostPages, PauseInv, Asked
<1>2. seen <= ackable_sequence /\ seen \in Nat /\ ackable_sequence \in Nat
  BY DebtTyped DEF PauseInv, Owed
<1>3. CASE page.base < page.end
  BY <1>1, <1>2, <1>3 DEF Coverage, Larger
<1>4. CASE page.base = page.end
  <2>1. Coverage(page) \in Nat
    BY <1>1 DEF Coverage
  <2> QED BY <1>1, <1>2, <1>4, <2>1, LargerBounds
<1> QED BY <1>1, <1>3, <1>4

\* A step of the Host keeps what it owes.
LEMMA HostOwes ==
  ASSUME FInv, PauseInv, HostSide
  PROVE  PauseInv'
<1>1. HostDoes /\ UNCHANGED client /\ [Next]_vars
  BY HostSays DEF FInv, Ordered
<1>2. /\ UNCHANGED <<seen, ack_cursor, submissions>> /\ seen \in Nat /\ ack_cursor \in Nat
      /\ ackable_sequence \in Nat /\ last_sent_sequence \in Nat /\ paused_sequence \in Nat /\ paused \in BOOLEAN
  BY <1>1, ClientStays, DebtTyped
<1>3. AsksForMore'
  <2>0. faults \in Nat /\ faults' \in Nat /\ faults' >= faults /\ Unsendable \subseteq Unsendable'
    BY <1>1, FaultsStay, RefusedStay DEF FInv, Inv
  <2>1. faults \in Nat /\ (faults' = 0 => faults = 0) /\ (Carried' => Carried)
    BY <2>0 DEF Carried
  <2> SUFFICES ASSUME faults' = 0, Carried', paused' PROVE last_sent_sequence' < paused_sequence'
    BY DEF AsksForMore
  <2>2. paused => last_sent_sequence < paused_sequence
    BY <2>1 DEF PauseInv, AsksForMore
  <2>3. CASE \E x \in Notes : SaysNote(x)
    <3> PICK x \in Notes : SaysNote(x)
      BY <2>3
    <3>1. x.kind = "gap" /\ last_sent_sequence < paused_sequence' /\ last_sent_sequence' = last_sent_sequence
      BY NoteKinds DEF SaysNote, Announces, window
    <3> QED BY <3>1
  <2>4. ASSUME NEW a \in acks, Accepts(a) PROVE last_sent_sequence' < paused_sequence'
    <3>0. a \in 1 .. seen /\ a \in Nat
      BY DebtTyped
    <3> PICK count \in 0 .. Len(unacked) : AcceptAck(a, count)
      BY <2>4 DEF Accepts
    <3>1. ~ CoversGap(a)
      BY <3>0, AcceptQuiet DEF FInv, Ordered
    <3>2. UNCHANGED <<paused, paused_sequence>> /\ last_sent_sequence' = Larger(last_sent_sequence, a)
      BY <3>1 DEF AcceptAck, pausing, CursorAfter
    <3>3. last_sent_sequence < paused_sequence /\ a < paused_sequence
      BY <1>2, <2>2, <3>0, <3>1, <3>2 DEF CoversGap
    <3> QED BY <1>2, <3>0, <3>2, <3>3 DEF Larger
  <2>5. ~ ResumeFails
    BY <2>1 DEF ResumeFails
  <2>6. CASE UNCHANGED <<last_sent_sequence, paused, paused_sequence>>
    BY <2>2, <2>6
  <2> QED BY <1>1, <2>3, <2>4, <2>5, <2>6 DEF HostDoes, Rejects, Says, Waits, Takes1, window, pausing
<1>4. ackable_sequence' \in Nat /\ ackable_sequence' >= ackable_sequence
  <2>1. \A x \in Notes : SaysNote(x) => ackable_sequence' \in Nat /\ ackable_sequence' >= ackable_sequence
    BY <1>2, NoteKinds, LargerBounds, Constants DEF SaysNote
  <2>2. \A x \in Answers : Says(x) => ackable_sequence' \in Nat /\ ackable_sequence' >= ackable_sequence
    <3> SUFFICES ASSUME NEW x \in Answers, Says(x)
                 PROVE  ackable_sequence' \in Nat /\ ackable_sequence' >= ackable_sequence
      OBVIOUS
    <3>1. CASE UNCHANGED ackable_sequence
      BY <1>2, <3>1
    <3>2. CASE x.page \in pages /\ ackable_sequence' = Larger(ackable_sequence, Coverage(x.page))
      <4>1. Coverage(x.page) \in Nat
        BY <3>2, Constants DEF Coverage, FInv, Typed, HostPages
      <4> QED BY <1>2, <3>2, <4>1, LargerBounds
    <3> QED BY <3>1, <3>2 DEF Says
  <2> QED BY <1>1, <1>2, <2>1, <2>2 DEF HostDoes, Accepts, Rejects, ResumeFails, Waits, Takes1
<1>5. registered' => registered
  BY <1>1 DEF HostDoes, SaysNote, Accepts, Rejects, ResumeFails, Says, Waits, Takes1
<1>6. ASSUME registered', NEW i \in DOMAIN to_client', to_client'[i].kind = "page"
      PROVE  to_client'[i].page.end <= ackable_sequence'
  <2>0. registered /\ to_client \in Seq(Frames) /\ to_client' \in Seq(Frames)
    BY <1>1, <1>5, <1>6, PartsHold, HostTyped DEF WireTyped, Typed
  <2>1. ASSUME NEW j \in DOMAIN to_client, to_client'[i] = to_client[j]
        PROVE  to_client'[i].page.end <= ackable_sequence'
    <3>1. to_client[j].page.end <= ackable_sequence
      BY <1>6, <2>0, <2>1 DEF PauseInv, Owed
    <3>2. to_client[j].page.end \in Nat
      <4>1. to_client[j] \in Answers
        BY <1>6, <2>0, <2>1, NoteKinds DEF Frames
      <4> QED BY <1>6, <2>1, <4>1, PageTyped, Constants
    <3> QED BY <1>2, <1>4, <2>1, <3>1, <3>2
  <2>2. ASSUME NEW x, to_client' = Append(to_client, x)
        PROVE  to_client'[i] = x \/ \E j \in DOMAIN to_client : to_client'[i] = to_client[j]
    BY <2>0, <2>2
  <2>3. CASE UNCHANGED to_client
    BY <2>1, <2>3
  <2>4. CASE \E x \in Notes : SaysNote(x)
    <3> PICK x \in Notes : SaysNote(x)
      BY <2>4
    <3>1. to_client' = Append(to_client, x) /\ x.kind # "page"
      BY NoteKinds DEF SaysNote
    <3> QED BY <1>6, <2>1, <2>2, <3>1
  <2>5. CASE \E x \in Answers : Says(x)
    <3> PICK x \in Answers : Says(x)
      BY <2>5
    <3>1. CASE to_client'[i] = x
      <4>1. x.page \in pages /\ ackable_sequence' = Larger(ackable_sequence, Coverage(x.page))
        BY <1>6, <3>1 DEF Says
      <4> QED BY <2>0, <3>1, <4>1, PageGrants
    <3> QED BY <2>1, <2>2, <2>3, <3>1 DEF Says
  <2>6. CASE Takes1
    <3>1. \/ UNCHANGED to_client
          \/ \E code \in ReplayErrors : to_client' = Append(to_client, ReplayErrorFrame(Head(to_host).after, code))
      BY <2>0, <2>6 DEF Takes1, TakesAck, TakesReplay
    <3>2. \A n, code : ReplayErrorFrame(n, code).kind # "page"
      BY DEF ReplayErrorFrame
    <3> QED BY <1>6, <2>1, <2>2, <2>3, <3>1, <3>2
  <2> QED BY <1>1, <2>3, <2>4, <2>5, <2>6 DEF HostDoes, Accepts, Rejects, ResumeFails, Waits, wires
<1>7. Owed'
  <2> SUFFICES ASSUME registered'
               PROVE  /\ Reached(ack_cursor)'
                      /\ \A s \in submissions' : s.written => Reached(s.seq)'
                      /\ seen' <= ackable_sequence'
    BY <1>6 DEF Owed
  <2>1. /\ Reached(ack_cursor) /\ \A s \in submissions : s.written => Reached(s.seq)
        /\ seen <= ackable_sequence
    BY <1>5 DEF PauseInv, Owed
  <2>2. \A s \in submissions : s.seq \in Nat
    BY DebtTyped
  <2>3. \A n \in Nat : Reached(n) => Reached(n)'
    BY <1>1, HostReaches
  <2>4. Reached(ack_cursor)'
    <3>1. ASSUME NEW n \in Nat, ack_cursor' = n, Reached(n)' PROVE Reached(ack_cursor)'
      BY <3>1 DEF Reached
    <3> QED BY <1>2, <2>1, <2>3, <3>1
  <2> QED BY <1>2, <1>4, <2>1, <2>2, <2>3, <2>4
<1>8. Asked'
  <2>1. /\ \A i \in DOMAIN to_host : to_host[i].kind = "replay" => to_host[i].after <= seen
        /\ \A page \in pages : page.base <= seen /\ page.base <= page.end
    BY DEF PauseInv, Asked
  <2>2. CASE Takes1
    <3>1. /\ Head(to_host) = to_host[1] /\ 1 \in DOMAIN to_host
          /\ \A i \in DOMAIN to_host' : i + 1 \in DOMAIN to_host /\ to_host'[i] = to_host[i + 1]
      BY <2>2, RequestTaken DEF Takes1
    <3>2. \A page \in pages' : page.base <= seen /\ page.base <= page.end
      BY <2>1, <2>2, <3>1 DEF Takes1, TakesAck, TakesReplay
    <3> QED BY <1>2, <2>1, <3>1, <3>2 DEF Asked
  <2>3. CASE ~ Takes1
    <3>1. UNCHANGED to_host /\ pages' \subseteq pages
      BY <1>1, <2>3 DEF HostDoes, SaysNote, Accepts, Rejects, ResumeFails, Says, Waits, wires, tasks
    <3> QED BY <1>2, <2>1, <3>1 DEF Asked
  <2> QED BY <2>2, <2>3
<1> QED BY <1>3, <1>7, <1>8 DEF PauseInv

\* The application consumes what may be acknowledged.
LEMMA SeesAnnounced ==
  ASSUME FInv, PauseInv, registered
  PROVE  /\ seen <= ackable_sequence /\ seen \in Nat /\ ackable_sequence \in Nat
         /\ hand # NoFrame => Mark(hand) \in Nat /\ Mark(hand) <= ackable_sequence
<1>1. seen <= ackable_sequence /\ seen \in Nat /\ ackable_sequence \in Nat
      /\ Top \in Nat /\ Top <= ackable_sequence
  BY DebtTyped DEF PauseInv, Owed, Top
<1>2. ASSUME hand # NoFrame PROVE Mark(hand) \in Nat /\ Mark(hand) <= Top
  BY <1>2, PartsHold, NoteKinds, Constants DEF AppTyped, ForeOrdered, Fore, HandMarks
<1> QED BY <1>1, <1>2

\* An answer brings the application nothing it may not acknowledge.
LEMMA AnswerMoves ==
  ASSUME FInv, PauseInv, NEW i \in DOMAIN to_client, to_client[i] \in Answers, AcceptAnswer(to_client[i]),
         UNCHANGED <<vars, to_host>>,
         \A j \in DOMAIN to_client' : \E k \in DOMAIN to_client : to_client'[j] = to_client[k]
  PROVE  ClientMoves
<1>1. UNCHANGED <<ack_cursor, submissions>>
  BY DEF AcceptAnswer, AcceptPage, AcceptReplayError, AcceptSettled, acking
<1>2. seen \in Nat
  BY DebtTyped
<1>3. seen' \in Nat /\ seen' >= seen /\ (registered => seen' <= ackable_sequence)
  <2>1. CASE to_client[i].kind = "page" /\ AcceptPage(to_client[i].page)
    <3>1. to_client[i].page.end \in Nat
      BY <2>1, PageTyped, Constants
    <3>2. registered => to_client[i].page.end <= ackable_sequence
      BY <2>1 DEF PauseInv, Owed
    <3>3. seen' = Larger(seen, to_client[i].page.end)
      BY <2>1 DEF AcceptPage, NextCursor
    <3>4. seen' \in Nat /\ seen' >= seen /\ seen' \in {seen, to_client[i].page.end}
      BY <1>2, <3>1, <3>3, LargerBounds
    <3> QED BY <3>2, <3>4, SeesAnnounced
  <2>2. CASE AcceptReplayError
    <3>1. iterator = "gap" => hand # NoFrame /\ hand.watermark = Mark(hand) /\ Mark(hand) \in Nat
      BY PartsHold, NoteKinds, Constants DEF AppTyped, IteratorPhases, NoFrame
    <3>2. CASE iterator = "gap"
      <4>1. seen' = Larger(seen, Mark(hand))
        BY <2>2, <3>1, <3>2 DEF AcceptReplayError
      <4>2. seen' \in Nat /\ seen' >= seen /\ seen' \in {seen, Mark(hand)}
        BY <1>2, <3>1, <3>2, <4>1, LargerBounds
      <4> QED BY <3>1, <3>2, <4>2, SeesAnnounced
    <3>3. CASE iterator # "gap"
      <4>1. seen' = seen
        BY <2>2, <3>3 DEF AcceptReplayError
      <4> QED BY <1>2, <4>1, SeesAnnounced
    <3> QED BY <3>2, <3>3
  <2>3. CASE AcceptSettled
    <3>1. seen' = seen
      BY <2>3 DEF AcceptSettled
    <3> QED BY <1>2, <3>1, SeesAnnounced
  <2> QED BY <2>1, <2>2, <2>3 DEF AcceptAnswer
<1> QED BY <1>1, <1>3 DEF ClientMoves

\* A step that consumes nothing and acknowledges nothing.
LEMMA IdleMoves ==
  ASSUME FInv, PauseInv, UNCHANGED <<vars, to_host, ack_cursor, seen>>,
         \A s \in submissions' : s.written => s \in submissions,
         \A j \in DOMAIN to_client' : \E k \in DOMAIN to_client : to_client'[j] = to_client[k]
  PROVE  ClientMoves
BY DebtTyped, SeesAnnounced DEF ClientMoves

\* The head leaves the wire.
LEMMA WireShrinks ==
  ASSUME FInv
  PROVE  /\ UNCHANGED to_client =>
              \A j \in DOMAIN to_client' : \E k \in DOMAIN to_client : to_client'[j] = to_client[k]
         /\ to_client # <<>> /\ to_client' = Tail(to_client) =>
              \A j \in DOMAIN to_client' : \E k \in DOMAIN to_client : to_client'[j] = to_client[k]
<1>1. to_client \in Seq(Frames)
  BY PartsHold DEF WireTyped
<1>2. ASSUME to_client # <<>>, to_client' = Tail(to_client), NEW j \in DOMAIN to_client'
      PROVE  \E k \in DOMAIN to_client : to_client'[j] = to_client[k]
  <2>1. j + 1 \in DOMAIN to_client /\ to_client'[j] = to_client[j + 1]
    BY <1>1, <1>2
  <2> QED BY <2>1
<1> QED BY <1>2

\* Every step of the client settles, sends or adds to its debts.
LEMMA ClientStepMoves ==
  ASSUME FInv, PauseInv,
         Receives \/ Lane \/ Takes \/ Iterates \/ Recovers \/ RecoveryAcks \/ \E task \in Tasks : Submits(task)
  PROVE  ClientMoves
<1>0. /\ seen \in Nat /\ ack_cursor \in Nat /\ submissions \subseteq Submissions
      /\ to_client \in Seq(Frames) /\ \A i \in DOMAIN to_client : to_client[i] \in Frames
  BY DebtTyped, PartsHold, ElementOfSeq, LenProperties DEF WireTyped
<1>1. ASSUME NEW item, NEW seq, Deliveries(item, seq) PROVE UNCHANGED <<ack_cursor, submissions, seen>>
  BY <1>1 DEF Deliveries, acking
<1>2. CASE Receives
  <2>1. CASE Java /\ JavaReceives
    <3> PICK i \in DOMAIN to_client :
            /\ ~ Notification(to_client[i]) /\ AcceptAnswer(to_client[i]) /\ to_client' = RemoveAt(to_client, i)
            /\ UNCHANGED <<vars, to_host>>
      BY <2>1 DEF JavaReceives
    <3>1. to_client[i] \in Answers
      BY <1>0, NoteKinds DEF Frames
    <3>2. ASSUME NEW j \in DOMAIN to_client' PROVE \E k \in DOMAIN to_client : to_client'[j] = to_client[k]
      <4>1. /\ to_client' \in Seq(Frames) /\ Len(to_client') = Len(to_client) - 1
            /\ to_client'[j] = to_client[IF j < i THEN j ELSE j + 1]
        BY <1>0, WithoutAnswer
      <4>2. (IF j < i THEN j ELSE j + 1) \in DOMAIN to_client
        BY <1>0, <4>1, LenProperties
      <4> QED BY <4>1, <4>2
    <3> QED BY <3>1, <3>2, AnswerMoves
  <2>2. CASE ~ Java /\ ClientReceives
    <3>1. /\ to_client # <<>> /\ to_client' = Tail(to_client) /\ UNCHANGED <<vars, to_host>>
      BY <2>2 DEF ClientReceives, Received
    <3>2. \A j \in DOMAIN to_client' : \E k \in DOMAIN to_client : to_client'[j] = to_client[k]
      BY <3>1, WireShrinks
    <3>3. Head(to_client) = to_client[1] /\ 1 \in DOMAIN to_client
      BY <1>0, <3>1
    <3>4. CASE AcceptAnswer(Head(to_client))
      <4>1. to_client[1] \in Answers
        BY <1>0, <3>3, <3>4, NoteKinds DEF AcceptAnswer, Frames
      <4> QED BY <3>1, <3>2, <3>3, <3>4, <4>1, AnswerMoves
    <3>5. CASE ~ AcceptAnswer(Head(to_client))
      <4>1. ASSUME NEW x, TakeGap(x) PROVE UNCHANGED <<ack_cursor, submissions, seen>>
        BY <1>1, <4>1 DEF TakeGap
      <4>2. Refuse \/ Ignore => UNCHANGED <<ack_cursor, submissions, seen>>
        BY ClientStays DEF Refuse, Ignore, acking, app
      <4>3. ASSUME NEW x, AcceptGap(x) PROVE UNCHANGED <<ack_cursor, submissions, seen>>
        BY <4>1, <4>2, <4>3 DEF AcceptGap
      <4>4. ASSUME NEW x, AcceptEvent(x) PROVE UNCHANGED <<ack_cursor, submissions, seen>>
        BY <1>1, <4>2, <4>4 DEF AcceptEvent
      <4>5. UNCHANGED <<ack_cursor, submissions, seen>>
        BY <2>2, <3>5, <4>1, <4>3, <4>4 DEF ClientReceives
      <4> QED BY <3>1, <3>2, <4>5, IdleMoves
    <3> QED BY <3>4, <3>5
  <2> QED BY <1>2, <2>1, <2>2 DEF Receives
<1>3. CASE Lane
  <2>1. UNCHANGED <<vars, to_host, ack_cursor, submissions, seen>>
    BY <1>3 DEF Lane, Fence, Publishes, Push, Received, wires, acking, app
  <2>2. UNCHANGED to_client \/ (to_client # <<>> /\ to_client' = Tail(to_client))
    BY <1>3 DEF Lane, Fence, Publishes, Push, AtHead, Received, wires
  <2> QED BY <2>1, <2>2, WireShrinks, IdleMoves
<1>4. CASE Takes
  BY <1>4, WireShrinks, IdleMoves DEF Takes, Drain, Get, wires, acking
<1>5. CASE Iterates
  <2>1. CASE Skip \/ FaceGap \/ LeaveGap
    BY <2>1, WireShrinks, IdleMoves DEF Skip, FaceGap, LeaveGap, IteratorOnly, wires, acking
  <2>2. CASE ConsumeEvent \/ OnNext
    <3>1. /\ UNCHANGED <<vars, to_client, to_host, ack_cursor, submissions>>
          /\ seen' = seen \/ (hand.kind = "event" /\ seen' = Larger(seen, hand.seq))
      BY <2>2 DEF ConsumeEvent, OnNext, IteratorOnly, wires, acking
    <3>2. hand.kind = "event" => hand # NoFrame /\ hand.seq = Mark(hand) /\ hand.seq \in Nat
      BY PartsHold, NoteKinds, Constants DEF AppTyped, NoFrame
    <3>3. seen' \in Nat /\ seen' >= seen /\ (seen' = seen \/ (hand # NoFrame /\ seen' = Mark(hand)))
      BY <1>0, <3>1, <3>2 DEF Larger
    <3>4. registered => seen' <= ackable_sequence
      BY <3>3, SeesAnnounced
    <3>5. \A j \in DOMAIN to_client' : \E k \in DOMAIN to_client : to_client'[j] = to_client[k]
      BY <3>1, WireShrinks
    <3> QED BY <3>1, <3>3, <3>4, <3>5 DEF ClientMoves
  <2>3. CASE IteratorAcks \/ AcknowledgeEvent
    <3>1. \A s \in submissions' : s.written => s \in submissions
      BY <2>3 DEF IteratorAcks, AcknowledgeEvent, Submit
    <3> QED BY <2>3, <3>1, WireShrinks, IdleMoves DEF IteratorAcks, AcknowledgeEvent, wires
  <2> QED BY <1>5, <2>1, <2>2, <2>3 DEF Iterates
<1>6. CASE Recovers
  <2>1. /\ UNCHANGED <<vars, to_client, ack_cursor, submissions, seen>>
        /\ Sends(ReplayRequest(seen, MaxReplayEvents))
    BY <1>6 DEF Recovers, StartRecovery, Recover, acking, Sends
  <2>2. \A j \in DOMAIN to_client' : \E k \in DOMAIN to_client : to_client'[j] = to_client[k]
    BY <2>1, WireShrinks
  <2> QED BY <1>0, <2>1, <2>2, SeesAnnounced DEF ClientMoves
<1>7. CASE RecoveryAcks
  <2>1. \A s \in submissions' : s.written => s \in submissions
    BY <1>7 DEF RecoveryAcks, Submit
  <2> QED BY <1>7, <2>1, WireShrinks, IdleMoves DEF RecoveryAcks, wires
<1>8. ASSUME NEW sent \in submissions, Write(sent) PROVE ClientMoves
  <2>1. /\ UNCHANGED <<vars, to_client, ack_cursor, seen>> /\ Sends(AckRequest(sent.seq))
        /\ submissions' = (submissions \ {sent}) \union {[sent EXCEPT !.written = TRUE]}
    BY <1>8 DEF Write, Sends, app
  <2>2. sent \in Submissions
    BY <1>0
  <2>3. [sent EXCEPT !.written = TRUE].seq = sent.seq
    BY <2>2 DEF Submissions
  <2>4. \A s \in submissions' : s.written => s \in submissions \/ s.seq = sent.seq
    BY <2>1, <2>3
  <2>5. \A j \in DOMAIN to_client' : \E k \in DOMAIN to_client : to_client'[j] = to_client[k]
    BY <2>1, WireShrinks
  <2> QED BY <1>0, <2>1, <2>4, <2>5, SeesAnnounced DEF ClientMoves
<1>9. ASSUME NEW sent \in submissions, CommitAck(sent) \/ Commits(sent) PROVE ClientMoves
  <2>1. /\ sent.written /\ UNCHANGED <<vars, to_client, to_host, seen>> /\ submissions' \subseteq submissions
    BY <1>9 DEF CommitAck, Commits, wires
  <2>2. ack_cursor' = ack_cursor \/ ack_cursor' = sent.seq
    BY <1>9 DEF CommitAck, Commits, Larger
  <2>3. \A j \in DOMAIN to_client' : \E k \in DOMAIN to_client : to_client'[j] = to_client[k]
    BY <2>1, WireShrinks
  <2> QED BY <1>0, <2>1, <2>2, <2>3, SeesAnnounced DEF ClientMoves
<1> QED BY <1>2, <1>3, <1>4, <1>5, <1>6, <1>7, <1>8, <1>9 DEF Submits

\* The debts are kept by every step.
LEMMA PauseInvariance == FeedSafety => [](FInv /\ PauseInv)
<1>1. FeedInit => PauseInv
  <2> SUFFICES ASSUME FeedInit PROVE PauseInv
    OBVIOUS
  <2>1. /\ to_host = <<>> /\ to_client = <<>> /\ seen = 0 /\ ack_cursor = 0 /\ submissions = {}
        /\ pages = {} /\ last_sent_sequence = 0 /\ ackable_sequence = 0 /\ paused = FALSE
    BY DEF FeedInit, Init
  <2> QED BY <2>1 DEF PauseInv, Owed, Asked, AsksForMore, Reached
<1>2. FInv /\ PauseInv /\ [FeedNext]_all => PauseInv'
  <2> SUFFICES ASSUME FInv, PauseInv, [FeedNext]_all PROVE PauseInv'
    OBVIOUS
  <2>1. CASE HostSide
    BY <2>1, HostOwes
  <2>2. CASE UNCHANGED all
    <3>1. UNCHANGED <<vars, to_client, to_host, ack_cursor, submissions, seen>>
      BY <2>2, ClientStays DEF all, wires
    <3>2. ClientMoves
      BY <3>1, WireShrinks, IdleMoves
    <3> QED BY <3>2, ClientMovesOwes
  <2> QED BY <2>1, <2>2, ClientStepMoves, ClientMovesOwes DEF FeedNext
<1> QED BY <1>1, <1>2, FeedInvariance, PTL DEF FeedSafety

\* No lost wakeup: unless the read of a resume has failed or the wire contract
\* refuses an event (either pauses a stream again at what was sent), a stream is
\* paused only while its client still owes the ACK that ends the pause, or that
\* ACK is on its way to the Host, in each of the three SDKs and with every window
\* and queue.  The first part of the property FeedIsSound.
THEOREM PausesAreOwed == FeedSafety => [](faults = 0 /\ Carried => PauseIsOwed)
<1>1. FInv /\ PauseInv => (faults = 0 /\ Carried => PauseIsOwed)
  <2> SUFFICES ASSUME FInv, PauseInv, faults = 0, Carried, paused, registered, ~ (ack_cursor < paused_sequence)
               PROVE  AckOnItsWay(paused_sequence)
    BY DEF PauseIsOwed
  <2>1. last_sent_sequence < paused_sequence /\ Reached(ack_cursor)
    BY DEF PauseInv, AsksForMore, Owed
  <2>2. /\ ack_cursor \in Nat /\ last_sent_sequence \in Nat /\ paused_sequence \in Nat /\ acks \subseteq Nat
        /\ \A i \in DOMAIN to_host : to_host[i].kind = "ack" => to_host[i].seq \in Nat
    BY DebtTyped
  <2>3. paused_sequence <= ack_cursor /\ ~ (ack_cursor <= last_sent_sequence)
    BY <2>1, <2>2
  <2>4. CASE \E i \in DOMAIN to_host : to_host[i].kind = "ack" /\ to_host[i].seq >= ack_cursor
    BY <2>2, <2>3, <2>4 DEF AckOnItsWay
  <2>5. CASE \E acked \in acks : acked >= ack_cursor
    <3> PICK acked \in acks : acked >= ack_cursor
      BY <2>5
    <3>1. acked >= paused_sequence
      BY <2>2, <2>3
    <3> QED BY <3>1 DEF AckOnItsWay
  <2> QED BY <2>1, <2>3, <2>4, <2>5 DEF Reached
<1> QED BY <1>1, PauseInvariance, PTL
--------
(* What comes is in its place, and there is room for it. *)

\* Gaps are marks of the sequence they are in; what is picked from it has no
\* others.
LEMMA GapMarksTyped ==
  ASSUME NEW s \in Seq(Frames)
  PROVE  GapMarks(s) \subseteq Marks(s)
<1>1. \A i \in DOMAIN s : s[i] \in Frames
  OBVIOUS
<1>2. ASSUME NEW i \in DOMAIN s, s[i].kind = "gap" PROVE s[i].watermark \in Marks(s)
  <2>1. s[i] \in Notes
    BY <1>1, <1>2, NoteKinds DEF Frames, Notification
  <2> QED BY <1>2, <2>1, NoteKinds DEF Marks, Places
<1> QED BY <1>2 DEF GapMarks

LEMMA GapMarksPicked ==
  ASSUME NEW s, NEW t, NEW f, Picks(t, s, f)
  PROVE  GapMarks(t) \subseteq GapMarks(s)
BY DEF Picks, GapMarks

LEMMA EmptyGaps == GapMarks(<<>>) = {}
BY DEF GapMarks

\* The sequences that are compared are naturals.
LEMMA RoomTyped ==
  ASSUME FInv
  PROVE  /\ Fore \subseteq Nat /\ Rear \subseteq Nat /\ HandMarks \subseteq Nat /\ Marks(queue) \subseteq Nat
         /\ HeldMarks \subseteq Nat /\ Marks(to_client) \subseteq Nat
         /\ Taken \subseteq 1 .. Terminal /\ Coming \subseteq 1 .. Terminal
         /\ Taken \subseteq Nat /\ Coming \subseteq Nat /\ TakenEvents \subseteq Taken
         /\ ForeGaps \subseteq Fore /\ RearGaps \subseteq Rear /\ TakenGaps \subseteq Taken
         /\ ForeEvents \subseteq Fore /\ RearEvents \subseteq Rear
         /\ Taken \subseteq Fore \union Rear /\ Coming \subseteq Rear /\ Below(Taken, Coming)
         /\ Top \in Nat /\ Terminal \in Nat /\ last_sequence \in Nat /\ live \subseteq Nat /\ gap_mark \in Nat
         /\ seen \in Nat /\ ack_cursor \in Nat /\ retired \in Nat
         /\ last_sent_sequence \in Nat /\ paused_sequence \in Nat /\ paused \in BOOLEAN
         /\ last_sent_sequence <= Top
         /\ \A range \in ranges : range.base \in Nat /\ range.end \in Nat
         /\ submissions \subseteq Submissions /\ \A s \in submissions : s.seq \in Nat /\ s.task \in Tasks
         /\ Len(unacked) \in Nat /\ MaxOutstanding \in Nat \ {0} /\ QueueSize \in Nat \ {0}
         /\ sdk \in {"python", "typescript", "java"} /\ (Java => Strict)
<1>1. Typed /\ Ordered /\ RearOrdered /\ ForeOrdered /\ FeedTyped /\ AckTyped /\ AppTyped /\ Inv
  BY PartsHold DEF FInv
<1>2. /\ Fore \subseteq 1 .. Terminal /\ Rear \subseteq 1 .. Terminal /\ ForeEvents \subseteq Fore /\ RearEvents \subseteq Rear
      /\ HandMarks \subseteq 1 .. Terminal /\ Marks(queue) \subseteq 1 .. Terminal /\ HeldMarks \subseteq 1 .. Terminal
      /\ Marks(to_client) \subseteq 1 .. Terminal /\ queue \in Seq(Frames) /\ to_client \in Seq(Frames)
      /\ last_sent_sequence \in Nat /\ paused_sequence \in Nat /\ paused \in BOOLEAN /\ Top \in Nat /\ Terminal \in Nat
  BY <1>1, PipelineTyped
<1>3. /\ seen \in Nat /\ ack_cursor \in Nat /\ retired \in Nat /\ last_sequence \in Nat /\ live \subseteq Nat
      /\ gap_mark \in Nat
      /\ \A range \in ranges : range.base \in Nat /\ range.end \in Nat
  BY <1>1, <1>2 DEF AppTyped, AckTyped, FeedTyped
<1>4. submissions \subseteq Submissions /\ \A s \in submissions : s.seq \in Nat /\ s.task \in Tasks
  BY <1>1, <1>2 DEF AckTyped, Submissions
<1>5. HeldEvents \subseteq HeldMarks /\ HeldGaps \subseteq HeldMarks
  BY <1>1, HeldTyped DEF HeldGaps, HeldMarks
<1>6. ForeGaps \subseteq Fore /\ RearGaps \subseteq Rear
  <2>1. GapMarks(queue) \subseteq Marks(queue) /\ GapMarks(to_client) \subseteq Marks(to_client)
    BY <1>2, GapMarksTyped
  <2>2. HandGaps \subseteq HandMarks
    BY DEF HandGaps, HandMarks, NoFrame, Mark
  <2> QED BY <1>5, <2>1, <2>2 DEF ForeGaps, RearGaps, Fore, Rear
<1>7. /\ Taken \subseteq 1 .. Terminal /\ Coming \subseteq 1 .. Terminal /\ TakenEvents \subseteq Taken
      /\ TakenGaps \subseteq Taken /\ Taken \subseteq Fore \union Rear /\ Coming \subseteq Rear
  BY <1>2, <1>5, <1>6 DEF Taken, Coming, TakenEvents, TakenGaps, Rear
<1>8. Below(Taken, Coming)
  BY <1>1, <1>7 DEF Ordered, RearOrdered, Taken, Coming, Rear, Below
<1>9. last_sent_sequence <= Top
  BY <1>1, <1>2 DEF Ordered, Top
<1>10. sdk \in {"python", "typescript", "java"} /\ (Java => Strict) /\ MaxOutstanding \in Nat \ {0} /\ QueueSize \in Nat \ {0}
  BY <1>1, Constants DEF Typed, Java, Strict
<1>11. Len(unacked) \in Nat
  BY <1>1, LenProperties DEF Inv, TypeOK
<1>12. /\ Fore \subseteq Nat /\ Rear \subseteq Nat /\ HandMarks \subseteq Nat /\ Marks(queue) \subseteq Nat
       /\ HeldMarks \subseteq Nat /\ Marks(to_client) \subseteq Nat /\ Taken \subseteq Nat /\ Coming \subseteq Nat
  BY <1>2, <1>7
<1> QED BY <1>2, <1>3, <1>4, <1>6, <1>7, <1>8, <1>9, <1>10, <1>11, <1>12

LEMMA WirePages ==
  ASSUME FInv
  PROVE  \A i \in DOMAIN to_client :
           /\ to_client[i] \in Frames
           /\ to_client[i].kind = "page" => to_client[i].page \in HostPages /\ to_client[i].page.base \in Nat /\ to_client[i].page.end \in Nat
<1>1. to_client \in Seq(Frames) /\ Terminal \in Nat
  BY RoomTyped, PartsHold DEF WireTyped
<1>2. ASSUME NEW i \in DOMAIN to_client PROVE to_client[i] \in Frames
  BY <1>1
<1>3. ASSUME NEW x \in Frames, x.kind = "page" PROVE x.page \in HostPages /\ x.page.base \in Nat /\ x.page.end \in Nat
  <2>1. x \in Answers
    BY <1>3, NoteKinds DEF Frames
  <2>2. x.page \in HostPages
    BY <1>3, <2>1 DEF Answers, Settled
  <2> QED BY <1>1, <2>2 DEF HostPages
<1> QED BY <1>2, <1>3

LEMMA RoomTypedAfter ==
  ASSUME FInv'
  PROVE  /\ last_sequence' \in Nat /\ ack_cursor' \in Nat /\ seen' \in Nat /\ last_sent_sequence' \in Nat
         /\ paused_sequence' \in Nat /\ retired' \in Nat /\ live' \subseteq Nat /\ gap_mark' \in Nat
         /\ ack_cursor' <= seen'
         /\ submissions' \subseteq Submissions /\ \A s \in submissions' : s.seq \in Nat /\ s.task \in Tasks
<1>1. Terminal \in Nat
  BY Constants
<1>2. /\ last_sequence' \in 0 .. Terminal /\ ack_cursor' \in 0 .. Terminal /\ seen' \in 0 .. Terminal
      /\ last_sent_sequence' \in Nat /\ paused_sequence' \in Nat /\ retired' \in 0 .. Terminal
      /\ live' \subseteq 1 .. Terminal /\ gap_mark' \in 0 .. Terminal
  BY DEF FInv, Typed, FeedTypeOK, TypeOK
<1>3. submissions' \subseteq Submissions
  BY DEF FInv, Typed, FeedTypeOK, Submissions
<1>4. ack_cursor' <= seen'
  BY DEF FInv, Consumed
<1>5. \A s \in submissions' : s.seq \in Nat /\ s.task \in Tasks
  BY <1>1, <1>3 DEF Submissions
<1> QED BY <1>1, <1>2, <1>3, <1>4, <1>5

LEMMA KnownGrows ==
  ASSUME FInv, AcksGrow, NEW a \in Nat, Known(a)
  PROVE  Known(a)'
<1>1. ack_cursor \in Nat
  BY RoomTyped
<1>2. CASE a <= ack_cursor
  BY <1>1, <1>2 DEF AcksGrow, Known
<1>3. ASSUME NEW s \in submissions, s.written, s.seq = a PROVE Known(a)'
  BY <1>3 DEF AcksGrow, Known, Named
<1> QED BY <1>2, <1>3 DEF Known

LEMMA UnackedBefore ==
  ASSUME FInv, FInv', AcksGrow, NEW w \in Nat, Unacked(w)'
  PROVE  Unacked(w)
<1>1. /\ ack_cursor \in Nat /\ ack_cursor' \in Nat /\ ack_cursor' >= ack_cursor /\ ack_cursor' < w
      /\ \A s \in submissions : s.seq \in Nat
  BY RoomTyped DEF AcksGrow, Unacked
<1>2. ASSUME NEW s \in submissions PROVE s.seq < w
  <2>1. CASE s.seq <= ack_cursor'
    BY <1>1, <2>1
  <2>2. ASSUME NEW t \in submissions', Named(t) = Named(s) PROVE s.seq < w
    BY <2>2 DEF Named, Unacked
  <2> QED BY <2>1, <2>2 DEF AcksGrow
<1> QED BY <1>1, <1>2 DEF Unacked

\* What a step that does not concern them keeps.
LEMMA LicencesStay ==
  ASSUME FInv, Licences, UNCHANGED vars, AcksGrow, RearEvents' \subseteq RearEvents,
         WritesKnown'
  PROVE  Licences'
<1>1. UNCHANGED <<unacked, last_sent_sequence, acks>>
  BY HostStays
<1>2. Len(unacked) \in Nat /\ last_sent_sequence \in Nat /\ RearEvents \subseteq Nat
  BY RoomTyped
<1>3. WindowRuns'
  <2>1. last_sent_sequence - Len(unacked) \in Nat
    BY <1>2 DEF Licences, WindowRuns
  <2>2. ASSUME NEW n \in Nat, n = last_sent_sequence - Len(unacked)
        PROVE  Known(last_sent_sequence - Len(unacked))'
    <3>1. Known(n)
      BY <2>2 DEF Licences, WindowRuns
    <3>2. Known(n)'
      BY <3>1, KnownGrows
    <3>3. n = (last_sent_sequence - Len(unacked))'
      BY <1>1, <2>2
    <3> QED BY <3>2, <3>3 DEF Known
  <2>3. Known(last_sent_sequence - Len(unacked))'
    BY <2>1, <2>2
  <2> QED BY <1>1, <2>3 DEF Licences, WindowRuns
<1>4. ASSUME NEW seq \in RearEvents' PROVE Licensed(seq)'
  <2>1. PICK a \in 0 .. seq - 1 : Known(a) /\ seq <= a + MaxOutstanding
    BY <1>4 DEF Licences, Licensed
  <2>2. Known(a)'
    BY <2>1, KnownGrows
  <2> QED BY <2>1, <2>2 DEF Licensed, Known
<1>5. ASSUME NEW acked \in acks PROVE Known(acked)'
  BY KnownGrows, DebtTyped DEF Licences
<1>6. \A acked \in acks' : Known(acked)'
  BY <1>1, <1>5
<1>7. \A seq \in RearEvents' : Licensed(seq)'
  BY <1>4
<1> QED BY <1>3, <1>6, <1>7 DEF Licences

LEMMA NotedStays ==
  ASSUME FInv, FInv', Noted, UNCHANGED <<sdk, live>>, Taken' \subseteq Taken, TakenEvents' \subseteq TakenEvents,
         last_sequence' >= last_sequence, Strict => ack_cursor' <= last_sequence'
  PROVE  Noted'
<1>1. last_sequence \in Nat /\ last_sequence' \in Nat /\ Taken \subseteq Nat /\ live \subseteq Nat
  BY RoomTyped, RoomTypedAfter
<1> QED BY <1>1 DEF Noted, Strict

LEMMA BridgedStays ==
  ASSUME FInv, FInv', Bridged, UNCHANGED vars, seen' = seen, ranges \subseteq ranges', Coming' \subseteq Coming,
         last_sequence' >= last_sequence \/ last_sequence' \in Coming
  PROVE  Bridged'
<1>1. last_sequence \in Nat /\ last_sequence' \in Nat /\ seen \in Nat /\ Top' = Top
  BY RoomTyped, RoomTypedAfter, HostStays
<1>2. ASSUME NEW b \in 0 .. seen - 1, b < last_sequence, Below({b}, Coming) PROVE b < last_sequence'
  BY <1>1, <1>2 DEF Below
<1>3. \A b : Below({b}, Coming) => Below({b}, Coming')
  BY DEF Below
<1>4. \A b : Paged(b) => Paged(b)'
  BY DEF Paged
<1> QED BY <1>1, <1>2, <1>3, <1>4 DEF Bridged

LEMMA SeenKnownStays ==
  ASSUME FInv, FInv', SeenKnown, seen' = seen, ack_cursor' >= ack_cursor, live \subseteq live', ranges \subseteq ranges',
         iterator = "gap" => (iterator' = "gap" /\ hand' = hand) \/ hand.watermark <= ack_cursor
  PROVE  SeenKnown'
<1>1. seen \in Nat /\ ack_cursor \in Nat /\ ack_cursor' \in Nat
  BY RoomTyped, RoomTypedAfter
<1>2. seen <= ack_cursor => seen <= ack_cursor'
  BY <1>1
<1> QED BY <1>2 DEF SeenKnown

LEMMA DebtsStay ==
  ASSUME FInv, FInv', Debts, UNCHANGED <<vars, sdk>>, submissions' \subseteq submissions,
         Strict => last_sequence' >= last_sequence,
         \/ recovery' = recovery
         \/ \A s \in submissions' : s.task # "recovery",
         Marks(queue)' \union Rear' \subseteq Marks(queue) \union Rear,
         HandMarks' \subseteq HandMarks \union Marks(queue) \union Rear
  PROVE  Debts'
<1>1. /\ last_sequence \in Nat /\ last_sequence' \in Nat /\ \A s \in submissions : s.seq \in Nat
      /\ Top' = Top /\ Marks(queue) \subseteq Nat /\ Rear \subseteq Nat /\ HandMarks \subseteq Nat
  BY RoomTyped, RoomTypedAfter, HostStays
<1>2. \A s \in submissions' : s.observed /\ (Strict' => s.seq <= last_sequence' \/ s.covered)
  BY <1>1 DEF Debts, Strict
<1>3. \A s, t \in submissions' : s.task = "recovery" => recovery' = "acking" /\ (t.task = "recovery" => s = t)
  BY DEF Debts
<1>4. ASSUME NEW s \in submissions', s.task = "iterator"
      PROVE  /\ s.seq <= Top' /\ Below({s.seq}, Marks(queue)' \union Rear')
             /\ \A m \in HandMarks' : s.seq <= m /\ (Java' => s.seq < m)
  <2>1. s \in submissions /\ s.seq <= Top /\ Below({s.seq}, Marks(queue) \union Rear) /\ s.seq \in Nat
        /\ \A m \in HandMarks : s.seq <= m /\ (Java => s.seq < m)
    BY <1>1, <1>4 DEF Debts
  <2>2. Below({s.seq}, Marks(queue)' \union Rear')
    BY <2>1 DEF Below
  <2>3. ASSUME NEW m \in HandMarks' PROVE s.seq <= m /\ (Java => s.seq < m)
    <3>1. CASE m \in HandMarks
      BY <2>1, <3>1
    <3>2. CASE m \in Marks(queue) \union Rear
      <4>1. s.seq < m /\ m \in Nat
        BY <1>1, <2>1, <3>2 DEF Below
      <4> QED BY <2>1, <4>1
    <3> QED BY <2>3, <3>1, <3>2
  <2> QED BY <1>1, <2>1, <2>2, <2>3 DEF Java
<1> QED BY <1>2, <1>3, <1>4 DEF Debts

LEMMA GapsStay ==
  ASSUME FInv, FInv', Gaps, UNCHANGED <<vars, sdk, gap_mark>>, AcksGrow,
         ForeGaps' \union RearGaps' \subseteq ForeGaps \union RearGaps, TakenGaps' \subseteq TakenGaps,
         \A i \in DOMAIN to_client' : \E j \in DOMAIN to_client : to_client'[i] = to_client[j]
  PROVE  Gaps'
<1>1. /\ ForeGaps \union RearGaps \subseteq Nat /\ TakenGaps \subseteq Nat
      /\ UNCHANGED <<paused, paused_sequence>>
  BY RoomTyped, HostStays
<1>2. \A w \in Nat : Unacked(w)' => Unacked(w)
  BY UnackedBefore
<1>3. \A w \in ForeGaps' \union RearGaps' : Unacked(w)' => paused' /\ paused_sequence' = w
  BY <1>1, <1>2 DEF Gaps
<1>4. \A w \in TakenGaps' : Unacked(w)' => gap_mark' = w
  BY <1>1, <1>2 DEF Gaps
<1>5. \A i \in DOMAIN to_client' : to_client'[i].kind = "gap" => to_client'[i].from = to_client'[i].watermark
  BY DEF Gaps
<1> QED BY <1>3, <1>4, <1>5 DEF Gaps

\* What the feed has received lies below what comes, or was acknowledged.
LEMMA LatestAfter ==
  ASSUME FInv'
  PROVE  \/ last_sequence' <= ack_cursor'
         \/ last_sequence' <= Top' /\ Below({last_sequence'}, Coming')
BY DEF FInv, Latest, Coming, Below

LEMMA AdjoinsStays ==
  ASSUME FInv, FInv', Adjoins, UNCHANGED <<vars, sdk>>, AcksGrow,
         queue_state' = "open" => queue_state = "open", Coming' \subseteq Coming,
         Strict /\ queue_state = "open" =>
           \A a \in (Coming \ Coming') \union {last_sequence} : a <= last_sequence' \/ Known(a)'
  PROVE  Adjoins'
<1>1. /\ Coming \subseteq 1 .. Terminal /\ Terminal \in Nat /\ last_sent_sequence \in Nat
      /\ last_sequence \in Nat /\ last_sequence' \in Nat /\ ack_cursor' \in Nat
      /\ UNCHANGED <<paused, last_sent_sequence>> /\ Top' = Top
  BY RoomTyped, RoomTypedAfter, HostStays
<1> SUFFICES ASSUME Strict, queue_state' = "open"
             PROVE  /\ \A m \in Coming' : Adjacent(m - 1)'
                    /\ ~ paused' => Adjacent(last_sent_sequence)'
  BY DEF Adjoins, Strict
<1>2. queue_state = "open"
  OBVIOUS
<1>3. ASSUME NEW a \in Nat, Adjacent(a), last_sequence' <= Top' /\ Below({last_sequence'}, Coming') => last_sequence' <= a
      PROVE  Adjacent(a)'
  <2>1. CASE Known(a)
    BY <2>1, KnownGrows DEF Adjacent
  <2>2. CASE a \in Coming'
    BY <2>2 DEF Adjacent
  <2>3. CASE a <= last_sequence' \/ Known(a)'
    <3>1. CASE a = last_sequence'
      BY <3>1 DEF Adjacent
    <3>2. CASE a < last_sequence'
      <4>1. last_sequence' <= ack_cursor'
        BY <1>1, <1>3, <3>2, LatestAfter
      <4>2. a <= ack_cursor'
        BY <1>1, <3>2, <4>1
      <4> QED BY <4>2 DEF Adjacent, Known
    <3>3. CASE Known(a)'
      BY <3>3 DEF Adjacent
    <3> QED BY <1>1, <2>3, <3>1, <3>2, <3>3
  <2> QED BY <1>2, <1>3, <2>1, <2>2, <2>3 DEF Adjacent
<1>4. ASSUME NEW m \in Coming' PROVE Adjacent(m - 1)'
  <2>1. m \in Nat /\ m - 1 \in Nat /\ Adjacent(m - 1)
    BY <1>1, <1>2 DEF Adjoins
  <2>2. Below({last_sequence'}, Coming') => last_sequence' <= m - 1
    BY <1>1, <2>1 DEF Below
  <2>3. ASSUME NEW a \in Nat, a = m - 1 PROVE Adjacent(a)'
    BY <1>3, <2>1, <2>2, <2>3
  <2> QED BY <2>1, <2>3 DEF Adjacent
<1>5. ASSUME ~ paused' PROVE Adjacent(last_sent_sequence)'
  <2>1. ~ paused /\ Adjacent(last_sent_sequence)
    BY <1>1, <1>2, <1>5 DEF Adjoins
  <2>2. Top' = last_sent_sequence
    BY <1>1, <2>1 DEF Top
  <2>3. ASSUME NEW a \in Nat, a = last_sent_sequence PROVE Adjacent(a)'
    BY <1>1, <1>3, <2>1, <2>2, <2>3
  <2> QED BY <1>1, <2>3 DEF Adjacent
<1> QED BY <1>4, <1>5

LEMMA RoomStays ==
  ASSUME Room, UNCHANGED <<sdk, ack_cursor, retired>>, EventMarks(queue)' \subseteq EventMarks(queue)
  PROVE  Room'
BY DEF Room, Java

\* An ACK retires events of the queue.
LEMMA RetiresMarks ==
  ASSUME NEW seq PROVE Retires(seq) <=> \E m \in EventMarks(queue) : m <= seq
BY DEF Retires, EventMarks

LEMMA WaitingStays ==
  ASSUME FInv, Waiting, UNCHANGED <<sdk, held>>,
         \A s \in submissions' : s.task = "recovery" => \E t \in submissions : Named(t) = Named(s),
         EventMarks(queue)' \subseteq EventMarks(queue),
         held # <<>> => recovery' \in {recovery, "idle"}
  PROVE  Waiting'
<1> SUFFICES ASSUME ~ Java PROVE Waiting'
  BY DEF Waiting, Java
<1>1. \A seq : Retires(seq)' => Retires(seq)
  <2>1. \A seq : Retires(seq)' => \E m \in EventMarks(queue)' : m <= seq
    BY DEF Retires, EventMarks
  <2> QED BY <2>1, RetiresMarks
<1>2. HeldMarks' = HeldMarks
  BY DEF HeldMarks
<1>3. ASSUME NEW s \in submissions', s.task = "recovery"
      PROVE  /\ Below({s.seq}, HeldMarks')
             /\ \A i \in DOMAIN held' :
                  held'[i].item.kind = "event" /\ held'[i].seq <= s.seq + QueueSize /\ Retires(s.seq)'
                  => Named(s) \in held'[i].waits_for
  <2> PICK t \in submissions : Named(t) = Named(s)
    BY <1>3
  <2>1. t.task = "recovery" /\ t.seq = s.seq
    BY <1>3 DEF Named
  <2> QED BY <1>1, <1>2, <2>1 DEF Waiting
<1>4. held' # <<>> => recovery' \in {"idle", "acking"}
  BY DEF Waiting
<1> QED BY <1>3, <1>4 DEF Waiting, Retires, Named

LEMMA FencingStays ==
  ASSUME FInv, Fencing, UNCHANGED <<sdk, held>>, AcksGrow, EventMarks(queue)' \subseteq EventMarks(queue)
  PROVE  Fencing'
<1> SUFFICES ASSUME Java, held # <<>> PROVE Fencing'
  BY DEF Fencing, Java
<1>0. ack_cursor \in Nat /\ ack_cursor' \in Nat /\ ack_cursor' >= ack_cursor /\ \A s \in submissions : s.seq \in Nat
  BY RoomTyped DEF AcksGrow
<1>1. \A seq : Retires(seq)' => Retires(seq)
  <2>1. \A seq : Retires(seq)' => \E m \in EventMarks(queue)' : m <= seq
    BY DEF Retires, EventMarks
  <2> QED BY <2>1, RetiresMarks
<1>2. held[1].item.kind = "event"
  BY DEF Fencing
<1> PICK a \in 0 .. held[1].seq - 1 : held[1].seq <= a + MaxOutstanding /\ FencedBy(held[1], a)
  BY DEF Fencing
<1>3. CASE a <= ack_cursor
  <2>1. a <= ack_cursor'
    BY <1>0, <1>3
  <2> QED BY <1>2, <2>1 DEF Fencing, FencedBy
<1>4. ASSUME NEW s \in submissions, s.seq = a,
             a + 1 = held[1].seq /\ Retires(a) => Named(s) \in held[1].waits_for
      PROVE  Fencing'
  <2>1. CASE s.seq <= ack_cursor'
    BY <1>2, <1>4, <2>1 DEF Fencing, FencedBy
  <2>2. ASSUME NEW t \in submissions', Named(t) = Named(s) PROVE Fencing'
    <3>1. t.seq = a
      BY <1>4, <2>2 DEF Named
    <3>2. a + 1 = held[1].seq /\ Retires(a)' => Named(t) \in held[1].waits_for
      BY <1>1, <1>4, <2>2
    <3>3. FencedBy(held[1], a)'
      BY <3>1, <3>2 DEF FencedBy, Named, Retires
    <3> QED BY <1>2, <3>3 DEF Fencing, FencedBy, Retires, Named
  <2> QED BY <2>1, <2>2 DEF AcksGrow
<1> QED BY <1>3, <1>4 DEF FencedBy
--------
(* The steps of the iterator. *)

LEMMA AcksStay ==
  ASSUME FInv, UNCHANGED <<ack_cursor, submissions>>
  PROVE  AcksGrow
<1>1. ack_cursor \in Nat
  BY RoomTyped
<1> QED BY <1>1 DEF AcksGrow

\* The parts that are about what is taken and what comes.
LEMMA PipelineStays ==
  ASSUME UNCHANGED <<sdk, to_client, held>>
  PROVE  /\ UNCHANGED <<Java, Strict, Coming, Rear, RearEvents, RearGaps, HeldMarks, HeldEvents, HeldGaps>>
         /\ Fore' \subseteq Fore => Taken' \subseteq Taken
         /\ ForeEvents' \subseteq ForeEvents => TakenEvents' \subseteq TakenEvents
         /\ ForeGaps' \subseteq ForeGaps => TakenGaps' \subseteq TakenGaps
<1>1. UNCHANGED <<Java, Strict, HeldMarks, HeldEvents, HeldGaps>>
  BY DEF Java, Strict, HeldMarks, HeldEvents, HeldGaps
<1>2. UNCHANGED <<Marks(to_client), EventMarks(to_client), GapMarks(to_client)>>
  BY DEF Marks, EventMarks, GapMarks, Places
<1>3. UNCHANGED <<Coming, Rear, RearEvents, RearGaps>>
  BY <1>1, <1>2 DEF Coming, Rear, RearEvents, RearGaps
<1> QED BY <1>1, <1>3 DEF Taken, TakenEvents, TakenGaps

\* A step of the iterator: the wire, the lane, the feed and the ACKs stay.
LEMMA IteratorMovesRoom ==
  ASSUME FInv, FInv', RoomInv,
         UNCHANGED <<vars, to_client, to_host, feed, held, retired, ack_cursor, submissions, recovery>>,
         queue_state' = "open" => queue_state = "open",
         Fore' \subseteq Fore, ForeEvents' \subseteq ForeEvents, ForeGaps' \subseteq ForeGaps,
         Marks(queue)' \subseteq Marks(queue), EventMarks(queue)' \subseteq EventMarks(queue),
         HandMarks' \subseteq HandMarks \union Marks(queue),
         seen' >= seen, Bridged', SeenKnown'
  PROVE  RoomInv'
<1>0. /\ Licences /\ Noted /\ Bridged /\ Served /\ SeenKnown /\ Debts /\ Gaps /\ Adjoins /\ Room /\ Waiting /\ Fencing
      /\ AcksGrow /\ UNCHANGED <<sdk, live, ranges, gap_mark, last_sequence>>
  BY AcksStay DEF RoomInv, feed
<1>1. /\ UNCHANGED <<Java, Strict, Coming, Rear, RearEvents, RearGaps, HeldMarks>>
      /\ Taken' \subseteq Taken /\ TakenEvents' \subseteq TakenEvents /\ TakenGaps' \subseteq TakenGaps
  BY <1>0, PipelineStays
<1>2. last_sequence \in Nat /\ Rear \subseteq Nat
  BY RoomTyped
<1>3. Licences'
  <2>1. WritesKnown'
    BY <1>0 DEF Licences, WritesKnown, Known
  <2> QED BY <1>0, <1>1, <2>1, LicencesStay
<1>4. Noted'
  <2>1. Strict => ack_cursor' <= last_sequence'
    BY <1>0 DEF Noted
  <2> QED BY <1>0, <1>1, <1>2, <2>1, NotedStays
<1>5. Served'
  <2>1. seen \in Nat /\ seen' \in Nat /\ \A i \in DOMAIN to_client : to_client[i].kind = "page" => to_client[i].page.base \in Nat
    BY RoomTyped, RoomTypedAfter, WirePages
  <2> QED BY <1>0, <2>1 DEF Served
<1>6. Debts'
  BY <1>0, <1>1, <1>2, DebtsStay
<1>7. Gaps'
  BY <1>0, <1>1, GapsStay
<1>8. Adjoins'
  BY <1>0, <1>1, <1>2, AdjoinsStays
<1>9. Room'
  BY <1>0, RoomStays
<1>10. Waiting'
  BY <1>0, WaitingStays
<1>11. Fencing'
  BY <1>0, FencingStays
<1> QED BY <1>3, <1>4, <1>5, <1>6, <1>7, <1>8, <1>9, <1>10, <1>11 DEF RoomInv

LEMMA HandIsMarked ==
  ASSUME FInv
  PROVE  /\ hand.kind = "event" => hand.seq \in ForeEvents /\ hand.seq \in Fore /\ hand.seq \in HandMarks /\ hand # NoFrame
         /\ hand.kind = "gap" => hand.watermark \in ForeGaps /\ hand.watermark \in Fore /\ hand.watermark \in HandMarks
                                 /\ hand # NoFrame
<1>1. hand \in Notes \union {NoFrame} /\ NoFrame.kind = "none"
  BY PartsHold DEF AppTyped, NoFrame
<1> QED BY <1>1, NoteKinds DEF ForeEvents, Fore, HandEvents, HandMarks, ForeGaps, HandGaps, Mark

\* The head of the queue is taken: the marks and the gaps it leaves.
LEMMA QueueHeadTaken ==
  ASSUME FInv, hand = NoFrame, queue # <<>>, hand' = Head(queue), queue' = Tail(queue)
  PROVE  /\ Marks(queue)' \subseteq Marks(queue) /\ EventMarks(queue)' \subseteq EventMarks(queue)
         /\ HandMarks' \subseteq Marks(queue) /\ ForeGaps' \subseteq ForeGaps
<1>1. queue \in Seq(Frames) /\ Rising(queue) /\ queue \in Seq(Notes)
  BY PartsHold, PipelineTyped DEF ForeOrdered, QueueTyped
<1>2. Head(queue) \in Notes
  BY <1>1, HeadTailProperties
<1>3. /\ Marks(queue) = Marks(Tail(queue)) \union {Mark(Head(queue))}
      /\ EventMarks(Tail(queue)) \subseteq EventMarks(queue)
  BY <1>1, <1>2, TailMarks
<1>4. GapMarks(Tail(queue)) \subseteq GapMarks(queue)
  BY <1>1, TailPicks, GapMarksPicked
<1>5. Head(queue).kind = "gap" => Head(queue).watermark \in GapMarks(queue)
  BY <1>1, TailPicks DEF GapMarks
<1>6. Mark(hand)' = Mark(Head(queue))
  BY DEF Mark
<1> QED BY <1>3, <1>4, <1>5, <1>6 DEF HandMarks, ForeGaps, HandGaps

LEMMA TakesRoom ==
  ASSUME FInv, FInv', RoomInv, Takes
  PROVE  RoomInv'
<1>0. /\ Bridged /\ SeenKnown /\ IteratorPhases /\ seen \in Nat /\ last_sequence \in Nat /\ ack_cursor \in Nat
      /\ UNCHANGED <<vars, to_client, to_host, feed, held, queue_state, retired, ack_cursor, submissions, recovery, seen>>
  BY PartsHold, RoomTyped DEF RoomInv, Takes, Get, Drain, wires, acking
<1>1. hand = NoFrame /\ iterator # "gap"
  BY <1>0 DEF Takes, Get, Drain, IteratorPhases
<1>2. Bridged' /\ SeenKnown'
  <2>1. UNCHANGED <<live, ranges, last_sequence, Coming>>
    BY <1>0, PipelineStays DEF feed
  <2> QED BY <1>0, <1>1, <2>1, BridgedStays, SeenKnownStays
<1>3. CASE queue # <<>> /\ hand' = Head(queue) /\ queue' = Tail(queue)
  <2>1. Fore' = Fore /\ ForeEvents' = ForeEvents
    BY <1>0, <1>1, <1>3, TakenFromQueue
  <2>2. /\ Marks(queue)' \subseteq Marks(queue) /\ EventMarks(queue)' \subseteq EventMarks(queue)
        /\ HandMarks' \subseteq Marks(queue) /\ ForeGaps' \subseteq ForeGaps
    BY <1>1, <1>3, QueueHeadTaken
  <2> QED BY <1>0, <1>2, <2>1, <2>2, IteratorMovesRoom
<1>4. CASE UNCHANGED <<hand, queue>>
  <2>1. UNCHANGED <<Fore, ForeEvents, HandMarks, Marks(queue), EventMarks(queue)>>
    BY <1>4, ForeStays
  <2>2. UNCHANGED ForeGaps
    BY <1>4 DEF ForeGaps, HandGaps, GapMarks
  <2> QED BY <1>0, <1>2, <2>1, <2>2, IteratorMovesRoom
<1> QED BY <1>3, <1>4 DEF Takes, Get, Drain

\* The iterator is done with what it has in hand, or goes on with it.
LEMMA HandMovesRoom ==
  ASSUME FInv, FInv', RoomInv, IteratorOnly, hand' \in {hand, NoFrame}, seen' >= seen, Bridged', SeenKnown'
  PROVE  RoomInv'
<1>1. UNCHANGED <<vars, to_client, to_host, feed, held, queue, queue_state, retired, ack_cursor, submissions, recovery>>
  BY DEF IteratorOnly, wires, mail, acking
<1>2. UNCHANGED <<Marks(queue), EventMarks(queue), GapMarks(queue)>>
  BY <1>1 DEF Marks, EventMarks, GapMarks, Places
<1>3. HandMarks' \subseteq HandMarks /\ HandEvents' \subseteq HandEvents /\ HandGaps' \subseteq HandGaps
  BY DEF HandMarks, HandEvents, HandGaps, NoFrame, Mark
<1>4. Fore' \subseteq Fore /\ ForeEvents' \subseteq ForeEvents /\ ForeGaps' \subseteq ForeGaps
  BY <1>2, <1>3 DEF Fore, ForeEvents, ForeGaps
<1> QED BY <1>1, <1>2, <1>3, <1>4, IteratorMovesRoom

LEMMA IteratesRoom ==
  ASSUME FInv, FInv', RoomInv, IteratorOnly, Skip \/ ConsumeEvent \/ FaceGap \/ LeaveGap \/ OnNext
  PROVE  RoomInv'
<1>0. /\ Bridged /\ SeenKnown /\ Noted /\ IteratorPhases /\ seen \in Nat /\ last_sequence \in Nat /\ ack_cursor \in Nat
      /\ Top \in Nat /\ Coming \subseteq Nat /\ Fore \subseteq Nat
      /\ UNCHANGED <<vars, to_client, held, sdk, live, ranges, last_sequence, ack_cursor>>
  BY PartsHold, RoomTyped DEF RoomInv, IteratorOnly, wires, mail, acking, feed
<1>1. UNCHANGED <<Coming, Top>>
  BY <1>0, PipelineStays, HostStays
<1>2. CASE seen' = seen /\ hand' = hand /\ iterator = "handed"
  <2>1. Bridged' /\ SeenKnown'
    BY <1>0, <1>1, <1>2, BridgedStays, SeenKnownStays
  <2> QED BY <1>0, <1>2, <2>1, HandMovesRoom
<1>3. CASE seen' = seen /\ hand' = NoFrame /\ (iterator = "gap" => hand.watermark <= ack_cursor)
  <2>1. Bridged' /\ SeenKnown'
    BY <1>0, <1>1, <1>3, BridgedStays, SeenKnownStays
  <2> QED BY <1>0, <1>3, <2>1, HandMovesRoom
<1>4. CASE iterator = "handed" /\ hand.kind = "event" /\ seen' = Larger(seen, hand.seq) /\ hand' = hand
  <2>1. hand.seq \in ForeEvents /\ hand.seq \in Fore
    BY <1>0, <1>4, HandIsMarked
  <2>2. hand.seq \in Taken /\ hand.seq \in live /\ hand.seq <= last_sequence /\ hand.seq \in Nat
    BY <1>0, <2>1 DEF Noted, Taken, TakenEvents
  <2>3. hand.seq <= Top /\ Below({hand.seq}, Coming)
    <3>1. Ordered /\ ForeOrdered /\ Coming \subseteq Rear
      BY PartsHold, RoomTyped
    <3> QED BY <2>1, <3>1 DEF Ordered, ForeOrdered, Below
  <2>4. Bridged'
    <3>1. ASSUME NEW b \in Nat, b < hand.seq PROVE b < last_sequence /\ b < Top /\ Below({b}, Coming)
      BY <1>0, <2>2, <2>3, <3>1 DEF Below
    <3>2. \A b \in 0 .. seen' - 1 : b \in 0 .. seen - 1 \/ (b \in Nat /\ b < hand.seq)
      BY <1>0, <1>4, <2>2 DEF Larger
    <3> QED BY <1>0, <1>1, <3>1, <3>2 DEF Bridged, Paged
  <2>5. SeenKnown'
    <3>1. seen' = seen \/ seen' = hand.seq
      BY <1>4 DEF Larger
    <3>2. seen' = hand.seq => seen' \in live'
      BY <1>0, <2>2
    <3> QED BY <1>0, <1>4, <3>1, <3>2 DEF SeenKnown
  <2>6. seen' >= seen
    BY <1>0, <1>4, <2>2 DEF Larger
  <2> QED BY <1>0, <1>4, <2>4, <2>5, <2>6, HandMovesRoom
<1> QED
  <2>1. CASE Skip
    BY <1>3, <2>1 DEF Skip
  <2>2. CASE LeaveGap
    BY <1>3, <2>2 DEF LeaveGap
  <2>3. CASE ConsumeEvent
    BY <1>4, <2>3 DEF ConsumeEvent
  <2>4. CASE FaceGap
    BY <1>2, <2>4 DEF FaceGap
  <2>5. CASE OnNext
    BY <1>2, <1>4, <2>5 DEF OnNext
  <2> QED BY <2>1, <2>2, <2>3, <2>4, <2>5
--------
(* The steps of the ACKs. *)

\* An ACK is submitted or written, a page requested.
LEMMA AckMovesRoom ==
  ASSUME FInv, FInv', RoomInv,
         UNCHANGED <<vars, to_client, feed, mail, ack_cursor, seen>>,
         hand' \in {hand, NoFrame}, iterator = "gap" => iterator' = "gap" /\ hand' = hand,
         AcksGrow, WritesKnown', Debts', Waiting'
  PROVE  RoomInv'
<1>0. /\ Licences /\ Noted /\ Bridged /\ Served /\ SeenKnown /\ Debts /\ Gaps /\ Adjoins /\ Room /\ Waiting /\ Fencing
      /\ UNCHANGED <<sdk, live, ranges, gap_mark, last_sequence, held, queue, queue_state, retired>>
  BY DEF RoomInv, feed, mail
<1>1. UNCHANGED <<Marks(queue), EventMarks(queue), GapMarks(queue)>>
  BY <1>0 DEF Marks, EventMarks, GapMarks, Places
<1>2. HandMarks' \subseteq HandMarks /\ HandEvents' \subseteq HandEvents /\ HandGaps' \subseteq HandGaps
  BY DEF HandMarks, HandEvents, HandGaps, NoFrame, Mark
<1>3. Fore' \subseteq Fore /\ ForeEvents' \subseteq ForeEvents /\ ForeGaps' \subseteq ForeGaps
  BY <1>1, <1>2 DEF Fore, ForeEvents, ForeGaps
<1>4. /\ UNCHANGED <<Java, Strict, Coming, Rear, RearEvents, RearGaps, HeldMarks>>
      /\ Taken' \subseteq Taken /\ TakenEvents' \subseteq TakenEvents /\ TakenGaps' \subseteq TakenGaps
  BY <1>0, <1>3, PipelineStays
<1>5. last_sequence \in Nat /\ ack_cursor \in Nat
  BY RoomTyped
<1>6. Licences'
  BY <1>0, <1>4, LicencesStay
<1>7. Noted'
  <2>1. Strict => ack_cursor' <= last_sequence'
    BY <1>0 DEF Noted
  <2> QED BY <1>0, <1>4, <1>5, <2>1, NotedStays
<1>8. Bridged'
  BY <1>0, <1>4, <1>5, BridgedStays
<1>9. Served'
  BY <1>0 DEF Served
<1>10. SeenKnown'
  BY <1>0, <1>5, SeenKnownStays
<1>11. Gaps'
  BY <1>0, <1>3, <1>4, GapsStay
<1>12. Adjoins'
  BY <1>0, <1>4, <1>5, AdjoinsStays
<1>13. Room'
  BY <1>0, <1>1, RoomStays
<1>14. Fencing'
  BY <1>0, <1>1, FencingStays
<1> QED BY <1>6, <1>7, <1>8, <1>9, <1>10, <1>11, <1>12, <1>13, <1>14 DEF RoomInv

\* Nothing becomes known by a request.
LEMMA RecoverRoom ==
  ASSUME FInv, FInv', RoomInv, Recover, Java \/ ~ WakeupPending
  PROVE  RoomInv'
<1>0. /\ Licences /\ Debts /\ Waiting /\ recovery = "idle" /\ recovery' = "requested" /\ AcksGrow
      /\ UNCHANGED <<vars, to_client, feed, mail, ack_cursor, submissions, iterator, hand, seen>>
      /\ UNCHANGED <<sdk, held, queue, last_sequence>>
      /\ to_host' = Append(to_host, ReplayRequest(seen, MaxReplayEvents))
  BY AcksStay DEF RoomInv, Recover, acking, feed, mail
<1>1. \A s \in submissions : s.task # "recovery"
  BY <1>0 DEF Debts
<1>2. WritesKnown'
  <2>1. UNCHANGED ack_cursor /\ UNCHANGED submissions
    BY <1>0
  <2>2. \A n : Known(n)' <=> Known(n)
    BY <2>1 DEF Known
  <2>3. ASSUME NEW i \in DOMAIN to_host', to_host'[i].kind = "ack"
        PROVE  i \in DOMAIN to_host /\ to_host'[i] = to_host[i]
    BY <1>0, <2>3, SentLast, RequestKinds DEF Sends
  <2>4. ASSUME NEW i \in DOMAIN to_host', to_host'[i].kind = "ack", NEW n, n = to_host'[i].seq PROVE Known(n)'
    BY <1>0, <2>2, <2>3, <2>4 DEF Licences, WritesKnown
  <2> QED BY <2>4 DEF WritesKnown, Known
<1>3. Debts'
  <2>1. UNCHANGED <<Marks(queue), HandMarks, Rear>>
    <3>1. UNCHANGED <<Marks(queue), HandMarks>>
      BY <1>0, ForeStays
    <3> QED BY <1>0, <3>1, PipelineStays
  <2>2. last_sequence \in Nat
    BY RoomTyped
  <2> QED BY <1>0, <1>1, <2>1, <2>2, DebtsStay
<1>4. Waiting'
  <2> SUFFICES ASSUME ~ Java PROVE Waiting'
    BY <1>0 DEF Waiting, Java
  <2>1. CASE held = <<>>
    BY <1>0, <1>1, <2>1 DEF Waiting
  <2>2. CASE held # <<>>
    <3>1. MustWait(Head(held))
      BY <2>2 DEF WakeupPending
    <3>2. PICK s \in submissions : Named(s) \in Head(held).waits_for /\ Retires(s.seq)
      BY <3>1 DEF MustWait
    <3>3. s.task = "iterator"
      BY <1>1, RoomTyped DEF Tasks
    <3>4. PICK m \in EventMarks(queue) : m <= s.seq
      BY <3>2, RetiresMarks
    <3>5. m \in Marks(queue) /\ m \in Nat /\ s.seq \in Nat
      BY PartsHold, PipelineTyped, RoomTyped
    <3>6. s.seq < m
      BY <1>0, <3>3, <3>5 DEF Debts, Below
    <3> QED BY <3>4, <3>5, <3>6
  <2> QED BY <2>1, <2>2
<1> QED BY <1>0, <1>2, <1>3, <1>4, AckMovesRoom

LEMMA WritesStay ==
  ASSUME FInv, AcksGrow, WritesKnown, UNCHANGED to_host
  PROVE  WritesKnown'
<1>1. ASSUME NEW i \in DOMAIN to_host', to_host'[i].kind = "ack", NEW n, n = to_host'[i].seq PROVE Known(n)'
  <2>1. Known(n)
    BY <1>1 DEF WritesKnown
  <2>2. n \in Nat
    BY <1>1, DebtTyped
  <2> QED BY <2>1, <2>2, KnownGrows
<1> QED BY <1>1 DEF WritesKnown, Known

LEMMA Submitted ==
  ASSUME FInv, NEW by, NEW acked, Submit(by, acked), UNCHANGED ack_cursor
  PROVE  AcksGrow /\ \E e : NewSubmission(e, by, acked)
<1>1. ack_cursor \in Nat
  BY RoomTyped
<1>2. submissions \subseteq submissions'
  BY DEF Submit
<1>3. AcksGrow
  BY <1>1, <1>2 DEF AcksGrow
<1> DEFINE e == [task |-> by, seq |-> acked,
                 covered  |-> ReplayCovers(acked) /\ acked > last_sequence,
                 observed |-> \/ ReplayCovers(acked) \/ acked = gap_mark
                              \/ acked <= ack_cursor \/ acked \in live,
                 written |-> FALSE]
<1>4. submissions' = submissions \union {e}
  BY DEF Submit
<1>5. e.task = by /\ e.seq = acked /\ e.written = FALSE
  OBVIOUS
<1>6. ReplayCovers(acked) /\ acked > last_sequence => e.covered
  OBVIOUS
<1>7. ReplayCovers(acked) \/ acked = gap_mark \/ acked \in live => e.observed
  OBVIOUS
<1> HIDE DEF e
<1>8. NewSubmission(e, by, acked)
  BY <1>4, <1>5, <1>6, <1>7 DEF NewSubmission
<1> QED BY <1>3, <1>8

LEMMA IteratorSubmitsRoom ==
  ASSUME FInv, FInv', RoomInv, iterator = "ack", Submit("iterator", hand.seq),
         hand' \in {hand, NoFrame}, Java => hand' = NoFrame,
         UNCHANGED <<vars, to_client, to_host, feed, mail, ack_cursor, recovery, seen>>
  PROVE  RoomInv'
<1>0. /\ Licences /\ Noted /\ Debts /\ Waiting /\ IteratorPhases
      /\ UNCHANGED <<sdk, held, queue, last_sequence, Top, Java, Strict>>
  BY PartsHold, HostStays DEF RoomInv, feed, mail, Java, Strict
<1>1. hand.kind = "event" /\ hand.seq \in ForeEvents /\ hand.seq \in Fore /\ hand.seq \in HandMarks /\ hand # NoFrame
  BY <1>0, HandIsMarked DEF IteratorPhases
<1>2. hand.seq \in TakenEvents /\ hand.seq \in Taken
  BY <1>1 DEF TakenEvents, Taken
<1>3. hand.seq \in live /\ hand.seq <= last_sequence
  BY <1>0, <1>2 DEF Noted
<1>4. hand.seq <= Top /\ Below({hand.seq}, Marks(queue) \union Rear)
  <2>1. Ordered /\ ForeOrdered
    BY PartsHold
  <2> QED BY <1>1, <2>1 DEF Ordered, ForeOrdered, Below
<1>5. HandMarks = {hand.seq}
  BY <1>1 DEF HandMarks, Mark
<1> PICK e : NewSubmission(e, "iterator", hand.seq)
  BY Submitted
<1>6. /\ submissions' = submissions \union {e} /\ e.task = "iterator" /\ e.seq = hand.seq /\ e.written = FALSE
      /\ e.observed
  BY <1>3 DEF NewSubmission
<1>7. AcksGrow
  BY Submitted
<1>8. WritesKnown'
  BY <1>0, <1>7, WritesStay DEF Licences
<1>9. UNCHANGED <<Marks(queue), Rear>>
  <2>1. UNCHANGED Marks(queue)
    BY <1>0 DEF Marks, Places
  <2> QED BY <1>0, <2>1, PipelineStays
<1>10. HandMarks' \subseteq HandMarks /\ (Java => HandMarks' = {})
  BY DEF HandMarks, Mark
<1>11. Debts'
  <2>1. \A s \in submissions' : s.observed /\ (Strict' => s.seq <= last_sequence' \/ s.covered)
    BY <1>0, <1>3, <1>6 DEF Debts
  <2>2. \A s, t \in submissions' : s.task = "recovery" => recovery' = "acking" /\ (t.task = "recovery" => s = t)
    BY <1>0, <1>6 DEF Debts
  <2>3. hand.seq \in Nat
    BY <1>1, RoomTyped
  <2>4. ASSUME NEW s \in submissions', s.task = "iterator"
        PROVE  /\ s.seq <= Top' /\ Below({s.seq}, Marks(queue)' \union Rear')
               /\ \A m \in HandMarks' : s.seq <= m /\ (Java' => s.seq < m)
    <3>1. CASE s = e
      BY <1>0, <1>4, <1>5, <1>6, <1>9, <1>10, <2>3, <3>1
    <3>2. CASE s \in submissions
      BY <1>0, <1>9, <1>10, <2>4, <3>2 DEF Debts
    <3> QED BY <1>6, <3>1, <3>2
  <2> QED BY <2>1, <2>2, <2>4 DEF Debts
<1>12. Waiting'
  <2>1. \A s \in submissions' : s.task = "recovery" => s \in submissions
    BY <1>6
  <2>2. EventMarks(queue)' = EventMarks(queue)
    BY <1>0 DEF EventMarks
  <2> QED BY <1>0, <2>1, <2>2, WaitingStays
<1> QED BY <1>7, <1>8, <1>11, <1>12, AckMovesRoom

LEMMA IteratorAcksRoom ==
  ASSUME FInv, FInv', RoomInv, (~ Java /\ IteratorAcks) \/ (Java /\ AcknowledgeEvent)
  PROVE  RoomInv'
<1>1. CASE Submit("iterator", hand.seq)
  <2>1. /\ iterator = "ack" /\ hand' \in {hand, NoFrame} /\ (Java => hand' = NoFrame)
        /\ UNCHANGED <<vars, to_client, to_host, feed, mail, ack_cursor, recovery, seen>>
    BY DEF IteratorAcks, AcknowledgeEvent, wires
  <2> QED BY <1>1, <2>1, IteratorSubmitsRoom
<1>2. CASE UNCHANGED submissions /\ hand' = NoFrame /\ IteratorAcks
  <2>1. /\ iterator = "ack" /\ Licences /\ Debts /\ Waiting /\ AcksGrow
        /\ UNCHANGED <<vars, to_client, to_host, feed, mail, ack_cursor, submissions, recovery, seen>>
        /\ UNCHANGED <<sdk, held, queue, last_sequence>>
    BY <1>2, AcksStay DEF RoomInv, IteratorAcks, wires, feed, mail
  <2>2. WritesKnown'
    BY <2>1, WritesStay DEF Licences
  <2>3. UNCHANGED <<Marks(queue), EventMarks(queue)>>
    BY <2>1 DEF Marks, EventMarks, Places
  <2>4. UNCHANGED Rear
    BY <2>1, PipelineStays
  <2>5. HandMarks' = {}
    BY <1>2 DEF HandMarks
  <2>6. last_sequence \in Nat
    BY RoomTyped
  <2>7. Debts'
    BY <2>1, <2>3, <2>4, <2>5, <2>6, DebtsStay
  <2>8. Waiting'
    BY <2>1, <2>3, WaitingStays
  <2> QED BY <1>2, <2>1, <2>2, <2>7, <2>8, AckMovesRoom
<1> QED BY <1>1, <1>2 DEF IteratorAcks, AcknowledgeEvent

\* The application has observed what it acknowledges after a recovery.
LEMMA SeenIsObserved ==
  ASSUME FInv, RoomInv, recovery = "consumed", seen > ack_cursor
  PROVE  /\ ReplayCovers(seen) \/ seen = gap_mark \/ seen \in live
         /\ Strict => seen <= last_sequence \/ ReplayCovers(seen)
<1>0. /\ Noted /\ Bridged /\ SeenKnown /\ Debts /\ Gaps /\ seen \in Nat /\ last_sequence \in Nat /\ ack_cursor \in Nat
      /\ \A range \in ranges : range.base \in Nat /\ range.end \in Nat
  BY RoomTyped DEF RoomInv
<1>1. CASE seen \in live
  BY <1>0, <1>1 DEF Noted
<1>2. ASSUME NEW range \in ranges, range.base < seen, seen <= range.end PROVE ReplayCovers(seen)
  <2>1. ASSUME NEW between \in last_sequence .. range.base - 1
        PROVE  \E bridge \in ranges : bridge.base <= between /\ between < bridge.end
    <3>1. between \in 0 .. seen - 1 /\ ~ between < last_sequence
      BY <1>0, <1>2
    <3>2. Paged(between)
      BY <1>0, <3>1 DEF Bridged
    <3> QED BY <3>2 DEF Paged
  <2> QED BY <1>2, <2>1 DEF ReplayCovers
<1>3. CASE iterator = "gap" /\ hand.watermark = seen
  <2>1. /\ IteratorPhases /\ SubmitPhases /\ Consumed /\ submissions \subseteq Submissions
        /\ \A s \in submissions : s.seq \in Nat /\ s.task \in Tasks
    BY PartsHold, RoomTyped
  <2>2. hand.kind = "gap" /\ seen \in ForeGaps /\ seen \in Fore /\ seen \in HandMarks
    BY <1>3, <2>1, HandIsMarked DEF IteratorPhases
  <2>3. ASSUME NEW s \in submissions PROVE s.seq < seen
    <3>1. s.task = "iterator" /\ s.seq \in Nat
      BY <1>0, <2>1 DEF Debts, Tasks
    <3>2. Java
      BY <1>3, <3>1, <2>1 DEF SubmitPhases
    <3> QED BY <1>0, <2>2, <3>1, <3>2 DEF Debts
  <2>4. Unacked(seen)
    BY <2>3 DEF Unacked
  <2>5. seen = gap_mark
    BY <1>0, <2>2, <2>4 DEF Gaps, TakenGaps
  <2>6. seen <= last_sequence
    BY <1>0, <2>2 DEF Noted, Taken
  <2> QED BY <2>5, <2>6
<1> QED BY <1>0, <1>1, <1>2, <1>3 DEF SeenKnown

LEMMA RecoveryAcksRoom ==
  ASSUME FInv, FInv', RoomInv, RecoveryAcks
  PROVE  RoomInv'
<1>0. /\ Licences /\ Noted /\ Debts /\ Waiting /\ recovery = "consumed"
      /\ UNCHANGED <<vars, to_client, to_host, feed, mail, ack_cursor, iterator, hand, seen>>
      /\ UNCHANGED <<sdk, held, queue, last_sequence, Java, Strict>>
      /\ last_sequence \in Nat /\ seen \in Nat /\ ack_cursor \in Nat
  BY RoomTyped DEF RoomInv, RecoveryAcks, wires, feed, mail, Java, Strict
<1>1. \A s \in submissions : s.task # "recovery"
  BY <1>0 DEF Debts
<1>2. UNCHANGED <<Marks(queue), EventMarks(queue), HandMarks, Rear, Top>>
  <2>1. UNCHANGED <<Marks(queue), EventMarks(queue), HandMarks>>
    BY <1>0, ForeStays
  <2> QED BY <1>0, <2>1, PipelineStays, HostStays
<1>3. CASE seen > ack_cursor
  <2>1. Submit("recovery", seen) /\ recovery' = "acking"
    BY <1>3 DEF RecoveryAcks
  <2> PICK e : NewSubmission(e, "recovery", seen)
    BY <1>0, <2>1, Submitted
  <2>2. /\ submissions' = submissions \union {e} /\ e.task = "recovery" /\ e.seq = seen /\ e.written = FALSE
        /\ ReplayCovers(seen) /\ seen > last_sequence => e.covered
        /\ ReplayCovers(seen) \/ seen = gap_mark \/ seen \in live => e.observed
    BY DEF NewSubmission
  <2>3. AcksGrow
    BY <1>0, <2>1, Submitted
  <2>4. e.observed /\ (Strict => e.seq <= last_sequence \/ e.covered)
    <3>1. /\ ReplayCovers(seen) \/ seen = gap_mark \/ seen \in live
          /\ Strict => seen <= last_sequence \/ ReplayCovers(seen)
      BY <1>0, <1>3, SeenIsObserved
    <3> QED BY <1>0, <2>2, <3>1
  <2>5. WritesKnown'
    BY <1>0, <2>3, WritesStay DEF Licences
  <2>6. Debts'
    <3>1. \A s \in submissions' : s.observed /\ (Strict' => s.seq <= last_sequence' \/ s.covered)
      BY <1>0, <2>2, <2>4 DEF Debts
    <3>2. \A s, t \in submissions' : s.task = "recovery" => recovery' = "acking" /\ (t.task = "recovery" => s = t)
      BY <1>1, <2>1, <2>2
    <3>3. \A s \in submissions' : s.task = "iterator" =>
            /\ s.seq <= Top' /\ Below({s.seq}, Marks(queue)' \union Rear')
            /\ \A m \in HandMarks' : s.seq <= m /\ (Java' => s.seq < m)
      BY <1>0, <1>2, <2>2 DEF Debts
    <3> QED BY <3>1, <3>2, <3>3 DEF Debts
  <2>7. Waiting'
    <3> SUFFICES ASSUME ~ Java PROVE Waiting'
      BY <1>0 DEF Waiting, Java
    <3>1. held = <<>> /\ held' = <<>>
      BY <1>0 DEF Waiting
    <3> QED BY <3>1 DEF Waiting, HeldMarks, Below
  <2> QED BY <1>0, <2>3, <2>5, <2>6, <2>7, AckMovesRoom
<1>4. CASE ~ seen > ack_cursor
  <2>1. UNCHANGED submissions /\ recovery' = "idle"
    BY <1>4 DEF RecoveryAcks
  <2>2. AcksGrow
    BY <1>0, <2>1, AcksStay
  <2>3. WritesKnown'
    BY <1>0, <2>2, WritesStay DEF Licences
  <2>4. Debts'
    BY <1>0, <1>1, <1>2, <2>1, DebtsStay
  <2>5. Waiting'
    BY <1>0, <1>2, <2>1, WaitingStays
  <2> QED BY <1>0, <2>2, <2>3, <2>4, <2>5, AckMovesRoom
<1> QED BY <1>3, <1>4

\* A written ACK is known.
LEMMA WriteRoom ==
  ASSUME FInv, FInv', RoomInv, NEW sent \in submissions, Write(sent)
  PROVE  RoomInv'
<1>0. /\ Licences /\ Debts /\ Waiting
      /\ UNCHANGED <<vars, to_client, feed, mail, ack_cursor, iterator, hand, recovery, seen>>
      /\ UNCHANGED <<sdk, held, queue, last_sequence, Java, Strict>>
      /\ last_sequence \in Nat /\ ack_cursor \in Nat /\ to_host' = Append(to_host, AckRequest(sent.seq))
  BY RoomTyped DEF RoomInv, Write, app, feed, mail, Java, Strict
<1>1. PICK w : /\ submissions' = (submissions \ {sent}) \union {w}
               /\ w.task = sent.task /\ w.seq = sent.seq /\ w.observed = sent.observed
               /\ w.covered = sent.covered /\ w.written
  <2>1. sent \in Submissions
    BY RoomTyped
  <2> DEFINE w == [sent EXCEPT !.written = TRUE]
  <2>2. w.task = sent.task /\ w.seq = sent.seq /\ w.observed = sent.observed /\ w.covered = sent.covered /\ w.written
    BY <2>1 DEF Submissions
  <2>3. submissions' = (submissions \ {sent}) \union {w}
    BY DEF Write
  <2> QED BY <2>2, <2>3
<1>2. \A s \in submissions' : \E t \in submissions : /\ Named(t) = Named(s) /\ s.observed = t.observed
                                                     /\ s.covered = t.covered
                                                     /\ s.task = t.task /\ s.seq = t.seq
  BY <1>1 DEF Named
<1>3. AcksGrow
  <2>1. \A s \in submissions : \E t \in submissions' : Named(t) = Named(s) /\ (s.written => t.written)
    BY <1>1 DEF Named
  <2> QED BY <1>0, <2>1 DEF AcksGrow
<1>4. WritesKnown'
  <2>1. ASSUME NEW i \in DOMAIN to_host', to_host'[i].kind = "ack", NEW n, n = to_host'[i].seq PROVE Known(n)'
    <3>1. CASE i \in DOMAIN to_host /\ to_host'[i] = to_host[i]
      <4>1. n \in Nat
        BY <2>1, <3>1, DebtTyped
      <4>2. Known(n)
        BY <1>0, <2>1, <3>1 DEF Licences, WritesKnown
      <4> QED BY <1>3, <4>1, <4>2, KnownGrows
    <3>2. CASE to_host'[i] = AckRequest(sent.seq)
      <4>1. n = sent.seq
        BY <2>1, <3>2, RequestKinds
      <4>2. w \in submissions'
        BY <1>1
      <4> QED BY <1>1, <4>1, <4>2 DEF Known
    <3> QED BY <1>0, <3>1, <3>2, SentLast DEF Sends
  <2> QED BY <2>1 DEF WritesKnown, Known
<1>5. Debts'
  <2>1. UNCHANGED <<Marks(queue), HandMarks, Rear, Top>>
    <3>1. UNCHANGED <<Marks(queue), HandMarks>>
      BY <1>0, ForeStays
    <3> QED BY <1>0, <3>1, PipelineStays, HostStays
  <2>2. \A s \in submissions' : s.observed /\ (Strict' => s.seq <= last_sequence' \/ s.covered)
    BY <1>0, <1>2 DEF Debts
  <2>3. \A s, t \in submissions' : s.task = "recovery" => recovery' = "acking" /\ (t.task = "recovery" => s = t)
    BY <1>0, <1>1 DEF Debts
  <2>4. \A s \in submissions' : s.task = "iterator" =>
          /\ s.seq <= Top' /\ Below({s.seq}, Marks(queue)' \union Rear')
          /\ \A m \in HandMarks' : s.seq <= m /\ (Java' => s.seq < m)
    BY <1>0, <1>2, <2>1 DEF Debts
  <2> QED BY <2>2, <2>3, <2>4 DEF Debts
<1>6. Waiting'
  <2>1. EventMarks(queue)' = EventMarks(queue)
    BY <1>0 DEF EventMarks
  <2> QED BY <1>0, <1>2, <2>1, WaitingStays
<1> QED BY <1>0, <1>3, <1>4, <1>5, <1>6, AckMovesRoom

\* An ACK is committed.
LEMMA CommitMovesRoom ==
  ASSUME FInv, FInv', RoomInv, NEW sent \in submissions, NEW cursor,
         cursor = Larger(ack_cursor, sent.seq), ack_cursor' = cursor,
         last_sequence' = Larger(last_sequence, cursor), submissions' = submissions \ {sent},
         UNCHANGED <<vars, to_client, to_host, sdk, gap_mark, live, ranges, held, seen>>,
         queue_state' = "open" => queue_state = "open",
         ~ Java => retired' = cursor,
         Marks(queue)' \subseteq Marks(queue), EventMarks(queue)' \subseteq EventMarks(queue),
         GapMarks(queue)' \subseteq GapMarks(queue), \A m \in EventMarks(queue)' : m > cursor,
         hand' \in {hand, NoFrame}, iterator = "gap" => iterator' = "gap" /\ hand' = hand,
         recovery' = IF sent.task = "recovery" THEN "idle" ELSE recovery
  PROVE  RoomInv'
<1>0. /\ Licences /\ Noted /\ Bridged /\ Served /\ SeenKnown /\ Debts /\ Gaps /\ Adjoins /\ Room /\ Waiting /\ Fencing
  BY DEF RoomInv
<1>1. /\ last_sequence \in Nat /\ ack_cursor \in Nat /\ sent.seq \in Nat /\ cursor \in Nat
      /\ cursor >= ack_cursor /\ cursor >= sent.seq
      /\ last_sequence' \in Nat /\ last_sequence' >= last_sequence /\ last_sequence' >= cursor
  <2>1. last_sequence \in Nat /\ ack_cursor \in Nat /\ sent.seq \in Nat
    BY RoomTyped
  <2>2. cursor \in Nat /\ cursor >= ack_cursor /\ cursor >= sent.seq
    BY <2>1, LargerBounds
  <2>3. last_sequence' \in Nat /\ last_sequence' >= last_sequence /\ last_sequence' >= cursor
    BY <2>1, <2>2, LargerBounds
  <2> QED BY <2>1, <2>2, <2>3
<1>2. HandMarks' \subseteq HandMarks /\ HandEvents' \subseteq HandEvents /\ HandGaps' \subseteq HandGaps
  BY DEF HandMarks, HandEvents, HandGaps, NoFrame, Mark
<1>3. Fore' \subseteq Fore /\ ForeEvents' \subseteq ForeEvents /\ ForeGaps' \subseteq ForeGaps
  BY <1>2 DEF Fore, ForeEvents, ForeGaps
<1>4. /\ UNCHANGED <<Java, Strict, Coming, Rear, RearEvents, RearGaps, HeldMarks>>
      /\ Taken' \subseteq Taken /\ TakenEvents' \subseteq TakenEvents /\ TakenGaps' \subseteq TakenGaps
  BY <1>3, PipelineStays
<1>5. AcksGrow
  BY <1>1 DEF AcksGrow
<1>6. Licences'
  <2>1. WritesKnown'
    BY <1>0, <1>5, WritesStay DEF Licences
  <2> QED BY <1>0, <1>4, <1>5, <2>1, LicencesStay
<1>7. Noted'
  BY <1>0, <1>1, <1>4, NotedStays
<1>8. Bridged'
  BY <1>0, <1>1, <1>4, BridgedStays
<1>9. Served'
  BY <1>0 DEF Served
<1>10. SeenKnown'
  BY <1>0, <1>1, SeenKnownStays
<1>11. Debts'
  <2>1. recovery' = recovery \/ \A s \in submissions' : s.task # "recovery"
    BY <1>0 DEF Debts
  <2> QED BY <1>0, <1>1, <1>2, <1>4, <2>1, DebtsStay
<1>12. Gaps'
  BY <1>0, <1>3, <1>4, <1>5, GapsStay
<1>13. Adjoins'
  BY <1>0, <1>1, <1>4, <1>5, AdjoinsStays
<1>14. Room'
  BY <1>4 DEF Room
<1>15. Waiting'
  <2>1. \A s \in submissions' : s \in submissions
    OBVIOUS
  <2>2. recovery' \in {recovery, "idle"}
    OBVIOUS
  <2> QED BY <1>0, <2>1, <2>2, WaitingStays
<1>16. Fencing'
  BY <1>0, <1>5, FencingStays
<1> QED BY <1>6, <1>7, <1>8, <1>9, <1>10, <1>11, <1>12, <1>13, <1>14, <1>15, <1>16 DEF RoomInv

LEMMA CommitsRoom ==
  ASSUME FInv, FInv', RoomInv, NEW sent \in submissions, (~ Java /\ CommitAck(sent)) \/ (Java /\ Commits(sent))
  PROVE  RoomInv'
<1> DEFINE cursor == Larger(ack_cursor, sent.seq)
<1>1. /\ sent.observed /\ cursor \in Nat /\ ack_cursor \in Nat /\ retired \in Nat /\ sent.seq \in Nat /\ sent.task \in Tasks
  BY RoomTyped DEF RoomInv, Debts, Larger
<1>2. /\ ack_cursor' = cursor /\ last_sequence' = Larger(last_sequence, cursor) /\ submissions' = submissions \ {sent}
      /\ UNCHANGED <<vars, to_client, to_host, sdk, gap_mark, live, ranges, held, seen>>
      /\ queue_state' = "open" => queue_state = "open"
  BY <1>1 DEF CommitAck, Commits, wires
<1>3. ~ Java => retired' = cursor
  BY <1>1 DEF CommitAck, RoomInv, Room, Larger
<1>4. /\ Marks(queue)' \subseteq Marks(queue) /\ EventMarks(queue)' \subseteq EventMarks(queue)
      /\ GapMarks(queue)' \subseteq GapMarks(queue) /\ \A m \in EventMarks(queue)' : m > cursor
  <2>1. CASE queue' = AfterDiscard(cursor)
    BY <1>1, <2>1, AfterDiscardDiscards DEF Discards
  <2>2. CASE queue' = Retained(cursor)
    BY <1>1, <2>2, RetainedDiscards DEF Discards
  <2> QED BY <1>1, <2>1, <2>2 DEF CommitAck, Commits
<1>5. /\ hand' \in {hand, NoFrame} /\ (iterator = "gap" => iterator' = "gap" /\ hand' = hand)
      /\ recovery' = IF sent.task = "recovery" THEN "idle" ELSE recovery
  <2>1. CASE Java
    BY <2>1 DEF Commits
  <2>2. CASE ~ Java
    <3>1. sent.task = "iterator" => iterator = "acking"
      BY <2>2, PartsHold DEF SubmitPhases
    <3> QED BY <1>1, <2>2, <3>1 DEF CommitAck, Tasks
  <2> QED BY <2>1, <2>2
<1> HIDE DEF cursor
<1>6. cursor = Larger(ack_cursor, sent.seq)
  BY DEF cursor
<1> QED BY <1>2, <1>3, <1>4, <1>5, <1>6, CommitMovesRoom
--------
(* What comes over the wire. *)

LEMMA GapsStayThere ==
  ASSUME StillThere
  PROVE  GapMarks(to_client)' \subseteq GapMarks(to_client)
BY DEF StillThere, GapMarks

\* An answer: what the application has seen and what pages cover may grow.
LEMMA AnswerMovesRoom ==
  ASSUME FInv, FInv', RoomInv, StillThere,
         UNCHANGED <<vars, to_host, sdk, last_sequence, gap_mark, live, mail, acking, iterator, hand>>,
         UNCHANGED <<Marks(to_client), EventMarks(to_client)>>,
         seen' >= seen, Bridged', SeenKnown', recovery' = recovery \/ recovery = "requested"
  PROVE  RoomInv'
<1>0. /\ Licences /\ Noted /\ Bridged /\ Served /\ SeenKnown /\ Debts /\ Gaps /\ Adjoins /\ Room /\ Waiting /\ Fencing
      /\ UNCHANGED <<held, queue, queue_state, retired, ack_cursor, submissions>> /\ AcksGrow
  BY AcksStay DEF RoomInv, mail, acking
<1>1. last_sequence \in Nat /\ seen \in Nat /\ seen' \in Nat
  BY RoomTyped, RoomTypedAfter
<1>2. UNCHANGED <<HandMarks, Marks(queue), EventMarks(queue), Fore, ForeEvents, HeldMarks, HeldEvents>>
  BY <1>0, ForeStays, HeldStays
<1>3. UNCHANGED <<ForeGaps, HeldGaps, Java, Strict>>
  BY <1>0 DEF ForeGaps, HandGaps, GapMarks, HeldGaps, Java, Strict
<1>4. UNCHANGED <<Coming, Rear, RearEvents, Taken, TakenEvents, TakenGaps>>
  BY <1>2, <1>3 DEF Coming, Rear, RearEvents, Taken, TakenEvents, TakenGaps
<1>5. RearGaps' \subseteq RearGaps
  BY <1>3, GapsStayThere DEF RearGaps
<1>6. Licences'
  <2>1. WritesKnown'
    BY <1>0, WritesStay DEF Licences
  <2> QED BY <1>0, <1>4, <2>1, LicencesStay
<1>7. Noted'
  <2>1. Strict => ack_cursor' <= last_sequence'
    BY <1>0 DEF Noted
  <2> QED BY <1>0, <1>1, <1>4, <2>1, NotedStays
<1>8. Served'
  <2>1. ASSUME NEW j \in DOMAIN to_client', to_client'[j].kind = "page" PROVE to_client'[j].page.base <= seen'
    <3>1. PICK k \in DOMAIN to_client : to_client'[j] = to_client[k]
      BY DEF StillThere
    <3>2. to_client[k].page.base \in Nat /\ to_client[k].page.base <= seen
      BY <1>0, <2>1, <3>1, WirePages DEF Served
    <3> QED BY <1>1, <3>1, <3>2
  <2> QED BY <2>1 DEF Served
<1>9. Debts'
  <2>1. recovery' = recovery \/ \A s \in submissions' : s.task # "recovery"
    BY <1>0 DEF Debts
  <2> QED BY <1>0, <1>1, <1>2, <1>4, <2>1, DebtsStay
<1>10. Gaps'
  BY <1>0, <1>3, <1>4, <1>5, GapsStay DEF StillThere
<1>11. Adjoins'
  BY <1>0, <1>1, <1>4, AdjoinsStays
<1>12. Room'
  BY <1>0, <1>2, RoomStays
<1>13. Waiting'
  <2> SUFFICES ASSUME ~ Java PROVE Waiting'
    BY <1>3 DEF Waiting
  <2>1. held # <<>> => recovery' = recovery
    BY <1>0 DEF Waiting
  <2> QED BY <1>0, <1>2, <2>1, WaitingStays
<1>14. Fencing'
  BY <1>0, <1>2, FencingStays
<1> QED BY <1>6, <1>7, <1>8, <1>9, <1>10, <1>11, <1>12, <1>13, <1>14 DEF RoomInv

LEMMA AnswersRoom ==
  ASSUME FInv, FInv', RoomInv, NEW k \in DOMAIN to_client, to_client[k] \in Answers, AcceptAnswer(to_client[k]),
         StillThere, UNCHANGED <<vars, to_host>>, UNCHANGED <<Marks(to_client), EventMarks(to_client)>>
  PROVE  RoomInv'
<1>0. /\ Noted /\ Bridged /\ Served /\ SeenKnown /\ IteratorPhases /\ Ordered /\ ForeOrdered
      /\ seen \in Nat /\ last_sequence \in Nat /\ ack_cursor \in Nat /\ Top \in Nat /\ Coming \subseteq Nat /\ Coming \subseteq Rear
      /\ Fore \subseteq Nat
  BY PartsHold, RoomTyped DEF RoomInv
<1>1. Top' = Top
  BY HostStays
<1>2. CASE to_client[k].kind = "page" /\ AcceptPage(to_client[k].page)
  <2> DEFINE page == to_client[k].page
  <2>1. page.base \in Nat /\ page.end \in Nat /\ page.base <= seen
    BY <1>0, <1>2, WirePages DEF Served
  <2>2. /\ recovery = "requested"
        /\ ranges' = IF page.base < page.end THEN ranges \union {[base |-> page.base, end |-> page.end]} ELSE ranges
        /\ seen' = Larger(seen, page.end)
        /\ UNCHANGED <<sdk, last_sequence, gap_mark, live, mail, acking, iterator, hand>>
    BY <1>2 DEF AcceptPage, NextCursor
  <2>3. UNCHANGED <<held, ack_cursor, Coming>>
    <3>1. UNCHANGED <<held, ack_cursor>>
      BY <2>2 DEF mail, acking
    <3>2. UNCHANGED HeldMarks
      BY <3>1, HeldStays
    <3> QED BY <2>2, <3>1, <3>2 DEF Coming, Java
  <2> HIDE DEF page
  <2>4. ranges \subseteq ranges' /\ \A b : Paged(b) => Paged(b)'
    BY <2>2 DEF Paged
  <2>5. \A b \in Nat : page.base <= b /\ b < page.end => Paged(b)'
    <3> SUFFICES ASSUME NEW b \in Nat, page.base <= b, b < page.end PROVE Paged(b)'
      OBVIOUS
    <3>1. [base |-> page.base, end |-> page.end] \in ranges'
      BY <2>1, <2>2
    <3> QED BY <3>1 DEF Paged
  <2>6. Bridged'
    <3>1. \A b \in 0 .. seen' - 1 : b \in 0 .. seen - 1 \/ (b \in Nat /\ page.base <= b /\ b < page.end)
      BY <1>0, <2>1, <2>2 DEF Larger
    <3> QED BY <1>0, <1>1, <2>2, <2>3, <2>4, <2>5, <3>1 DEF Bridged
  <2>7. SeenKnown'
    <3>1. CASE seen' = seen
      BY <1>0, <2>2, <2>3, <2>4, <3>1, SeenKnownStays
    <3>2. CASE seen' # seen
      <4>1. seen' = page.end /\ page.base < page.end
        BY <1>0, <2>1, <2>2, <3>2 DEF Larger
      <4>2. [base |-> page.base, end |-> page.end] \in ranges'
        BY <2>2, <4>1
      <4> QED BY <2>1, <4>1, <4>2 DEF SeenKnown
    <3> QED BY <3>1, <3>2
  <2>8. seen' >= seen
    BY <1>0, <2>1, <2>2 DEF Larger
  <2> QED BY <2>2, <2>6, <2>7, <2>8, AnswerMovesRoom
<1>3. CASE AcceptReplayError
  <2>1. /\ recovery = "requested" /\ seen' = IF iterator = "gap" THEN Larger(seen, hand.watermark) ELSE seen
        /\ UNCHANGED <<sdk, last_sequence, gap_mark, live, ranges, mail, acking, iterator, hand>>
    BY <1>3 DEF AcceptReplayError, feed
  <2>2. UNCHANGED <<held, ack_cursor, Coming>>
    <3>1. UNCHANGED <<held, ack_cursor>>
      BY <2>1 DEF mail, acking
    <3>2. UNCHANGED HeldMarks
      BY <3>1, HeldStays
    <3> QED BY <2>1, <3>1, <3>2 DEF Coming, Java
  <2>3. CASE seen' = seen
    <3>1. Bridged' /\ SeenKnown'
      BY <1>0, <2>1, <2>2, <2>3, BridgedStays, SeenKnownStays
    <3> QED BY <1>0, <2>1, <2>3, <3>1, AnswerMovesRoom
  <2>4. CASE seen' # seen
    <3>1. iterator = "gap" /\ seen' = hand.watermark
      BY <2>1, <2>4 DEF Larger
    <3>2. hand.watermark \in Fore /\ hand.watermark \in Nat
      BY <1>0, <3>1, HandIsMarked DEF IteratorPhases
    <3>3. hand.watermark <= last_sequence /\ hand.watermark <= Top /\ Below({hand.watermark}, Coming)
      BY <1>0, <3>2 DEF Noted, Taken, Ordered, ForeOrdered, Below
    <3>4. seen' >= seen
      BY <1>0, <2>1, <3>1, <3>2 DEF Larger
    <3>5. \A b \in 0 .. seen' - 1 : b < last_sequence /\ b < Top /\ Below({b}, Coming)
      BY <1>0, <3>1, <3>2, <3>3 DEF Below
    <3>6. Bridged'
      BY <1>1, <2>1, <2>2, <3>5 DEF Bridged
    <3>7. SeenKnown'
      BY <2>1, <3>1 DEF SeenKnown
    <3> QED BY <2>1, <3>4, <3>6, <3>7, AnswerMovesRoom
  <2> QED BY <2>3, <2>4
<1>4. CASE AcceptSettled
  <2>1. UNCHANGED <<sdk, last_sequence, gap_mark, live, ranges, mail, acking, iterator, hand, recovery, seen>>
    BY <1>4 DEF AcceptSettled, feed
  <2>2. UNCHANGED <<ack_cursor, Coming>>
    <3>1. UNCHANGED <<held, ack_cursor>>
      BY <2>1 DEF mail, acking
    <3>2. UNCHANGED HeldMarks
      BY <3>1, HeldStays
    <3> QED BY <2>1, <3>1, <3>2 DEF Coming, Java
  <2>3. Bridged' /\ SeenKnown'
    BY <1>0, <2>1, <2>2, BridgedStays, SeenKnownStays
  <2> QED BY <1>0, <2>1, <2>3, AnswerMovesRoom
<1> QED BY <1>2, <1>3, <1>4 DEF AcceptAnswer

LEMMA JavaReceivesRoom ==
  ASSUME FInv, FInv', RoomInv, JavaReceives
  PROVE  RoomInv'
<1> PICK n \in DOMAIN to_client :
        /\ ~ Notification(to_client[n]) /\ AcceptAnswer(to_client[n]) /\ to_client' = RemoveAt(to_client, n)
        /\ UNCHANGED <<vars, to_host>>
  BY DEF JavaReceives
<1>1. to_client \in Seq(Frames)
  BY PartsHold DEF WireTyped
<1>2. to_client[n] \in Answers
  BY <1>1, NoteKinds DEF Frames
<1>3. /\ to_client' \in Seq(Frames) /\ Len(to_client') = Len(to_client) - 1
      /\ \A i \in DOMAIN to_client' : to_client'[i] = to_client[IF i < n THEN i ELSE i + 1]
      /\ UNCHANGED <<Marks(to_client), EventMarks(to_client)>>
  BY <1>1, WithoutAnswer
<1>4. StillThere
  <2>1. DOMAIN to_client' = 1 .. Len(to_client) - 1 /\ DOMAIN to_client = 1 .. Len(to_client) /\ Len(to_client) \in Nat
    BY <1>1, <1>3, LenProperties
  <2>2. \A i \in DOMAIN to_client' : (IF i < n THEN i ELSE i + 1) \in DOMAIN to_client
    BY <2>1
  <2> QED BY <1>3, <2>2 DEF StillThere
<1> QED BY <1>2, <1>3, <1>4, AnswersRoom
--------
(* A notification moves on. *)

LEMMA DownstreamRoom ==
  ASSUME FInv, FInv', RoomInv, Downstream,
         last_sequence' = last_sequence \/ last_sequence' \in Coming,
         Strict => last_sequence' >= last_sequence, live \subseteq live', Noted', Gaps',
         queue_state' = "open" /\ Strict => \A a \in Coming \ Coming' : a <= last_sequence' \/ Known(a)
  PROVE  RoomInv'
<1>0. /\ Licences /\ Bridged /\ Served /\ SeenKnown /\ Debts /\ Adjoins /\ Room
      /\ UNCHANGED <<vars, sdk, ranges, retired, ack_cursor, submissions, recovery, seen, to_host>>
      /\ StillThere
  BY DEF RoomInv, Downstream
<1>1. /\ last_sequence \in Nat /\ last_sequence' \in Nat /\ ack_cursor \in Nat /\ seen \in Nat
      /\ Coming \subseteq Nat /\ AcksGrow
  BY <1>0, RoomTyped, RoomTypedAfter, AcksStay
<1>2. UNCHANGED <<Java, Strict>>
  BY <1>0 DEF Java, Strict
<1>3. Licences'
  <2>1. WritesKnown'
    BY <1>0, <1>1, WritesStay DEF Licences
  <2> QED BY <1>0, <1>1, <2>1, LicencesStay DEF Downstream
<1>4. Bridged'
  <2>1. last_sequence' >= last_sequence \/ last_sequence' \in Coming
    BY <1>1
  <2> QED BY <1>0, <2>1, BridgedStays DEF Downstream
<1>5. Served'
  BY <1>0 DEF Served, StillThere
<1>6. SeenKnown'
  BY <1>0, <1>1, SeenKnownStays DEF Downstream
<1>7. Debts'
  BY <1>0, DebtsStay DEF Downstream
<1>8. Adjoins'
  <2>1. CASE ~ (queue_state' = "open" /\ Strict)
    BY <1>2, <2>1 DEF Adjoins
  <2>2. CASE queue_state' = "open" /\ Strict
    <3>1. last_sequence <= last_sequence'
      BY <1>1, <2>2
    <3>2. \A a \in Coming : Known(a) => Known(a)'
      BY <1>1, KnownGrows
    <3>3. \A a \in (Coming \ Coming') \union {last_sequence} : a <= last_sequence' \/ Known(a)'
      BY <2>2, <3>1, <3>2
    <3>4. Coming' \subseteq Coming /\ (queue_state' = "open" => queue_state = "open")
      BY DEF Downstream
    <3> QED BY <1>0, <1>1, <3>3, <3>4, AdjoinsStays
  <2> QED BY <2>1, <2>2
<1>9. Room'
  BY <1>0, <1>2 DEF Room, Downstream
<1> QED BY <1>3, <1>4, <1>5, <1>6, <1>7, <1>8, <1>9 DEF RoomInv, Downstream

\* Nothing new is taken.
LEMMA PassesRoom ==
  ASSUME FInv, FInv', RoomInv, Downstream, UNCHANGED <<last_sequence, gap_mark, live>>,
         Taken' \subseteq Taken, TakenEvents' \subseteq TakenEvents, TakenGaps' \subseteq TakenGaps,
         queue_state' = "open" /\ Strict => \A a \in Coming \ Coming' : a <= last_sequence' \/ Known(a)
  PROVE  RoomInv'
<1>0. /\ Noted /\ Gaps /\ UNCHANGED <<vars, sdk, ack_cursor, submissions>> /\ last_sequence \in Nat /\ AcksGrow
  BY RoomTyped, AcksStay DEF RoomInv, Downstream
<1>1. Noted'
  <2>1. Strict => ack_cursor' <= last_sequence'
    BY <1>0 DEF Noted
  <2> QED BY <1>0, <2>1, NotedStays
<1>2. Gaps'
  BY <1>0, GapsStay DEF Downstream, StillThere
<1> QED BY <1>0, <1>1, <1>2, DownstreamRoom

LEMMA TakesInRoom ==
  ASSUME FInv, FInv', RoomInv, Downstream, NEW m \in Coming, last_sequence' = m,
         Strict => m >= last_sequence, Taken' \subseteq Taken \union {m}, Coming \subseteq Coming' \union {m},
         Takes1In(m)
  PROVE  RoomInv'
<1>0. /\ Noted /\ Gaps /\ UNCHANGED <<vars, sdk, ack_cursor, submissions>> /\ last_sequence \in Nat /\ AcksGrow
      /\ ack_cursor \in Nat /\ Coming \subseteq Nat /\ Taken \subseteq Nat /\ Below(Taken, Coming) /\ live \subseteq Nat
      /\ TakenGaps \subseteq Taken /\ TakenGaps \subseteq ForeGaps \union RearGaps
      /\ \A s \in submissions : s.seq \in Nat
  BY RoomTyped, AcksStay DEF RoomInv, Downstream, TakenGaps, RearGaps
<1>1. m \in Nat /\ \A t \in Taken : t < m
  BY <1>0 DEF Below
<1>2. UNCHANGED <<Strict, paused, paused_sequence>>
  BY <1>0, HostStays DEF Strict
<1>3. Noted'
  <2>1. TakenEvents' \subseteq live'
    BY <1>0 DEF Noted, Takes1In
  <2>2. \A t \in Taken' : t <= last_sequence'
    BY <1>0, <1>1
  <2>3. ASSUME Strict PROVE ack_cursor' <= last_sequence' /\ \A l \in live' : l <= last_sequence'
    <3>1. ack_cursor <= last_sequence /\ \A l \in live : l <= last_sequence
      BY <1>0, <2>3 DEF Noted
    <3>2. m >= last_sequence /\ live' \subseteq live \union {m} /\ ack_cursor' = ack_cursor
      BY <1>0, <2>3 DEF Takes1In
    <3>3. ack_cursor \in Nat /\ last_sequence \in Nat /\ m \in Nat /\ live \subseteq Nat
      BY <1>0, <1>1
    <3>4. \A l \in live : l <= m
      BY <3>1, <3>2, <3>3
    <3> QED BY <3>1, <3>2, <3>3, <3>4
  <2> QED BY <1>2, <2>1, <2>2, <2>3 DEF Noted
<1>4. Gaps'
  <2>1. \A w : Unacked(w)' <=> Unacked(w)
    BY <1>0 DEF Unacked
  <2>2. \A w \in ForeGaps' \union RearGaps' : Unacked(w)' => paused' /\ paused_sequence' = w
    <3>1. \A w \in ForeGaps \union RearGaps : Unacked(w) => paused /\ paused_sequence = w
      BY <1>0 DEF Gaps
    <3>2. ForeGaps' \union RearGaps' \subseteq ForeGaps \union RearGaps
      BY DEF Downstream
    <3> QED BY <1>2, <2>1, <3>1, <3>2
  <2>3. ASSUME NEW w \in TakenGaps', Unacked(w) PROVE gap_mark' = w
    <3>1. CASE UNCHANGED gap_mark /\ TakenGaps' \subseteq TakenGaps
      BY <1>0, <2>3, <3>1 DEF Gaps
    <3>2. CASE gap_mark' = m /\ m \in RearGaps /\ TakenGaps' \subseteq TakenGaps \union {m}
      <4>1. CASE w = m
        BY <3>2, <4>1
      <4>2. CASE w \in TakenGaps
        <5>1. w < m /\ w \in Nat
          BY <1>0, <1>1, <4>2
        <5>2. paused_sequence = w
          BY <1>0, <2>3, <4>2 DEF Gaps
        <5>3. Unacked(m)
          BY <1>0, <1>1, <2>3, <5>1 DEF Unacked
        <5>4. paused_sequence = m
          BY <1>0, <3>2, <5>3 DEF Gaps
        <5> QED BY <1>1, <5>1, <5>2, <5>4
      <4> QED BY <2>3, <3>2, <4>1, <4>2
    <3> QED BY <3>1, <3>2 DEF Takes1In
  <2>4. \A i \in DOMAIN to_client' : to_client'[i].kind = "gap" => to_client'[i].from = to_client'[i].watermark
    BY <1>0 DEF Gaps, Downstream, StillThere
  <2>5. \A w \in TakenGaps' : Unacked(w)' => gap_mark' = w
    BY <2>1, <2>3
  <2> QED BY <2>2, <2>4, <2>5 DEF Gaps
<1>5. \A a \in Coming \ Coming' : a <= last_sequence'
  BY <1>1
<1>6. live \subseteq live'
  BY DEF Takes1In
<1> QED BY <1>0, <1>3, <1>4, <1>5, <1>6, DownstreamRoom

LEMMA ArrivesInRoom ==
  ASSUME FInv, NEW x \in Notes, Enters(x) \/ (hand' = hand /\ queue' \in {queue, <<>>})
  PROVE  Arrived(x)
<1> DEFINE m == Mark(x)
<1>0. /\ x.kind \in {"event", "gap"} /\ x \in Frames /\ x # NoFrame
      /\ (x.kind = "event" => x.seq = m) /\ (x.kind = "gap" => x.watermark = m)
      /\ queue \in Seq(Frames)
  BY NoteKinds, PartsHold, PipelineTyped
<1> HIDE DEF m
<1>1. ASSUME hand' = hand, Marks(queue)' \subseteq Marks(queue) \union {m},
             EventMarks(queue)' \subseteq EventMarks(queue) \union IF x.kind = "event" THEN {m} ELSE {},
             GapMarks(queue)' \subseteq GapMarks(queue) \union IF x.kind = "gap" THEN {m} ELSE {}
      PROVE  Arrived(x)
  <2>1. UNCHANGED <<HandMarks, HandEvents, HandGaps>>
    BY <1>1 DEF HandMarks, HandEvents, HandGaps
  <2>2. Fore' \subseteq Fore \union {m}
    BY <1>1, <2>1 DEF Fore
  <2>3. ForeEvents' \subseteq ForeEvents \union IF x.kind = "event" THEN {m} ELSE {}
    BY <1>1, <2>1 DEF ForeEvents
  <2>4. ForeGaps' \subseteq ForeGaps \union IF x.kind = "gap" THEN {m} ELSE {}
    BY <1>1, <2>1 DEF ForeGaps
  <2> QED BY <1>1, <2>1, <2>2, <2>3, <2>4 DEF Arrived, m
<1>2. CASE queue' = Append(queue, x) /\ hand' = hand
  <2>1. /\ Marks(Append(queue, x)) = Marks(queue) \union {m}
        /\ EventMarks(Append(queue, x)) = EventMarks(queue) \union (IF x.kind = "event" THEN {m} ELSE {})
    BY <1>0, AppendMarks DEF m
  <2>2. GapMarks(Append(queue, x)) = GapMarks(queue) \union (IF x.kind = "gap" THEN {m} ELSE {})
    BY <1>0, GapMarksAppend
  <2> QED BY <1>1, <1>2, <2>1, <2>2
<1>3. CASE x.kind = "gap" /\ GapQueued /\ queue' = WithGap(x) /\ hand' = hand
  <2>1. /\ Marks(WithGap(x)) \subseteq Marks(queue) \union {m}
        /\ EventMarks(WithGap(x)) \subseteq EventMarks(queue)
        /\ GapMarks(WithGap(x)) \subseteq GapMarks(queue) \union {m}
    BY <1>3, MergedMarks DEF m
  <2> QED BY <1>1, <1>3, <2>1
<1>4. CASE hand = NoFrame /\ queue = <<>> /\ hand' = x /\ queue' = queue
  <2>1. UNCHANGED <<Marks(queue), EventMarks(queue), GapMarks(queue)>>
    BY <1>4 DEF Marks, EventMarks, GapMarks, Places
  <2>2. HandMarks' = {m} /\ (HandEvents' \subseteq IF x.kind = "event" THEN {m} ELSE {})
    BY <1>0, <1>4 DEF HandMarks, HandEvents, m, Mark
  <2>3. HandGaps' \subseteq IF x.kind = "gap" THEN {m} ELSE {}
    BY <1>0, <1>4 DEF HandGaps
  <2>4. Fore' \subseteq Fore \union {m}
    BY <2>1, <2>2 DEF Fore
  <2>5. ForeEvents' \subseteq ForeEvents \union IF x.kind = "event" THEN {m} ELSE {}
    BY <2>1, <2>2 DEF ForeEvents
  <2>6. ForeGaps' \subseteq ForeGaps \union IF x.kind = "gap" THEN {m} ELSE {}
    BY <2>1, <2>3 DEF ForeGaps
  <2> QED BY <2>1, <2>2, <2>4, <2>5, <2>6 DEF Arrived, m
<1>5. CASE hand' = hand /\ queue' = queue
  <2>1. UNCHANGED <<Marks(queue), EventMarks(queue), GapMarks(queue)>>
    BY <1>5 DEF Marks, EventMarks, GapMarks, Places
  <2> QED BY <1>1, <1>5, <2>1
<1>6. CASE hand' = hand /\ queue' = <<>>
  <2>1. Marks(queue)' = {} /\ EventMarks(queue)' = {} /\ GapMarks(queue)' = {}
    <3>1. Marks(queue)' = {} /\ EventMarks(queue)' = {}
      BY <1>6, EmptyMarks DEF Marks, EventMarks, Places
    <3>2. GapMarks(queue)' = {}
      BY <1>6 DEF GapMarks
    <3> QED BY <3>1, <3>2
  <2> QED BY <1>1, <1>6, <2>1
<1> QED BY <1>2, <1>3, <1>4, <1>5, <1>6 DEF Enters

\* The head of the wire has left it.
LEMMA HeadGoes ==
  ASSUME FInv, to_client # <<>>, to_client' = Tail(to_client), Head(to_client) \in Notes
  PROVE  LET x == Head(to_client)
         IN  /\ StillThere
             /\ Marks(to_client) = Marks(to_client)' \union {Mark(x)} /\ Mark(x) \in Coming /\ Mark(x) \in Marks(to_client)
             /\ EventMarks(to_client)' \subseteq EventMarks(to_client) /\ GapMarks(to_client)' \subseteq GapMarks(to_client)
             /\ x.kind = "event" => Mark(x) \in EventMarks(to_client)
             /\ x.kind = "gap" => Mark(x) \in GapMarks(to_client)
             /\ Mark(x) \in 1 .. Terminal /\ Mark(x) \in Nat /\ x.kind \in {"event", "gap"}
             /\ x.kind = "event" => x.seq = Mark(x) /\ EventFrame(Mark(x)) = x
             /\ x.kind = "gap" => x.watermark = Mark(x) /\ x.watermark \in Nat
             /\ x = to_client[1] /\ 1 \in DOMAIN to_client
<1> DEFINE x == Head(to_client)
<1>1. to_client \in Seq(Frames) /\ Rising(to_client) /\ Terminal \in Nat
  BY PartsHold, Constants DEF WireTyped, RearOrdered
<1>2. /\ x.kind \in {"event", "gap"} /\ Mark(x) \in 1 .. Terminal
      /\ (x.kind = "event" => x.seq = Mark(x)) /\ (x.kind = "gap" => x.watermark = Mark(x))
  BY NoteKinds
<1>3. x = to_client[1] /\ 1 \in DOMAIN to_client
  BY <1>1, TailPicks
<1>4. /\ Marks(to_client) = Marks(Tail(to_client)) \union {Mark(x)}
      /\ EventMarks(to_client) = EventMarks(Tail(to_client)) \union (IF x.kind = "event" THEN {x.seq} ELSE {})
  BY <1>1, TailMarks
<1>5. StillThere
  BY WireShrinks DEF StillThere
<1>6. GapMarks(to_client)' \subseteq GapMarks(to_client)
  BY <1>5, GapsStayThere
<1>7. x.kind = "gap" => Mark(x) \in GapMarks(to_client)
  BY <1>2, <1>3 DEF GapMarks
<1>8. x.kind = "event" => EventFrame(Mark(x)) = x
  <2>1. x.kind = "event" => x \in Events
    BY DEF Notes, Notices
  <2> QED BY <1>2, <2>1 DEF Events, EventFrame
<1>9. Mark(x) \in Nat
  BY <1>1, <1>2
<1>11. Marks(to_client)' = Marks(Tail(to_client)) /\ EventMarks(to_client)' = EventMarks(Tail(to_client))
  BY DEF Marks, EventMarks, Places
<1> QED BY <1>2, <1>3, <1>4, <1>5, <1>6, <1>7, <1>8, <1>9, <1>11 DEF Coming

\* Python and TypeScript: an item is admitted to the queue.
LEMMA AdmitsInRoom ==
  ASSUME FInv, RoomInv, ~ Java, NEW entry, entry.item \in Notes, entry.seq = Mark(entry.item), Admit(entry),
         Below(Fore, {entry.seq})
  PROVE  /\ Arrived(entry.item) /\ \A m \in EventMarks(queue)' : m > ack_cursor
         /\ queue_state' = "open" => queue_state = "open"
         /\ iterator = "gap" => iterator' = "gap" /\ hand' = hand
<1> DEFINE x == entry.item
<1>0. /\ IteratorPhases /\ Room /\ ack_cursor \in Nat /\ retired = ack_cursor /\ entry.seq \in Nat /\ EventMarks(queue) \subseteq Nat
  <2>1. EventMarks(queue) \subseteq Marks(queue) /\ Marks(queue) \subseteq Nat /\ Terminal \in Nat
    BY PartsHold, PipelineTyped, RoomTyped
  <2>2. entry.seq \in Nat
    BY <2>1, NoteKinds
  <2> QED BY <2>1, <2>2, PartsHold, RoomTyped DEF RoomInv, Room
<1>1. CASE UNCHANGED <<queue, iterator, hand>> /\ queue_state' \in {queue_state, "failed"}
  <2>1. EventMarks(queue)' = EventMarks(queue)
    BY <1>1 DEF EventMarks
  <2>2. Arrived(x)
    BY <1>1, ArrivesInRoom
  <2> QED BY <1>0, <1>1, <2>1, <2>2 DEF Room
<1>2. CASE /\ queue_state = "open" /\ ~ entry.seq <= retired /\ Enters(x)
           /\ iterator = "gap" => iterator' = "gap" /\ hand' = hand
  <2>1. Arrived(x)
    BY <1>2, ArrivesInRoom
  <2>2. \A m \in EventMarks(queue)' : m \in EventMarks(queue) \/ m = entry.seq
    BY <2>1 DEF Arrived
  <2>3. entry.seq > ack_cursor
    BY <1>0, <1>2
  <2> QED BY <1>0, <1>2, <2>1, <2>2, <2>3 DEF Room
<1>3. CASE queue_state # "open" \/ entry.seq <= retired
  <2>1. UNCHANGED <<queue, queue_state, iterator, hand>>
    BY <1>3 DEF Admit
  <2> QED BY <1>1, <2>1
<1>4. CASE queue_state = "open" /\ ~ entry.seq <= retired /\ x.kind = "event" /\ ~ HasCapacity
  <2>1. queue_state' = "failed" /\ UNCHANGED <<queue, iterator, hand>>
    BY <1>4 DEF Admit
  <2> QED BY <1>1, <2>1
<1>5. CASE queue_state = "open" /\ ~ entry.seq <= retired /\ x.kind = "gap" /\ GapQueued
  <2>1. queue' = WithMergedGap(x) /\ UNCHANGED <<queue_state, iterator, hand>>
    BY <1>5 DEF Admit
  <2>2. queue' = WithGap(x)
    BY <1>5, <2>1, MergesToTheEnd
  <2>3. Enters(x)
    BY <1>5, <2>1, <2>2 DEF Enters
  <2> QED BY <1>2, <1>5, <2>1, <2>3
<1>6. CASE /\ queue_state = "open" /\ ~ entry.seq <= retired /\ ~ (x.kind = "event" /\ ~ HasCapacity)
           /\ ~ (x.kind = "gap" /\ GapQueued)
  <2>1. IF iterator = "waiting"
        THEN hand' = x /\ iterator' = "handed" /\ UNCHANGED queue
        ELSE queue' = Append(queue, x) /\ UNCHANGED <<iterator, hand>>
    BY <1>6 DEF Admit
  <2>2. Enters(x)
    BY <1>0, <1>6, <2>1 DEF Enters, IteratorPhases
  <2>3. iterator = "gap" => iterator' = "gap" /\ hand' = hand
    BY <2>1
  <2> QED BY <1>2, <1>6, <2>2, <2>3
<1> QED BY <1>3, <1>4, <1>5, <1>6

\* Python and TypeScript: what comes is refused or known already.
LEMMA RefusesRoom ==
  ASSUME FInv, FInv', RoomInv, ~ Java, to_client # <<>>, Head(to_client) \in Notes, Received, UNCHANGED vars,
         Refuse \/ (Ignore /\ Mark(Head(to_client)) = last_sequence)
  PROVE  RoomInv'
<1> DEFINE x == Head(to_client)
           m == Mark(x)
<1>0. /\ to_client' = Tail(to_client) /\ UNCHANGED to_host
      /\ UNCHANGED <<sdk, last_sequence, gap_mark, live, ranges, held, queue, retired, ack_cursor, submissions,
                     iterator, hand, recovery, seen>>
      /\ queue_state' = "open" => queue_state = "open" /\ m = last_sequence
  BY DEF Received, Refuse, Ignore, client, feed, mail, acking, app
<1>1. /\ StillThere /\ Marks(to_client) = Marks(to_client)' \union {m} /\ m \in Nat
      /\ EventMarks(to_client)' \subseteq EventMarks(to_client) /\ GapMarks(to_client)' \subseteq GapMarks(to_client)
  BY <1>0, HeadGoes
<1>2. /\ UNCHANGED <<Java, Strict, HeldMarks, HeldEvents, HeldGaps, HandMarks, Marks(queue), EventMarks(queue), Fore, ForeEvents>>
  BY <1>0, ForeStays, HeldStays DEF Java, Strict, HeldGaps
<1>3. UNCHANGED ForeGaps
  BY <1>0 DEF ForeGaps, HandGaps, GapMarks
<1>4. /\ Coming' \subseteq Coming /\ Coming \subseteq Coming' \union {m}
      /\ Rear' \subseteq Rear /\ RearEvents' \subseteq RearEvents /\ RearGaps' \subseteq RearGaps
      /\ UNCHANGED <<Taken, TakenEvents, TakenGaps>>
  BY <1>1, <1>2, <1>3 DEF Coming, Rear, RearEvents, RearGaps, Taken, TakenEvents, TakenGaps
<1> HIDE DEF m
<1>5. Waiting'
  BY <1>0, <1>2, WaitingStays DEF RoomInv
<1>6. Fencing'
  BY <1>2 DEF Fencing
<1>7. Downstream
  BY <1>0, <1>1, <1>2, <1>3, <1>4, <1>5, <1>6 DEF Downstream, RoomInv, Room
<1>8. queue_state' = "open" => \A a \in Coming \ Coming' : a <= last_sequence'
  BY <1>0, <1>1, <1>4
<1> QED BY <1>0, <1>4, <1>7, <1>8, PassesRoom

\* Only the recovery's ACK can make room that an item waits for.
LEMMA WaitsForRecovery ==
  ASSUME FInv, RoomInv, NEW s \in submissions, Retires(s.seq)
  PROVE  s.task = "recovery" /\ recovery = "acking" /\ \A t \in submissions : t.task = "recovery" => t = s
<1>1. Debts /\ s.task \in Tasks /\ s.seq \in Nat /\ EventMarks(queue) \subseteq Marks(queue) /\ Marks(queue) \subseteq Nat
  BY RoomTyped, PartsHold, PipelineTyped DEF RoomInv
<1>2. PICK m \in EventMarks(queue) : m <= s.seq
  BY RetiresMarks
<1>3. s.task # "iterator"
  <2> SUFFICES ASSUME s.task = "iterator" PROVE FALSE
    OBVIOUS
  <2>1. s.seq < m
    BY <1>1, <1>2 DEF Debts, Below
  <2> QED BY <1>1, <1>2, <2>1
<1> QED BY <1>1, <1>3 DEF Debts, Tasks

\* An item is held behind those that wait, or because it waits itself.
LEMMA HoldsWaiting ==
  ASSUME FInv, RoomInv, ~ Java, UNCHANGED <<sdk, queue, submissions, recovery>>,
         NEW entry, entry.item \in Notes, entry.seq = Mark(entry.item), entry.seq \in Marks(to_client),
         entry.item.kind = "event" => entry.waits_for = Candidates(entry.seq),
         held # <<>> \/ (MustWait(entry) /\ entry.waits_for \subseteq Candidates(entry.seq)),
         held' = Append(held, entry), HeldMarks' = HeldMarks \union {entry.seq}
  PROVE  Waiting'
<1>0. /\ Waiting /\ Debts /\ held \in Seq(Entries) /\ Below(HeldMarks, Marks(to_client)) /\ HeldMarks \subseteq Nat
      /\ Marks(to_client) \subseteq Nat /\ \A s \in submissions : s.seq \in Nat
  BY PartsHold, RoomTyped DEF RoomInv, LaneTyped, RearOrdered
<1>1. ~ Java' /\ \A seq : Retires(seq)' <=> Retires(seq)
  BY DEF Java, Retires
<1>2. recovery \in {"idle", "acking"} /\ \A s \in submissions : s.task = "recovery" => s.seq < entry.seq
  <2>1. CASE held # <<>>
    <3>1. PICK h \in HeldMarks : TRUE
      <4>1. 1 \in DOMAIN held
        BY <1>0, <2>1
      <4> QED BY <4>1 DEF HeldMarks
    <3>2. ASSUME NEW s \in submissions, s.task = "recovery" PROVE s.seq < entry.seq
      <4>1. s.seq < h
        BY <1>0, <3>1, <3>2 DEF Waiting, Below
      <4>2. h < entry.seq
        BY <1>0, <3>1 DEF Below
      <4> QED BY <1>0, <3>1, <4>1, <4>2
    <3> QED BY <1>0, <2>1, <3>2 DEF Waiting
  <2>2. CASE MustWait(entry) /\ entry.waits_for \subseteq Candidates(entry.seq)
    <3>1. PICK sent \in submissions : Named(sent) \in entry.waits_for /\ Retires(sent.seq)
      BY <2>2 DEF MustWait
    <3>2. recovery = "acking" /\ \A t \in submissions : t.task = "recovery" => t = sent
      BY <3>1, WaitsForRecovery
    <3>3. Named(sent) \in Candidates(entry.seq)
      BY <2>2, <3>1
    <3>4. sent.seq < entry.seq
      BY <3>3 DEF Candidates, Named
    <3> QED BY <3>2, <3>4
  <2> QED BY <2>1, <2>2
<1>3. DOMAIN held' = DOMAIN held \union {Len(held) + 1} /\ held'[Len(held) + 1] = entry
      /\ \A i \in DOMAIN held : held'[i] = held[i]
  BY <1>0
<1>4. ASSUME NEW s \in submissions, s.task = "recovery"
      PROVE  /\ Below({s.seq}, HeldMarks')
             /\ \A i \in DOMAIN held' :
                  held'[i].item.kind = "event" /\ held'[i].seq <= s.seq + QueueSize /\ Retires(s.seq)
                  => Named(s) \in held'[i].waits_for
  <2>1. Below({s.seq}, HeldMarks')
    BY <1>0, <1>2, <1>4 DEF Waiting, Below
  <2>2. \A i \in DOMAIN held :
          held[i].item.kind = "event" /\ held[i].seq <= s.seq + QueueSize /\ Retires(s.seq)
          => Named(s) \in held[i].waits_for
    BY <1>0, <1>4 DEF Waiting
  <2>3. entry.item.kind = "event" /\ entry.seq <= s.seq + QueueSize /\ Retires(s.seq)
          => Named(s) \in entry.waits_for
    <3> SUFFICES ASSUME entry.item.kind = "event", entry.seq <= s.seq + QueueSize, Retires(s.seq)
                 PROVE  Named(s) \in entry.waits_for
      OBVIOUS
    <3>1. s.observed /\ s.seq < entry.seq
      BY <1>0, <1>2, <1>4 DEF Debts
    <3> QED BY <3>1 DEF Candidates
  <2>4. ASSUME NEW i \in DOMAIN held',
               held'[i].item.kind = "event", held'[i].seq <= s.seq + QueueSize, Retires(s.seq)
        PROVE  Named(s) \in held'[i].waits_for
    <3>1. i \in DOMAIN held \/ i = Len(held) + 1
      BY <1>3
    <3> QED BY <1>3, <2>2, <2>3, <2>4, <3>1
  <2> QED BY <2>1, <2>4
<1> QED BY <1>1, <1>2, <1>4 DEF Waiting

LEMMA DeliversRoom ==
  ASSUME FInv, FInv', RoomInv, ~ Java, UNCHANGED <<vars, sdk, ranges>>, to_client # <<>>, Received,
         Head(to_client) \in Notes, last_sequence' = Mark(Head(to_client)),
         Strict => Mark(Head(to_client)) >= last_sequence,
         IF Head(to_client).kind = "event"
         THEN live' = live \union {Mark(Head(to_client))} /\ UNCHANGED gap_mark
         ELSE UNCHANGED live /\ gap_mark' = Mark(Head(to_client)),
         Deliveries(Head(to_client), Mark(Head(to_client)))
  PROVE  RoomInv'
<1> DEFINE x == Head(to_client)
           m == Mark(x)
           entry == [item |-> x, seq |-> m, waits_for |-> IF x.kind = "event" THEN Candidates(m) ELSE {}]
<1>0. /\ to_client' = Tail(to_client) /\ UNCHANGED to_host
      /\ UNCHANGED <<retired, ack_cursor, submissions, recovery, seen>>
      /\ \/ held = <<>> /\ ~ MustWait(entry) /\ Admit(entry) /\ UNCHANGED held
         \/ /\ held # <<>> \/ MustWait(entry)
            /\ held' = Append(held, entry) /\ UNCHANGED <<queue, queue_state, iterator, hand>>
  BY DEF Received, Deliveries, acking
<1>1. /\ StillThere
      /\ Marks(to_client) = Marks(to_client)' \union {m} /\ m \in Nat /\ m \in Coming /\ m \in Marks(to_client)
      /\ EventMarks(to_client)' \subseteq EventMarks(to_client) /\ GapMarks(to_client)' \subseteq GapMarks(to_client)
      /\ x.kind = "event" => m \in EventMarks(to_client)
      /\ x.kind = "gap" => m \in GapMarks(to_client)
      /\ m \in 1 .. Terminal /\ x.kind \in {"event", "gap"}
  BY <1>0, HeadGoes
<1>2. ~ Java' /\ UNCHANGED Strict
  BY DEF Java, Strict
<1>3. /\ entry.item = x /\ entry.seq = m
      /\ (x.kind = "event" => entry.waits_for = Candidates(m)) /\ entry.waits_for \subseteq Candidates(m)
  OBVIOUS
<1>e. entry \in Entries
  <2>1. Candidates(m) \subseteq Tasks \X (0 .. Terminal)
    BY PartsHold DEF Candidates, Named, AckTyped, Submissions
  <2> QED BY <1>1, <2>1 DEF Entries
<1> HIDE DEF entry
<1>4. Coming' \subseteq Coming /\ Coming \subseteq Coming' \union {m}
  BY <1>1, <1>2 DEF Coming
<1>5. ASSUME Downstream, Taken' \subseteq Taken \union {m},
             TakenEvents' \subseteq TakenEvents \union IF x.kind = "event" THEN {m} ELSE {},
             TakenGaps' \subseteq TakenGaps \union IF x.kind = "gap" THEN {m} ELSE {}
      PROVE  RoomInv'
  <2>1. m \in RearGaps \/ x.kind = "event"
    BY <1>1 DEF RearGaps
  <2>2. Takes1In(m)
    BY <1>1, <1>5, <2>1 DEF Takes1In
  <2> QED BY <1>1, <1>4, <1>5, <2>2, TakesInRoom
<1>6. Fencing'
  BY <1>2 DEF Fencing
<1>7. CASE held = <<>> /\ ~ MustWait(entry) /\ Admit(entry) /\ UNCHANGED held
  <2>1. Below(Fore, {m})
    BY <1>1, PartsHold DEF Ordered, Below, Rear
  <2>2. /\ Arrived(x) /\ \A e \in EventMarks(queue)' : e > ack_cursor
        /\ queue_state' = "open" => queue_state = "open"
        /\ iterator = "gap" => iterator' = "gap" /\ hand' = hand
    BY <1>3, <1>7, <2>1, AdmitsInRoom
  <2>3. /\ UNCHANGED <<HeldMarks, HeldEvents, HeldGaps>> /\ held' = <<>>
    BY <1>7, HeldStays DEF HeldGaps
  <2>4. Waiting'
    BY <2>3 DEF Waiting, HeldMarks, Below
  <2>5. /\ Taken' \subseteq Taken \union {m}
        /\ TakenEvents' \subseteq TakenEvents \union IF x.kind = "event" THEN {m} ELSE {}
        /\ TakenGaps' \subseteq TakenGaps \union IF x.kind = "gap" THEN {m} ELSE {}
    BY <1>2, <2>2, <2>3 DEF Arrived, Taken, TakenEvents, TakenGaps
  <2>6. /\ Rear' \subseteq Rear /\ RearEvents' \subseteq RearEvents /\ RearGaps' \subseteq RearGaps /\ m \in Rear
        /\ x.kind = "gap" => m \in RearGaps
    BY <1>1, <2>3 DEF Rear, RearEvents, RearGaps
  <2>7. Downstream
    BY <1>0, <1>1, <1>4, <1>6, <2>2, <2>4, <2>6 DEF Downstream, Arrived
  <2> QED BY <1>5, <2>5, <2>7
<1>8. CASE /\ held # <<>> \/ MustWait(entry)
           /\ held' = Append(held, entry) /\ UNCHANGED <<queue, queue_state, iterator, hand>>
  <2>1. /\ Rear' = Rear /\ RearEvents' = RearEvents /\ HeldMarks' = HeldMarks \union {m}
    BY <1>0, <1>3, <1>8, <1>e, MovesUp
  <2>2. UNCHANGED <<HandMarks, Marks(queue), EventMarks(queue), Fore, ForeEvents>>
    BY <1>8, ForeStays
  <2>3. UNCHANGED ForeGaps
    BY <1>8 DEF ForeGaps, HandGaps, GapMarks
  <2>4. held \in Seq(Entries) /\ Typed
    BY PartsHold DEF LaneTyped
  <2>5. HeldEvents' = HeldEvents \union (IF x.kind = "event" THEN {m} ELSE {})
    BY <1>3, <1>8, <1>e, <2>4, HeldAppend
  <2>6. HeldGaps' \subseteq HeldGaps \union IF x.kind = "gap" THEN {m} ELSE {}
    <3>1. DOMAIN held' = DOMAIN held \union {Len(held) + 1} /\ held'[Len(held) + 1] = entry
          /\ \A i \in DOMAIN held : held'[i] = held[i]
      BY <1>8, <2>4
    <3> QED BY <1>3, <3>1 DEF HeldGaps
  <2>7. Waiting'
    BY <1>0, <1>1, <1>3, <1>8, <2>1, HoldsWaiting
  <2>8. /\ Taken' \subseteq Taken \union {m}
        /\ TakenEvents' \subseteq TakenEvents \union IF x.kind = "event" THEN {m} ELSE {}
        /\ TakenGaps' \subseteq TakenGaps \union IF x.kind = "gap" THEN {m} ELSE {}
    BY <1>2, <2>1, <2>2, <2>3, <2>5, <2>6 DEF Taken, TakenEvents, TakenGaps
  <2>9. RearGaps' \subseteq RearGaps
    BY <1>1, <2>6 DEF RearGaps
  <2>10. Downstream
    BY <1>0, <1>1, <1>4, <1>6, <1>8, <2>1, <2>2, <2>3, <2>7, <2>9 DEF Downstream, RoomInv, Room
  <2> QED BY <1>5, <2>8, <2>10
<1> QED BY <1>0, <1>7, <1>8

LEMMA ClientReceivesRoom ==
  ASSUME FInv, FInv', RoomInv, ~ Java, ClientReceives
  PROVE  RoomInv'
<1> DEFINE x == Head(to_client)
           m == Mark(x)
<1>1. to_client # <<>> /\ Received /\ to_client' = Tail(to_client) /\ UNCHANGED <<vars, to_host>>
  BY DEF ClientReceives, Received
<1>2. to_client \in Seq(Frames) /\ last_sequence \in Nat
  BY PartsHold, RoomTyped DEF WireTyped
<1>3. x \in Frames /\ (x.kind \in {"event", "gap"} <=> x \in Notes)
  BY <1>1, <1>2, TailPicks, NoteKinds DEF Notification
<1>4. x \in Notes => /\ (x.kind = "event" => x.seq = m /\ EventFrame(m) = x) /\ (x.kind = "gap" => x.watermark = m) /\ m \in Nat
  BY <1>1, HeadGoes
<1>5. ASSUME x.kind = "event", AcceptEvent(x.seq) PROVE RoomInv'
  <2>1. x \in Notes /\ x.seq = m /\ EventFrame(m) = x /\ m \in Nat
    BY <1>3, <1>4, <1>5
  <2>2. CASE m = last_sequence /\ Ignore
    BY <1>1, <2>1, <2>2, RefusesRoom
  <2>3. CASE Refuse
    BY <1>1, <2>1, <2>3, RefusesRoom
  <2>4. CASE /\ Follows(m) /\ last_sequence' = m /\ live' = live \union {m}
             /\ UNCHANGED <<sdk, gap_mark, ranges, terminal_replayed>> /\ Deliveries(EventFrame(m), m)
    <3>1. Strict => m >= last_sequence
      BY <1>2, <2>1, <2>4 DEF Strict, Follows, Contiguous
    <3>2. Deliveries(x, m)
      BY <2>1, <2>4
    <3> QED BY <1>1, <1>5, <2>1, <2>4, <3>1, <3>2, DeliversRoom
  <2> QED BY <1>5, <2>1, <2>2, <2>3, <2>4 DEF AcceptEvent
<1>6. ASSUME x.kind = "gap", TakeGap(x), Strict => m >= last_sequence PROVE RoomInv'
  <2>1. x \in Notes /\ x.watermark = m
    BY <1>3, <1>4, <1>6
  <2>2. /\ last_sequence' = m /\ gap_mark' = m /\ UNCHANGED <<sdk, live, ranges>> /\ Deliveries(x, m)
    BY <1>6, <2>1 DEF TakeGap
  <2> QED BY <1>1, <1>6, <2>1, <2>2, DeliversRoom
<1>7. ASSUME x.kind = "gap", AcceptGap(x) PROVE RoomInv'
  <2>1. x \in Notes /\ x.watermark = m /\ m \in Nat
    BY <1>3, <1>4, <1>7
  <2>2. CASE Refuse
    BY <1>1, <2>1, <2>2, RefusesRoom
  <2>3. CASE m = last_sequence /\ Ignore
    BY <1>1, <2>1, <2>3, RefusesRoom
  <2>4. CASE ~ MalformedGap(x) /\ m # last_sequence /\ TakeGap(x)
    <3>1. m >= last_sequence
      BY <1>2, <2>1, <2>4 DEF MalformedGap
    <3> QED BY <1>6, <1>7, <2>4, <3>1
  <2> QED BY <1>7, <2>1, <2>2, <2>3, <2>4 DEF AcceptGap
<1>8. ASSUME AcceptAnswer(x) PROVE RoomInv'
  <2>1. x.kind \in {"page", "replay_error", "settled"}
    BY <1>8 DEF AcceptAnswer
  <2>2. x \in Answers
    BY <1>3, <2>1 DEF Frames
  <2>3. x = to_client[1] /\ 1 \in DOMAIN to_client /\ x \notin Notes
    BY <1>1, <1>2, <1>3, <2>1, TailPicks
  <2>4. StillThere
    BY <1>1, WireShrinks DEF StillThere
  <2>5. UNCHANGED <<Marks(to_client), EventMarks(to_client)>>
    <3>1. Rising(to_client) /\ x.kind # "event"
      BY <2>1, PartsHold DEF RearOrdered
    <3>2. /\ Marks(to_client) = Marks(Tail(to_client)) /\ EventMarks(to_client) = EventMarks(Tail(to_client))
      BY <1>1, <1>2, <2>3, <3>1, TailMarks
    <3> QED BY <1>1, <3>2 DEF Marks, EventMarks, Places
  <2> QED BY <1>1, <1>8, <2>2, <2>3, <2>4, <2>5, AnswersRoom
<1>9. sdk = "typescript" => ~ Strict
  BY DEF Strict
<1> QED BY <1>5, <1>6, <1>7, <1>8, <1>9 DEF ClientReceives

\* Python and TypeScript: the head of the lane is pushed.
LEMMA PushRoom ==
  ASSUME FInv, FInv', RoomInv, ~ Java, Push
  PROVE  RoomInv'
<1> DEFINE entry == Head(held)
           m == entry.seq
<1>0. /\ held # <<>> /\ held' = Tail(held) /\ Admit(entry) /\ UNCHANGED <<vars, to_client, to_host>>
      /\ UNCHANGED <<sdk, last_sequence, gap_mark, live, ranges, retired, ack_cursor, submissions, recovery, seen>>
  BY DEF Push, wires, feed, acking
<1>1. /\ entry.item \in Notes /\ entry.seq = Mark(entry.item) /\ entry \in Entries /\ Waiting
      /\ held \in Seq(Entries) /\ HeldMarks \subseteq Nat /\ Typed /\ HeldRising /\ Marks(queue) \subseteq Nat
      /\ EventMarks(queue) \subseteq Marks(queue) /\ \A s \in submissions : s.seq \in Nat
  BY <1>0, HeldHeadLeaves, PartsHold, PipelineTyped, RoomTyped DEF RoomInv, LaneTyped, RearOrdered
<1>2. DOMAIN held' = 1 .. Len(held) - 1 /\ DOMAIN held = 1 .. Len(held) /\ Len(held) \in Nat /\ Len(held) >= 1
      /\ entry = held[1] /\ \A i \in DOMAIN held' : held'[i] = held[i + 1]
  BY <1>0, <1>1
<1>3. ~ Java' /\ UNCHANGED <<Strict, Marks(to_client), EventMarks(to_client), GapMarks(to_client)>>
  BY <1>0, WireStays DEF Java, Strict, GapMarks
<1>4. /\ HeldMarks = HeldMarks' \union {m}
      /\ HeldEvents = HeldEvents' \union (IF entry.item.kind = "event" THEN {m} ELSE {})
  BY <1>0, <1>1, HeldTail
<1>5. HeldGaps' \subseteq HeldGaps /\ (entry.item.kind = "gap" => m \in HeldGaps)
  <2>1. \A i \in DOMAIN held' : i + 1 \in DOMAIN held /\ held'[i] = held[i + 1]
    BY <1>2
  <2>2. 1 \in DOMAIN held
    BY <1>2
  <2> QED BY <1>2, <2>1, <2>2 DEF HeldGaps
<1>6. Below(Fore, {m})
  BY <1>4, PartsHold DEF Ordered, Below, Rear
<1> HIDE DEF entry
<1>7. /\ Arrived(entry.item) /\ \A e \in EventMarks(queue)' : e > ack_cursor
      /\ queue_state' = "open" => queue_state = "open"
      /\ iterator = "gap" => iterator' = "gap" /\ hand' = hand
  BY <1>0, <1>1, <1>6, AdmitsInRoom
<1>8. entry.item.kind \in {"event", "gap"}
  BY <1>1, NoteKinds
<1>9. /\ UNCHANGED Coming /\ Rear' \subseteq Rear /\ RearEvents' \subseteq RearEvents
      /\ ForeGaps' \union RearGaps' \subseteq ForeGaps \union RearGaps
      /\ Marks(queue)' \union Rear' \subseteq Marks(queue) \union Rear
      /\ HandMarks' \subseteq HandMarks \union Marks(queue) \union Rear
      /\ Taken' \subseteq Taken /\ TakenEvents' \subseteq TakenEvents /\ TakenGaps' \subseteq TakenGaps
  <2>1. UNCHANGED Coming
    BY <1>3 DEF Coming
  <2>2. Rear' \subseteq Rear /\ RearEvents' \subseteq RearEvents /\ RearGaps' \subseteq RearGaps
    BY <1>3, <1>4, <1>5 DEF Rear, RearEvents, RearGaps
  <2>3. Marks(queue)' \subseteq Marks(queue) \union Rear /\ HandMarks' \subseteq HandMarks \union Rear
    BY <1>1, <1>4, <1>7 DEF Arrived, Rear
  <2>4. ForeGaps' \subseteq ForeGaps \union HeldGaps
    BY <1>1, <1>5, <1>7, <1>8 DEF Arrived
  <2>5. Taken' \subseteq Taken
    BY <1>1, <1>3, <1>4, <1>7 DEF Arrived, Taken
  <2>6. TakenEvents' \subseteq TakenEvents
    BY <1>1, <1>3, <1>4, <1>7, <1>8 DEF Arrived, TakenEvents
  <2>7. TakenGaps' \subseteq TakenGaps
    BY <1>3, <1>5, <2>4 DEF TakenGaps
  <2> QED BY <2>1, <2>2, <2>3, <2>4, <2>5, <2>6, <2>7 DEF RearGaps
<1>10. Waiting'
  <2>1. held' # <<>> => recovery' \in {"idle", "acking"}
    BY <1>0, <1>1 DEF Waiting
  <2>2. ASSUME NEW s \in submissions, s.task = "recovery"
        PROVE  Below({s.seq}, HeldMarks') /\ (Retires(s.seq)' => Retires(s.seq))
    <3>1. Below({s.seq}, HeldMarks)
      BY <1>1, <2>2 DEF Waiting
    <3>2. s.seq < m /\ m \in Nat /\ s.seq \in Nat
      BY <1>1, <1>4, <3>1 DEF Below
    <3>3. ASSUME Retires(s.seq)' PROVE Retires(s.seq)
      <4>1. PICK e \in EventMarks(queue)' : e <= s.seq
        BY <3>3 DEF Retires, EventMarks
      <4>2. e \in EventMarks(queue) \/ e = m
        BY <1>1, <1>7, <4>1 DEF Arrived
      <4> QED BY <3>2, <4>1, <4>2, RetiresMarks
    <3> QED BY <1>4, <3>1, <3>3 DEF Below
  <2>3. ASSUME NEW s \in submissions, s.task = "recovery", NEW i \in DOMAIN held',
               held'[i].item.kind = "event", held'[i].seq <= s.seq + QueueSize, Retires(s.seq)'
        PROVE  Named(s) \in held'[i].waits_for
    <3>1. i + 1 \in DOMAIN held /\ held'[i] = held[i + 1]
      BY <1>2, <2>3
    <3>2. Retires(s.seq)
      BY <2>2, <2>3
    <3> QED BY <1>1, <2>3, <3>1, <3>2 DEF Waiting
  <2> QED BY <1>0, <2>1, <2>2, <2>3 DEF Waiting, Retires, Named
<1>11. Fencing' /\ StillThere
  BY <1>0, <1>3 DEF Fencing, StillThere
<1>12. Downstream
  BY <1>0, <1>7, <1>9, <1>10, <1>11 DEF Downstream
<1> QED BY <1>0, <1>9, <1>12, PassesRoom

\* Java: an event waits in the lane for the ACK of its predecessor.
LEMMA FenceRoom ==
  ASSUME FInv, FInv', RoomInv, Java, Fence
  PROVE  RoomInv'
<1> DEFINE x == Head(to_client)
           m == Mark(x)
<1>0. /\ to_client # <<>> /\ held = <<>> /\ to_client' = Tail(to_client) /\ UNCHANGED <<vars, to_host>>
      /\ held' = <<[item |-> x, seq |-> x.seq, waits_for |-> Fences(x)]>> /\ Fences(x) # {} /\ Notification(x)
      /\ UNCHANGED <<sdk, last_sequence, gap_mark, live, ranges, queue, queue_state, retired, ack_cursor, submissions,
                     iterator, hand, recovery, seen>>
  BY DEF Fence, AtHead, Received, feed, acking, app
<1>1. x \in Notes
  <2>1. to_client \in Seq(Frames)
    BY PartsHold DEF WireTyped
  <2> QED BY <1>0, <2>1, TailPicks, NoteKinds
<1>2. /\ StillThere /\ Marks(to_client) = Marks(to_client)' \union {m} /\ m \in Nat /\ m \in Marks(to_client)
      /\ EventMarks(to_client)' \subseteq EventMarks(to_client) /\ GapMarks(to_client)' \subseteq GapMarks(to_client)
      /\ x.kind = "event" => m \in EventMarks(to_client) /\ x.seq = m
      /\ m \in 1 .. Terminal
  BY <1>0, <1>1, HeadGoes
<1>3. /\ x.kind = "event" /\ Predecessors(m) # {} /\ Fences(x) = Predecessors(m)
  BY <1>0, <1>2 DEF Fences
<1>4. /\ held'[1].item = x /\ held'[1].seq = m /\ held'[1].waits_for = Predecessors(m) /\ DOMAIN held' = {1}
  BY <1>0, <1>2, <1>3
<1>5. HeldMarks' = {m} /\ HeldEvents' = {m} /\ HeldGaps' = {}
  BY <1>3, <1>4 DEF HeldMarks, HeldEvents, HeldGaps
<1>6. UNCHANGED <<Java, Strict, HandMarks, Marks(queue), EventMarks(queue), Fore, ForeEvents, ForeGaps>>
  <2>1. UNCHANGED <<HandMarks, Marks(queue), EventMarks(queue), Fore, ForeEvents>>
    BY <1>0, ForeStays
  <2>2. UNCHANGED ForeGaps
    BY <1>0 DEF ForeGaps, HandGaps, GapMarks
  <2> QED BY <1>0, <2>1, <2>2 DEF Java, Strict
<1>7. HeldMarks = {}
  BY <1>0 DEF HeldMarks
<1>8. /\ UNCHANGED Coming /\ Rear' \subseteq Rear /\ RearEvents' \subseteq RearEvents /\ RearGaps' \subseteq RearGaps
      /\ UNCHANGED <<Taken, TakenEvents, TakenGaps>>
  <2>1. UNCHANGED Coming /\ Rear' \subseteq Rear
    BY <1>2, <1>5, <1>6, <1>7 DEF Coming, Rear
  <2>2. RearEvents' \subseteq RearEvents /\ RearGaps' \subseteq RearGaps
    BY <1>2, <1>3, <1>5 DEF RearEvents, RearGaps
  <2>3. UNCHANGED <<Taken, TakenEvents, TakenGaps>>
    BY <1>6 DEF Taken, TakenEvents, TakenGaps
  <2> QED BY <2>1, <2>2, <2>3
<1>9. Waiting'
  BY <1>6 DEF Waiting
<1>10. Fencing'
  <2>1. PICK s \in submissions : s.seq + 1 = m /\ Named(s) \in Predecessors(m) /\ s.seq \in Nat
    BY <1>3, RoomTyped DEF Predecessors
  <2>2. s.seq \in 0 .. held'[1].seq - 1 /\ held'[1].seq <= s.seq + MaxOutstanding
    BY <1>2, <1>4, <2>1, Constants
  <2>3. FencedBy(held[1], s.seq)'
    BY <1>0, <1>4, <2>1 DEF FencedBy, Named, Retires
  <2> QED BY <1>3, <1>4, <2>2, <2>3 DEF Fencing
<1>11. Downstream
  BY <1>0, <1>2, <1>6, <1>8, <1>9, <1>10 DEF Downstream, RoomInv, Room
<1> QED BY <1>0, <1>8, <1>11, PassesRoom

\* Java: a notification leaves the lane, whatever becomes of it.
LEMMA PublishRoom ==
  ASSUME FInv, FInv', RoomInv, Java, NEW x \in Notes, PublishItem(x), StillThere,
         UNCHANGED <<vars, to_host, sdk, ranges, retired, ack_cursor, submissions, iterator, hand, recovery, seen>>,
         held' = <<>>, Coming' \subseteq Coming, Coming \subseteq Coming' \union {Mark(x)}, Mark(x) \in Coming,
         Rear' \subseteq Rear, RearEvents' \subseteq RearEvents, RearGaps' \subseteq RearGaps,
         Mark(x) \in Rear, x.kind = "gap" => Mark(x) \in RearGaps
  PROVE  RoomInv'
<1> DEFINE m == Mark(x)
<1>0. /\ x.kind \in {"event", "gap"} /\ m \in 1 .. Terminal
      /\ (x.kind = "event" => x.seq = m /\ EventFrame(m) = x) /\ (x.kind = "gap" => x.watermark = m)
  <2>1. x.kind = "event" => x \in Events
    BY DEF Notes, Notices
  <2> QED BY <2>1, NoteKinds DEF Events, EventFrame
<1>1. /\ m \in Nat /\ last_sequence \in Nat /\ ack_cursor \in Nat /\ Room /\ EventMarks(queue) \subseteq Nat
  BY <1>0, RoomTyped, PartsHold, PipelineTyped DEF RoomInv
<1>2. Java' /\ Strict /\ Strict' /\ Waiting' /\ Fencing'
  <2>1. Java' /\ Strict /\ Strict'
    BY DEF Java, Strict
  <2> QED BY <2>1 DEF Waiting, Fencing
<1> HIDE DEF m
<1>3. ASSUME Arrived(x), \A e \in EventMarks(queue)' : e > ack_cursor, queue_state' = "open" => queue_state = "open"
      PROVE  /\ Downstream /\ Taken' \subseteq Taken \union {m}
             /\ TakenEvents' \subseteq TakenEvents \union IF x.kind = "event" THEN {m} ELSE {}
             /\ TakenGaps' \subseteq TakenGaps \union IF x.kind = "gap" THEN {m} ELSE {}
  <2>1. /\ Fore' \subseteq Fore \union {m} /\ Marks(queue)' \subseteq Marks(queue) \union {m} /\ HandMarks' \subseteq HandMarks \union {m}
        /\ ForeEvents' \subseteq ForeEvents \union IF x.kind = "event" THEN {m} ELSE {}
        /\ ForeGaps' \subseteq ForeGaps \union IF x.kind = "gap" THEN {m} ELSE {}
    BY <1>3 DEF Arrived, m
  <2>2. ForeGaps' \subseteq ForeGaps \union RearGaps /\ m \in Rear
    BY <2>1 DEF m
  <2>3. Downstream
    BY <1>2, <1>3, <2>1, <2>2 DEF Downstream
  <2> QED BY <1>2, <2>1, <2>3 DEF Taken, TakenEvents, TakenGaps
<1>4. ASSUME hand' = hand, queue' \in {queue, <<>>}, queue_state' = "open" => queue_state = "open"
      PROVE  /\ Downstream /\ Taken' \subseteq Taken /\ TakenEvents' \subseteq TakenEvents /\ TakenGaps' \subseteq TakenGaps
  <2>1. /\ Marks(queue)' \subseteq Marks(queue) /\ EventMarks(queue)' \subseteq EventMarks(queue)
        /\ GapMarks(queue)' \subseteq GapMarks(queue)
    <3>1. CASE queue' = queue
      BY <3>1 DEF Marks, EventMarks, GapMarks, Places
    <3>2. CASE queue' = <<>>
      <4>1. DOMAIN queue' = {}
        BY <3>2
      <4> QED BY <4>1 DEF Marks, EventMarks, GapMarks, Places
    <3> QED BY <1>4, <3>1, <3>2
  <2>2. UNCHANGED <<HandMarks, HandEvents, HandGaps>>
    BY <1>4 DEF HandMarks, HandEvents, HandGaps
  <2>3. Fore' \subseteq Fore /\ ForeEvents' \subseteq ForeEvents /\ ForeGaps' \subseteq ForeGaps
    BY <2>1, <2>2 DEF Fore, ForeEvents, ForeGaps
  <2>4. \A e \in EventMarks(queue)' : e > ack_cursor
    BY <1>1, <2>1 DEF Room
  <2>5. Downstream
    BY <1>2, <1>4, <2>1, <2>2, <2>3, <2>4 DEF Downstream
  <2> QED BY <1>2, <2>3, <2>5 DEF Taken, TakenEvents, TakenGaps
\* It passes: it was closed, acknowledged or there already.
<1>5. ASSUME UNCHANGED <<queue, last_sequence, gap_mark, live>>, queue_state' = "open" => queue_state = "open",
             queue_state # "open" \/ m <= ack_cursor \/ m = last_sequence
      PROVE  RoomInv'
  <2>1. /\ Downstream /\ Taken' \subseteq Taken /\ TakenEvents' \subseteq TakenEvents /\ TakenGaps' \subseteq TakenGaps
    BY <1>4, <1>5
  <2>2. queue_state' = "open" => \A a \in Coming \ Coming' : a <= last_sequence' \/ Known(a)
    BY <1>1, <1>5 DEF Known, m
  <2> QED BY <1>5, <2>1, <2>2, PassesRoom
\* The feed fails.
<1>6. ASSUME Fail, UNCHANGED <<last_sequence, gap_mark, live>> PROVE RoomInv'
  <2>1. queue' = <<>> /\ queue_state' # "open"
    BY <1>6 DEF Fail
  <2>2. /\ Downstream /\ Taken' \subseteq Taken /\ TakenEvents' \subseteq TakenEvents /\ TakenGaps' \subseteq TakenGaps
    BY <1>4, <2>1
  <2> QED BY <1>6, <2>1, <2>2, PassesRoom
\* It is taken.
<1>7. ASSUME Downstream, Taken' \subseteq Taken \union {m}, last_sequence' = m, m >= last_sequence,
             TakenEvents' \subseteq TakenEvents \union IF x.kind = "event" THEN {m} ELSE {},
             TakenGaps' \subseteq TakenGaps \union IF x.kind = "gap" THEN {m} ELSE {},
             IF x.kind = "event" THEN live' = live \union {m} /\ UNCHANGED gap_mark ELSE UNCHANGED live /\ gap_mark' = m
      PROVE  RoomInv'
  <2>1. Takes1In(m)
    BY <1>0, <1>7 DEF Takes1In, m
  <2> QED BY <1>7, <2>1, TakesInRoom DEF m
<1>8. ASSUME Enters(x), ~ m <= ack_cursor, queue_state' = "open" => queue_state = "open"
      PROVE  /\ Downstream /\ Taken' \subseteq Taken \union {m}
             /\ TakenEvents' \subseteq TakenEvents \union IF x.kind = "event" THEN {m} ELSE {}
             /\ TakenGaps' \subseteq TakenGaps \union IF x.kind = "gap" THEN {m} ELSE {}
  <2>1. Arrived(x)
    BY <1>8, ArrivesInRoom
  <2>2. \A e \in EventMarks(queue)' : e \in EventMarks(queue) \/ e = m
    BY <2>1 DEF Arrived, m
  <2>3. \A e \in EventMarks(queue)' : e > ack_cursor
    BY <1>1, <1>8, <2>2 DEF Room
  <2> QED BY <1>3, <1>8, <2>1, <2>3
<1>9. ASSUME x.kind = "event", PublishEvent(m), UNCHANGED gap_mark PROVE RoomInv'
  <2> DEFINE passes == queue_state # "open" \/ m <= ack_cursor \/ m = last_sequence
  <2>1. CASE passes /\ ClosesAfter(m) /\ UNCHANGED <<last_sequence, live, queue>>
    <3>1. queue_state' = "open" => queue_state = "open"
      BY <2>1 DEF ClosesAfter
    <3> QED BY <1>5, <1>9, <2>1, <3>1
  <2>2. CASE Fail /\ UNCHANGED <<last_sequence, live>>
    BY <1>6, <1>9, <2>2
  <2>3. CASE ~ passes /\ JavaFollows(m) /\ last_sequence' = m /\ live' = live \union {m}
             /\ queue' = Append(queue, EventFrame(m)) /\ ClosesAfter(m)
    <3>1. Enters(x)
      BY <1>0, <1>9, <2>3 DEF Enters
    <3>2. queue_state' = "open" => queue_state = "open"
      BY <2>3 DEF ClosesAfter
    <3>3. m >= last_sequence
      BY <1>1, <2>3 DEF JavaFollows
    <3> QED BY <1>7, <1>8, <1>9, <2>3, <3>1, <3>2, <3>3
  <2>4. CASE ~ passes /\ JavaFollows(m) /\ last_sequence' = m /\ live' = live \union {m} /\ Fail
    <3>1. queue' = <<>> /\ queue_state' # "open"
      BY <2>4 DEF Fail
    <3>2. /\ Downstream /\ Taken' \subseteq Taken /\ TakenEvents' \subseteq TakenEvents /\ TakenGaps' \subseteq TakenGaps
      BY <1>4, <3>1
    <3>3. m >= last_sequence
      BY <1>1, <2>4 DEF JavaFollows
    <3> QED BY <1>7, <1>9, <2>4, <3>2, <3>3
  <2> QED BY <1>9, <2>1, <2>2, <2>3, <2>4 DEF PublishEvent
<1>10. ASSUME x.kind = "gap", PublishGap(x) PROVE RoomInv'
  <2> DEFINE passes == queue_state # "open" \/ m <= ack_cursor
  <2>0. x.watermark = m
    BY <1>0, <1>10
  <2>1. CASE (passes \/ m = last_sequence) /\ UNCHANGED <<last_sequence, gap_mark, live, queue, queue_state>>
    BY <1>5, <2>1
  <2>2. CASE Fail /\ UNCHANGED <<last_sequence, gap_mark, live>>
    BY <1>6, <2>2
  <2>3. CASE ~ passes /\ ~ Misplaced(x) /\ last_sequence' = m /\ gap_mark' = m /\ queue' = WithGap(x) /\ UNCHANGED <<queue_state, live>>
    <3>1. Enters(x)
      BY <1>10, <2>3 DEF Enters, WithGap
    <3>2. m >= last_sequence
      BY <1>1, <2>0, <2>3 DEF Misplaced
    <3> QED BY <1>7, <1>8, <1>10, <2>3, <3>1, <3>2
  <2> QED BY <1>10, <2>0, <2>1, <2>2, <2>3 DEF PublishGap
<1> QED BY <1>0, <1>9, <1>10 DEF PublishItem

LEMMA PublishesRoom ==
  ASSUME FInv, FInv', RoomInv, Java, Publishes
  PROVE  RoomInv'
<1>1. UNCHANGED <<vars, to_host, sdk, ranges, retired, ack_cursor, submissions, iterator, hand, recovery, seen>>
  BY DEF Publishes, acking, app, Received, wires
<1>2. LaneTyped /\ WireTyped /\ Len(held) <= 1
  BY PartsHold
<1>j. Java'
  BY <1>1 DEF Java
<1>3. CASE /\ AtHead /\ PublishItem(Head(to_client)) /\ Received /\ UNCHANGED held
  <2> DEFINE x == Head(to_client)
  <2>1. to_client # <<>> /\ to_client' = Tail(to_client) /\ held = <<>> /\ held' = <<>>
    BY <1>3 DEF AtHead, Received
  <2>2. x \in Notes
    <3>1. x \in Frames /\ Notification(x)
      BY <1>2, <1>3, <2>1, TailPicks DEF AtHead, WireTyped
    <3> QED BY <3>1, NoteKinds
  <2>3. /\ StillThere
        /\ Marks(to_client) = Marks(to_client)' \union {Mark(x)} /\ Mark(x) \in Coming /\ Mark(x) \in Marks(to_client)
        /\ EventMarks(to_client)' \subseteq EventMarks(to_client) /\ GapMarks(to_client)' \subseteq GapMarks(to_client)
        /\ x.kind = "gap" => Mark(x) \in GapMarks(to_client)
    BY <2>1, <2>2, HeadGoes
  <2> HIDE DEF x
  <2>4. UNCHANGED <<HeldMarks, HeldEvents, HeldGaps>>
    BY <2>1 DEF HeldMarks, HeldEvents, HeldGaps
  <2>5. /\ Coming' \subseteq Coming /\ Coming \subseteq Coming' \union {Mark(x)}
        /\ Rear' \subseteq Rear /\ RearEvents' \subseteq RearEvents /\ RearGaps' \subseteq RearGaps
        /\ Mark(x) \in Rear /\ (x.kind = "gap" => Mark(x) \in RearGaps)
    BY <1>j, <2>3, <2>4 DEF Coming, Rear, RearEvents, RearGaps
  <2> QED BY <1>1, <1>3, <2>1, <2>2, <2>3, <2>5, PublishRoom DEF x
<1>4. CASE held # <<>> /\ PublishItem(Head(held).item) /\ held' = <<>> /\ UNCHANGED wires
  <2> DEFINE x == Head(held).item
  <2>1. held' = Tail(held) /\ UNCHANGED to_client
    BY <1>2, <1>4 DEF wires, LaneTyped
  <2>2. /\ x \in Notes /\ Head(held).seq = Mark(x) /\ HeldMarks = HeldMarks' \union {Mark(x)}
    BY <1>1, <1>4, <2>1, HeldHeadLeaves
  <2>3. /\ HeldMarks' = {} /\ HeldEvents' = {} /\ HeldGaps' = {}
    BY <1>4 DEF HeldMarks, HeldEvents, HeldGaps
  <2>4. x.kind = "gap" => Mark(x) \in HeldGaps
    <3>1. 1 \in DOMAIN held /\ Head(held) = held[1]
      BY <1>2, <1>4 DEF LaneTyped
    <3> QED BY <2>2, <3>1 DEF HeldGaps
  <2>5. UNCHANGED <<Marks(to_client), EventMarks(to_client), GapMarks(to_client)>> /\ StillThere
    BY <2>1, WireStays DEF GapMarks, StillThere
  <2> HIDE DEF x
  <2>6. /\ Coming' \subseteq Coming /\ Coming \subseteq Coming' \union {Mark(x)} /\ Mark(x) \in Coming
        /\ Rear' \subseteq Rear /\ RearEvents' \subseteq RearEvents /\ RearGaps' \subseteq RearGaps
        /\ Mark(x) \in Rear /\ (x.kind = "gap" => Mark(x) \in RearGaps)
    BY <1>j, <2>2, <2>3, <2>4, <2>5 DEF Coming, Rear, RearEvents, RearGaps
  <2> QED BY <1>1, <1>4, <2>2, <2>5, <2>6, PublishRoom DEF x
<1> QED BY <1>3, <1>4 DEF Publishes
--------
(* The steps of the Host. *)

\* What the client has, and what it knows of it, stays.
LEMMA HostLeavesClient ==
  ASSUME FInv, RoomInv, UNCHANGED client
  PROVE  ClientKept
<1> USE ClientStays
<1>1. UNCHANGED <<Java, Strict, Fore, ForeGaps, Taken, TakenGaps, Marks(queue), HandMarks,
                  HeldMarks, HeldEvents, HeldGaps>>
  BY DEF Java, Strict, Fore, ForeGaps, Taken, TakenGaps, HandMarks, HandGaps, HeldMarks, HeldEvents, HeldGaps,
         Marks, Places, GapMarks
<1>2. /\ \A n : Known(n)' <=> Known(n)
      /\ \A n : Unacked(n)' <=> Unacked(n)
      /\ \A n : Paged(n)' <=> Paged(n)
  BY DEF Known, Unacked, Paged
<1>3. UNCHANGED TakenEvents
  BY DEF TakenEvents, ForeEvents, HandEvents, EventMarks, HeldEvents, Java
<1>4. Noted'
  BY <1>1, <1>3 DEF RoomInv, Noted
<1>5. SeenKnown'
  BY DEF RoomInv, SeenKnown
<1>6. Room'
  BY DEF RoomInv, Room, Java, EventMarks
<1>7. Waiting'
  BY <1>1 DEF RoomInv, Waiting, Retires, Named
<1>8. Fencing'
  BY <1>1 DEF RoomInv, Fencing, FencedBy, Retires, Named
<1> QED BY <1>1, <1>2, <1>4, <1>5, <1>6, <1>7, <1>8 DEF ClientKept

\* What the Host announces is beyond every ACK that the iterator has submitted.
LEMMA HostKeepsDebts ==
  ASSUME FInv, RoomInv, UNCHANGED client, Top' >= Top, Top' \in Nat, \A m \in Rear' : m \in Rear \/ (m \in Nat /\ m > Top)
  PROVE  Debts'
<1>1. Top \in Nat /\ \A s \in submissions : s.seq \in Nat
  BY RoomTyped
<1>2. UNCHANGED <<Java, Strict, Marks(queue), HandMarks>>
  BY HostLeavesClient DEF ClientKept
<1>3. \A s, t \in submissions : s.task = "recovery" => recovery = "acking" /\ (t.task = "recovery" => s = t)
  BY DEF RoomInv, Debts
<1>4. \A s \in submissions : s.observed /\ (Strict => s.seq <= last_sequence \/ s.covered)
  BY DEF RoomInv, Debts
<1>5. ASSUME NEW s \in submissions, s.task = "iterator"
      PROVE  /\ s.seq <= Top' /\ Below({s.seq}, Marks(queue) \union Rear')
             /\ \A h \in HandMarks : s.seq <= h /\ (Java => s.seq < h)
  <2>1. /\ s.seq <= Top /\ Below({s.seq}, Marks(queue) \union Rear)
        /\ \A h \in HandMarks : s.seq <= h /\ (Java => s.seq < h)
    BY <1>5 DEF RoomInv, Debts
  <2>2. s.seq <= Top' /\ \A m \in Nat : m > Top => s.seq < m
    BY <1>1, <2>1
  <2> QED BY <2>1, <2>2 DEF Below
<1> QED BY <1>2, <1>3, <1>4, <1>5, ClientStays DEF Debts

\* A step of the Host that announces nothing.
LEMMA SilentRoom ==
  ASSUME FInv, FInv', RoomInv, UNCHANGED client, Quiet,
         UNCHANGED <<Marks(to_client), EventMarks(to_client)>>,
         \A i \in DOMAIN to_client' : to_client'[i].kind = "gap" =>
            \E j \in DOMAIN to_client : to_client'[i] = to_client[j],
         UNCHANGED pausing \/ ~ paused \/ ~ Unacked(paused_sequence),
         ~ paused' => (~ paused /\ last_sent_sequence' = last_sent_sequence)
                      \/ \E n \in Nat : n = last_sent_sequence' /\ Known(n),
         Licences', Served'
  PROVE  RoomInv'
<1>1. ClientKept
  BY HostLeavesClient
<1> USE DEF ClientKept
<1>2. UNCHANGED <<Coming, Rear>>
  BY <1>1 DEF Coming, Rear
<1>3. /\ Top \in Nat /\ seen \in Nat /\ last_sequence \in Nat /\ submissions \subseteq Submissions
      /\ \A s \in submissions : s.seq \in Nat
  BY RoomTyped
<1>4. Top' >= Top /\ Top' \in Nat
  <2>1. last_sent_sequence' \in Nat /\ paused_sequence' \in Nat
    BY RoomTypedAfter
  <2> QED BY <2>1 DEF Quiet, Top
<1>5. Bridged'
  BY <1>1, <1>2, <1>3, <1>4, ClientStays DEF RoomInv, Bridged
<1>6. Debts'
  BY <1>2, <1>4, HostKeepsDebts
<1>7. GapMarks(to_client)' \subseteq GapMarks(to_client)
  BY DEF GapMarks
<1>8. Gaps'
  <2>1. \A w \in ForeGaps \union RearGaps : Unacked(w) => paused /\ paused_sequence = w
    BY DEF RoomInv, Gaps
  <2>2. \A w \in ForeGaps' \union RearGaps' : w \in ForeGaps \union RearGaps
    BY <1>1, <1>7 DEF RearGaps
  <2>3. ASSUME NEW w \in ForeGaps' \union RearGaps', Unacked(w)' PROVE paused' /\ paused_sequence' = w
    <3>1. Unacked(w) /\ paused /\ paused_sequence = w
      BY <1>1, <2>1, <2>2, <2>3
    <3> QED BY <3>1 DEF pausing
  <2>4. \A w \in TakenGaps' : Unacked(w)' => gap_mark' = w
    BY <1>1, ClientStays DEF RoomInv, Gaps
  <2>5. \A i \in DOMAIN to_client' : to_client'[i].kind = "gap" => to_client'[i].from = to_client'[i].watermark
    BY DEF RoomInv, Gaps
  <2> QED BY <2>3, <2>4, <2>5 DEF Gaps
<1>9. Adjoins'
  <2> SUFFICES ASSUME Strict', queue_state' = "open"
               PROVE  /\ \A m \in Coming' : Adjacent(m - 1)'
                      /\ ~ paused' => Adjacent(last_sent_sequence)'
    BY DEF Adjoins
  <2>1. /\ \A m \in Coming : Adjacent(m - 1)
        /\ ~ paused => Adjacent(last_sent_sequence)
    BY <1>1, ClientStays DEF RoomInv, Adjoins
  <2>2. \A n : Adjacent(n) => n = last_sequence' \/ n \in Coming' \/ Known(n)'
    BY <1>1, <1>2, ClientStays DEF Adjacent
  <2>3. \A m \in Coming' : Adjacent(m - 1)'
    <3>1. ASSUME NEW m \in Coming', NEW n, n = m - 1 PROVE n = last_sequence' \/ n \in Coming' \/ Known(n)'
      BY <1>2, <2>1, <2>2, <3>1
    <3> QED BY <3>1 DEF Adjacent
  <2>4. ASSUME ~ paused' PROVE Adjacent(last_sent_sequence)'
    <3>1. ASSUME NEW n, n = last_sent_sequence' PROVE n = last_sequence' \/ n \in Coming' \/ Known(n)'
      <4>1. CASE ~ paused /\ last_sent_sequence' = last_sent_sequence
        BY <2>1, <2>2, <3>1, <4>1
      <4>2. CASE Known(n)
        BY <1>1, <4>2
      <4> QED BY <2>4, <3>1, <4>1, <4>2
    <3> QED BY <3>1 DEF Adjacent, Known
  <2> QED BY <2>3, <2>4
<1> QED BY <1>1, <1>5, <1>6, <1>8, <1>9 DEF RoomInv

\* The next event is announced, live or by a gap.
LEMMA NoteRoom ==
  ASSUME FInv, FInv', RoomInv, Carried, UNCHANGED client, NEW x \in Notes, SaysNote(x)
  PROVE  RoomInv'
<1> DEFINE m == Mark(x)
<1>0. /\ m \in Nat /\ x \in Frames /\ x.kind \in {"event", "gap"} /\ x.kind # "page"
      /\ (x.kind = "event" => x.seq = m) /\ (x.kind = "gap" => x.watermark = m)
  BY NoteKinds, Constants
<1>1. ClientKept
  BY HostLeavesClient
<1> USE DEF ClientKept
<1>2. /\ Top \in Nat /\ seen \in Nat /\ last_sequence \in Nat /\ last_sent_sequence \in Nat
      /\ \A s \in submissions : s.seq \in Nat
      /\ Len(unacked) \in Nat /\ MaxOutstanding \in Nat /\ Rear \subseteq Nat /\ Coming \subseteq Nat
  BY RoomTyped
<1>3. /\ ~ paused /\ m = last_sent_sequence + 1 /\ to_client' = Append(to_client, x)
      /\ UNCHANGED <<to_host, acks>>
  <2>1. /\ ~ paused /\ to_client' = Append(to_client, x) /\ UNCHANGED <<to_host, acks>>
        /\ last_sent_sequence < m /\ Joined(last_sent_sequence, m)
    BY DEF SaysNote, Announces
  <2>2. m <= last_sent_sequence + 1
    BY <1>0, <1>2, <2>1, JoinedFacts
  <2> QED BY <1>0, <1>2, <2>1, <2>2
<1>4. /\ x.kind = "event" => ~ paused' /\ last_sent_sequence' = m
      /\ x.kind = "gap" => paused' /\ paused_sequence' = m /\ x.from = m /\ UNCHANGED window
  BY <1>3 DEF SaysNote, Announces
<1>5. Top = last_sent_sequence /\ Top' = m
  BY <1>0, <1>3, <1>4 DEF Top
<1>6. to_client \in Seq(Frames)
  BY PartsHold DEF WireTyped
<1>7. /\ Marks(to_client)' = Marks(to_client) \union {m}
      /\ EventMarks(to_client)' = EventMarks(to_client) \union (IF x.kind = "event" THEN {m} ELSE {})
      /\ GapMarks(to_client)' = GapMarks(to_client) \union (IF x.kind = "gap" THEN {m} ELSE {})
  <2>1. /\ Marks(Append(to_client, x)) = Marks(to_client) \union (IF x \in Notes THEN {Mark(x)} ELSE {})
        /\ EventMarks(Append(to_client, x)) = EventMarks(to_client) \union (IF x.kind = "event" THEN {x.seq} ELSE {})
    BY <1>0, <1>6, AppendMarks
  <2>2. GapMarks(Append(to_client, x)) = GapMarks(to_client) \union (IF x.kind = "gap" THEN {x.watermark} ELSE {})
    BY <1>0, <1>6, GapMarksAppend
  <2>3. /\ Marks(to_client)' = Marks(Append(to_client, x))
        /\ EventMarks(to_client)' = EventMarks(Append(to_client, x))
        /\ GapMarks(to_client)' = GapMarks(Append(to_client, x))
    BY <1>3
  <2> QED BY <1>0, <2>1, <2>2, <2>3
<1>8. \A i \in DOMAIN to_client' : to_client'[i] = x \/ \E j \in DOMAIN to_client : to_client'[i] = to_client[j]
  <2>1. \A i \in DOMAIN Append(to_client, x) :
           Append(to_client, x)[i] = x \/ \E j \in DOMAIN to_client : Append(to_client, x)[i] = to_client[j]
    BY <1>6
  <2> QED BY <1>3, <2>1
<1> HIDE DEF m
<1>9. /\ Coming' = Coming \union {m} /\ Rear' = Rear \union {m}
      /\ RearEvents' = RearEvents \union (IF x.kind = "event" THEN {m} ELSE {})
      /\ RearGaps' = RearGaps \union (IF x.kind = "gap" THEN {m} ELSE {})
  <2>1. Coming' = Coming \union {m} /\ Rear' = Rear \union {m}
    BY <1>1, <1>7 DEF Coming, Rear
  <2>2. RearEvents' = RearEvents \union (IF x.kind = "event" THEN {m} ELSE {})
    BY <1>1, <1>7 DEF RearEvents
  <2>3. RearGaps' = RearGaps \union (IF x.kind = "gap" THEN {m} ELSE {})
    BY <1>1, <1>7 DEF RearGaps
  <2> QED BY <2>1, <2>2, <2>3
<1>10. Licences'
  <2>0. /\ Len(unacked) <= last_sent_sequence
        /\ \A i \in DOMAIN unacked : unacked[i].seq = last_sent_sequence - Len(unacked) + i
        /\ Known(last_sent_sequence - Len(unacked))
    BY DEF RoomInv, Licences, WindowRuns
  <2>1. CASE x.kind = "event"
    <3>1. Len(unacked) + 1 <= MaxOutstanding
      BY <2>1 DEF SaysNote
    <3>2. PICK b \in Nat : unacked' = Append(unacked, [seq |-> m, bytes |-> b])
      BY <2>1 DEF SaysNote, m
    <3>3. unacked \in Seq([seq : Nat, bytes : Nat])
      BY DEF FInv, Inv, TypeOK
    <3>4. [seq |-> m, bytes |-> b] \in [seq : Nat, bytes : Nat] /\ [seq |-> m, bytes |-> b].seq = m
      BY <1>0, <3>2
    <3>5. /\ Len(unacked') = Len(unacked) + 1
          /\ \A i \in 1 .. Len(unacked) : unacked'[i] = unacked[i]
          /\ unacked'[Len(unacked) + 1] = [seq |-> m, bytes |-> b]
      BY <3>2, <3>3, <3>4, AppendProperties
    <3>6. DOMAIN unacked = 1 .. Len(unacked) /\ DOMAIN unacked' = 1 .. Len(unacked) + 1
      <4>1. unacked' \in Seq([seq : Nat, bytes : Nat])
        BY <3>2, <3>3, <3>4, AppendProperties
      <4> QED BY <3>3, <3>5, <4>1, LenProperties
    <3> DEFINE k == Len(unacked)
    <3>7. k \in Nat /\ k <= last_sent_sequence /\ Len(unacked') = k + 1 /\ last_sent_sequence' = last_sent_sequence + 1
      BY <1>2, <1>3, <1>4, <2>0, <2>1, <3>5
    <3>8. /\ \A i \in 1 .. k : unacked'[i].seq = last_sent_sequence - k + i
          /\ unacked'[k + 1].seq = m
      BY <2>0, <3>4, <3>5, <3>6
    <3>a. Known(last_sent_sequence - k)
      BY <2>0
    <3>b. DOMAIN unacked' = 1 .. k + 1
      BY <3>6
    <3> HIDE DEF k
    <3>9. \A i \in DOMAIN unacked' : unacked'[i].seq = last_sent_sequence - k + i
      <4> SUFFICES ASSUME NEW i \in 1 .. k + 1 PROVE unacked'[i].seq = last_sent_sequence - k + i
        BY <3>b
      <4>1. CASE i \in 1 .. k
        BY <3>8, <4>1
      <4>2. CASE i = k + 1
        BY <1>2, <1>3, <3>7, <3>8, <4>2
      <4> QED BY <3>7, <4>1, <4>2
    <3>10. last_sent_sequence' - Len(unacked') = last_sent_sequence - k /\ Len(unacked') <= last_sent_sequence'
      BY <1>2, <3>7
    <3>11. WindowRuns'
      <4>1. ASSUME NEW n, n = last_sent_sequence' - Len(unacked')
            PROVE  n \in Nat /\ (n <= ack_cursor' \/ \E s \in submissions' : s.written /\ s.seq = n)
        <5>1. n = last_sent_sequence - k /\ Known(n)
          BY <3>10, <3>a, <4>1
        <5>2. Known(n)'
          BY <1>1, <5>1
        <5> QED BY <1>2, <3>7, <5>1, <5>2 DEF Known
      <4>2. \A i \in DOMAIN unacked' : unacked'[i].seq = last_sent_sequence' - Len(unacked') + i
        BY <3>9, <3>10
      <4> QED BY <3>10, <4>1, <4>2 DEF WindowRuns, Known
    <3>12. Licensed(m)
      <4>1. last_sent_sequence - k \in 0 .. m - 1 /\ m <= (last_sent_sequence - k) + MaxOutstanding
        BY <1>2, <1>3, <3>1, <3>7 DEF k
      <4> QED BY <3>a, <4>1 DEF Licensed
    <3>13. \A seq \in RearEvents' : Licensed(seq)'
      <4> SUFFICES ASSUME NEW seq \in RearEvents' PROVE Licensed(seq)'
        OBVIOUS
      <4>1. Licensed(seq)
        BY <1>9, <2>1, <3>12 DEF RoomInv, Licences
      <4> QED BY <1>1, <4>1 DEF Licensed
    <3> QED BY <1>1, <1>3, <3>11, <3>13 DEF RoomInv, Licences, WritesKnown, Known
  <2>2. CASE x.kind = "gap"
    <3>1. UNCHANGED <<unacked, last_sent_sequence>>
      BY <1>4, <2>2 DEF window
    <3>2. WindowRuns'
      <4>1. ASSUME NEW n, n = last_sent_sequence - Len(unacked)
            PROVE  n <= ack_cursor' \/ \E s \in submissions' : s.written /\ s.seq = n
        BY <1>1, <2>0, <4>1 DEF Known
      <4> QED BY <2>0, <3>1, <4>1 DEF WindowRuns, Known
    <3>3. \A seq \in RearEvents' : Licensed(seq)'
      <4> SUFFICES ASSUME NEW seq \in RearEvents' PROVE Licensed(seq)'
        OBVIOUS
      <4>1. Licensed(seq)
        BY <1>9, <2>2 DEF RoomInv, Licences
      <4> QED BY <1>1, <4>1 DEF Licensed
    <3> QED BY <1>1, <1>3, <3>2, <3>3 DEF RoomInv, Licences, WritesKnown, Known
  <2> QED BY <1>0, <2>1, <2>2
<1>11. Bridged'
  <2> SUFFICES ASSUME NEW b \in 0 .. seen - 1, ~ Paged(b)
               PROVE  b < last_sequence /\ b < m /\ Below({b}, Coming \union {m})
    BY <1>1, <1>5, <1>9, ClientStays DEF Bridged
  <2>1. b < last_sequence /\ b < Top /\ Below({b}, Coming)
    BY DEF RoomInv, Bridged
  <2>2. b < m
    BY <1>2, <1>3, <1>5, <2>1
  <2> QED BY <2>1, <2>2 DEF Below
<1>12. Served'
  <2>1. \A i \in DOMAIN to_client : to_client[i].kind = "page" => to_client[i].page.base <= seen
    BY DEF RoomInv, Served
  <2> QED BY <1>0, <1>8, <2>1, ClientStays DEF Served
<1>13. Debts'
  BY <1>0, <1>2, <1>3, <1>5, <1>9, HostKeepsDebts
<1>14. Gaps'
  <2>1. \A w \in ForeGaps \union RearGaps : ~ Unacked(w)
    BY <1>3 DEF RoomInv, Gaps
  <2>2. ASSUME NEW w \in ForeGaps' \union RearGaps', Unacked(w)' PROVE paused' /\ paused_sequence' = w
    <3>1. x.kind = "gap" /\ w = m
      BY <1>1, <1>9, <2>1, <2>2
    <3> QED BY <1>4, <3>1
  <2>3. \A w \in TakenGaps' : Unacked(w)' => gap_mark' = w
    BY <1>1, ClientStays DEF RoomInv, Gaps
  <2>4. \A i \in DOMAIN to_client' : to_client'[i].kind = "gap" => to_client'[i].from = to_client'[i].watermark
    <3>1. \A i \in DOMAIN to_client : to_client[i].kind = "gap" => to_client[i].from = to_client[i].watermark
      BY DEF RoomInv, Gaps
    <3>2. x.kind = "gap" => x.from = x.watermark
      BY <1>0, <1>4
    <3> QED BY <1>8, <3>1, <3>2
  <2> QED BY <2>2, <2>3, <2>4 DEF Gaps
<1>15. Adjoins'
  <2> SUFFICES ASSUME Strict', queue_state' = "open"
               PROVE  /\ \A n \in Coming' : Adjacent(n - 1)'
                      /\ ~ paused' => Adjacent(last_sent_sequence)'
    BY DEF Adjoins
  <2>1. /\ \A n \in Coming : Adjacent(n - 1)
        /\ Adjacent(last_sent_sequence)
    BY <1>1, <1>3, ClientStays DEF RoomInv, Adjoins
  <2>2. \A n : Adjacent(n) => n = last_sequence' \/ n \in Coming' \/ Known(n)'
    BY <1>1, <1>9, ClientStays DEF Adjacent
  <2>3. \A n \in Coming' : Adjacent(n - 1)'
    <3>1. ASSUME NEW n \in Coming', NEW k, k = n - 1 PROVE k = last_sequence' \/ k \in Coming' \/ Known(k)'
      <4>1. CASE n = m
        BY <1>2, <1>3, <2>1, <2>2, <3>1, <4>1
      <4>2. CASE n # m
        BY <1>9, <2>1, <2>2, <3>1, <4>2
      <4> QED BY <4>1, <4>2
    <3> QED BY <3>1 DEF Adjacent
  <2>4. ASSUME ~ paused' PROVE Adjacent(last_sent_sequence)'
    <3>1. last_sent_sequence' = m /\ m \in Coming'
      BY <1>0, <1>4, <1>9, <2>4
    <3> QED BY <3>1 DEF Adjacent
  <2> QED BY <2>3, <2>4
<1> QED BY <1>1, <1>10, <1>11, <1>12, <1>13, <1>14, <1>15 DEF RoomInv

\* An accepted ACK leaves the window a run: it ends at the ACK, or begins right
\* after it.
LEMMA AcceptRuns ==
  ASSUME FInv, RoomInv, UNCHANGED client, NEW a \in acks, NEW count \in 0 .. Len(unacked), AcceptAck(a, count)
  PROVE  /\ WindowRuns' /\ last_sent_sequence' = Larger(last_sent_sequence, a) /\ a \in Nat /\ Known(a)
<1> DEFINE k == Len(unacked)
           L == last_sent_sequence
<1>1. /\ k \in Nat /\ L \in Nat /\ a \in Nat /\ count \in Nat /\ count <= k
      /\ unacked \in Seq([seq : Nat, bytes : Nat])
  <2>1. /\ unacked \in Seq([seq : Nat, bytes : Nat]) /\ acks \subseteq Nat /\ last_sent_sequence \in Nat
    BY DEF FInv, Inv, TypeOK
  <2>2. Len(unacked) \in Nat
    BY <2>1, LenProperties
  <2>3. count \in Nat /\ count <= Len(unacked)
    BY <2>2
  <2> QED BY <2>1, <2>2, <2>3
<1>2. /\ k <= L /\ Known(L - k)
      /\ \A i \in DOMAIN unacked : unacked[i].seq = L - k + i
  BY DEF RoomInv, Licences, WindowRuns
<1>3. /\ unacked' = SubSeq(unacked, count + 1, k) /\ last_sent_sequence' = Larger(L, a)
      /\ \A i \in 1 .. count : unacked[i].seq <= a
      /\ count < k => unacked[count + 1].seq > a
  BY DEF AcceptAck, RetiredBy, CursorAfter
<1>4. Known(a)
  BY DEF RoomInv, Licences
<1>5. /\ Len(unacked') = k - count /\ DOMAIN unacked' = 1 .. k - count /\ DOMAIN unacked = 1 .. k
      /\ \A i \in 1 .. k - count : unacked'[i] = unacked[count + i]
  <2>1. count + 1 \in 1 .. k + 1 /\ k \in Nat
    BY <1>1
  <2>2. DOMAIN unacked = 1 .. k
    BY <1>1, LenProperties
  <2>3. /\ Len(unacked') = k - count /\ unacked' \in Seq([seq : Nat, bytes : Nat])
        /\ \A i \in 1 .. Len(unacked') : unacked'[i] = unacked[count + i]
    BY <1>1, <1>3, RetiredWindow
  <2>4. DOMAIN unacked' = 1 .. k - count
    BY <2>3, LenProperties
  <2> QED BY <2>2, <2>3, <2>4
<1> HIDE DEF k, L
<1>6. /\ count > 0 => L - k + count <= a
      /\ count < k => L - k + count + 1 > a
      /\ \A i \in 1 .. k - count : unacked'[i].seq = L - k + count + i
  <2>1. count > 0 => count \in 1 .. k /\ count \in 1 .. count
    BY <1>1
  <2>2. count < k => count + 1 \in 1 .. k
    BY <1>1
  <2>3. \A i \in 1 .. k - count : count + i \in 1 .. k
    BY <1>1
  <2>4. count > 0 => L - k + count <= a
    BY <1>2, <1>3, <1>5, <2>1
  <2>5. count < k => L - k + (count + 1) > a
    BY <1>2, <1>3, <1>5, <2>2
  <2>6. \A i \in 1 .. k - count : unacked'[i].seq = L - k + (count + i)
    BY <1>2, <1>5, <2>3
  <2> QED BY <1>1, <2>4, <2>5, <2>6
<1>7. \E n \in Nat : /\ n = last_sent_sequence' - Len(unacked') /\ Known(n)
                     /\ Len(unacked') <= last_sent_sequence'
                     /\ \A i \in DOMAIN unacked' : unacked'[i].seq = n + i
  <2>1. CASE a >= L
    <3>1. count = k
      BY <1>1, <1>2, <1>6, <2>1
    <3>2. last_sent_sequence' = a /\ Len(unacked') = 0 /\ DOMAIN unacked' = {}
      BY <1>1, <1>3, <1>5, <2>1, <3>1 DEF Larger
    <3> QED BY <1>1, <1>4, <3>2
  <2>2. CASE a < L
    <3>1. last_sent_sequence' = L
      BY <1>1, <1>3, <2>2 DEF Larger
    <3>2. Known(L - k + count)
      <4>1. CASE count = 0
        BY <1>1, <1>2, <4>1
      <4>2. CASE count > 0
        <5>1. L - k + count <= a
          BY <1>1, <1>6, <4>2
        <5>2. count < k
          BY <1>1, <2>2, <5>1
        <5>3. L - k + count = a
          BY <1>1, <1>6, <5>1, <5>2
        <5> QED BY <1>4, <5>3
      <4> QED BY <1>1, <4>1, <4>2
    <3>3. L - k + count \in Nat /\ L - k + count = last_sent_sequence' - Len(unacked')
          /\ Len(unacked') <= last_sent_sequence'
      BY <1>1, <1>2, <1>5, <3>1
    <3> QED BY <1>5, <1>6, <3>2, <3>3
  <2> QED BY <1>1, <2>1, <2>2
<1>8. \A n : Known(n)' <=> Known(n)
  BY HostLeavesClient DEF ClientKept
<1>9. WindowRuns'
  BY <1>7, <1>8 DEF WindowRuns, Known
<1> QED BY <1>1, <1>3, <1>4, <1>9 DEF L

\* The rest of what a step of the Host keeps of its licences.
LEMMA LicencesKept ==
  ASSUME FInv, RoomInv, UNCHANGED client, RearEvents' \subseteq RearEvents,
         WindowRuns' \/ UNCHANGED window, \A acked \in acks' : Known(acked),
         \A i \in DOMAIN to_host' : \E j \in DOMAIN to_host : to_host'[i] = to_host[j]
  PROVE  Licences'
<1>1. \A n : Known(n)' <=> Known(n)
  BY HostLeavesClient DEF ClientKept
<1>2. WindowRuns'
  <2>1. CASE UNCHANGED window
    <3>1. UNCHANGED <<unacked, last_sent_sequence>>
      BY <2>1 DEF window
    <3>2. WindowRuns
      BY DEF RoomInv, Licences
    <3> QED BY <3>1, <3>2, ClientStays DEF WindowRuns, Known
  <2> QED BY <2>1
<1>3. \A seq \in RearEvents' : Licensed(seq)'
  <2> SUFFICES ASSUME NEW seq \in RearEvents' PROVE Licensed(seq)'
    OBVIOUS
  <2>1. Licensed(seq)
    BY DEF RoomInv, Licences
  <2> QED BY <1>1, <2>1 DEF Licensed
<1>4. \A acked \in acks' : Known(acked)'
  BY <1>1
<1>5. WritesKnown'
  <2>1. ASSUME NEW i \in DOMAIN to_host', to_host'[i].kind = "ack", NEW n, n = to_host'[i].seq PROVE Known(n)'
    <3>1. Known(n)
      BY <2>1 DEF RoomInv, Licences, WritesKnown
    <3> QED BY <1>1, <3>1
  <2> QED BY <2>1 DEF WritesKnown, Known
<1> QED BY <1>2, <1>3, <1>4, <1>5 DEF Licences

\* A step of the Host keeps what the feed takes in its place.
LEMMA HostRoom ==
  ASSUME FInv, FInv', PauseInv, RoomInv, Carried, HostSide
  PROVE  RoomInv'
<1>1. HostDoes /\ UNCHANGED client
  BY HostSays DEF FInv, Ordered
<1>2. CASE \E x \in Notes : SaysNote(x)
  BY <1>1, <1>2, NoteRoom
<1>3. CASE ~ \E x \in Notes : SaysNote(x)
  <2>0. to_client \in Seq(Frames)
    BY PartsHold DEF WireTyped
  <2>1. Quiet /\ UNCHANGED <<Marks(to_client), EventMarks(to_client)>>
    BY <1>1, <1>3, QuietUnlessNote, WireAfterHost DEF FInv
  <2>2. UNCHANGED <<HeldEvents, HeldMarks>>
    BY <1>1, HostLeavesClient DEF ClientKept
  <2>3. RearEvents' \subseteq RearEvents
    BY <2>1, <2>2 DEF RearEvents
  <2>4. /\ \A i \in DOMAIN to_client : to_client[i].kind = "page" => to_client[i].page.base <= seen
        /\ \A acked \in acks : Known(acked)
        /\ WritesKnown
    BY DEF RoomInv, Served, Licences
  <2>5. \A page \in pages : page.base <= seen
    BY DEF PauseInv, Asked
  <2>6. ASSUME NEW x, to_client' = Append(to_client, x) \/ to_client' = to_client
        PROVE  \A i \in DOMAIN to_client' : to_client'[i] = x \/ \E j \in DOMAIN to_client : to_client'[i] = to_client[j]
    <3>1. CASE to_client' = to_client
      BY <3>1
    <3>2. CASE to_client' = Append(to_client, x)
      <4>1. \A i \in DOMAIN Append(to_client, x) :
               Append(to_client, x)[i] = x \/ \E j \in DOMAIN to_client : Append(to_client, x)[i] = to_client[j]
        BY <2>0
      <4> QED BY <3>2, <4>1
    <3> QED BY <2>6, <3>1, <3>2
  <2>7. \E x : /\ to_client' = Append(to_client, x) \/ to_client' = to_client
               /\ x.kind # "gap" /\ (x.kind = "page" => x.page.base <= seen)
    <3>1. CASE UNCHANGED to_client
      <4>1. Settled.kind # "gap" /\ Settled.kind # "page"
        BY DEF Settled
      <4> QED BY <3>1, <4>1
    <3>2. ASSUME NEW x \in Answers, Says(x)
          PROVE  \E y : /\ to_client' = Append(to_client, y) \/ to_client' = to_client
                        /\ y.kind # "gap" /\ (y.kind = "page" => y.page.base <= seen)
      <4>1. x.kind # "gap"
        BY NoteKinds
      <4>2. x.kind = "page" => x.page.base <= seen
        <5>1. CASE x = Settled
          BY <5>1 DEF Settled
        <5>2. CASE x.page \in pages
          BY <2>5, <5>2
        <5> QED BY <3>2, <5>1, <5>2 DEF Says
      <4>3. to_client' = Append(to_client, x) \/ to_client' = to_client
        BY <3>2 DEF Says
      <4> QED BY <4>1, <4>2, <4>3
    <3>3. ASSUME Takes1 PROVE \E y : /\ to_client' = Append(to_client, y) \/ to_client' = to_client
                        /\ y.kind # "gap" /\ (y.kind = "page" => y.page.base <= seen)
      <4>1. CASE TakesAck(Head(to_host))
        BY <3>1, <4>1 DEF TakesAck
      <4>2. CASE TakesReplay(Head(to_host))
        <5>1. /\ Head(to_host) = to_host[1] /\ 1 \in DOMAIN to_host /\ Head(to_host).kind = "replay"
          BY <3>3, <4>2, RequestTaken DEF Takes1, TakesReplay
        <5>2. Head(to_host).after <= seen
          BY <5>1 DEF PauseInv, Asked
        <5>3. CASE \E code \in ReplayErrors : to_client' = Append(to_client, ReplayErrorFrame(Head(to_host).after, code))
          <6>1. \A after, code : ReplayErrorFrame(after, code).kind = "replay_error"
            BY DEF ReplayErrorFrame
          <6> QED BY <5>3, <6>1
        <5>4. ASSUME NEW page \in HostPages, page.base = Head(to_host).after,
                     to_client' = Append(to_client, [kind |-> "page", page |-> page])
              PROVE  \E y : /\ to_client' = Append(to_client, y) \/ to_client' = to_client
                            /\ y.kind # "gap" /\ (y.kind = "page" => y.page.base <= seen)
          <6>1. /\ [kind |-> "page", page |-> page].kind = "page"
                /\ [kind |-> "page", page |-> page].page = page
            OBVIOUS
          <6> QED BY <5>2, <5>4, <6>1
        <5> QED BY <3>1, <4>2, <5>3, <5>4 DEF TakesReplay
      <4> QED BY <3>3, <4>1, <4>2 DEF Takes1
    <3> QED BY <1>1, <1>3, <3>1, <3>2, <3>3 DEF HostDoes, Accepts, Rejects, ResumeFails, Waits, wires
  <2>8. /\ \A i \in DOMAIN to_client' : to_client'[i].kind = "gap" =>
              \E j \in DOMAIN to_client : to_client'[i] = to_client[j]
        /\ Served'
    <3> PICK x : /\ to_client' = Append(to_client, x) \/ to_client' = to_client
                 /\ x.kind # "gap" /\ (x.kind = "page" => x.page.base <= seen)
      BY <2>7
    <3>1. \A i \in DOMAIN to_client' : to_client'[i] = x \/ \E j \in DOMAIN to_client : to_client'[i] = to_client[j]
      BY <2>6
    <3>2. \A i \in DOMAIN to_client' : to_client'[i].kind = "page" => to_client'[i].page.base <= seen
      BY <2>4, <3>1
    <3>3. seen' = seen
      BY <1>1, ClientStays
    <3> QED BY <3>1, <3>2, <3>3 DEF Served
  <2>9. ASSUME NEW a \in acks, Accepts(a) PROVE RoomInv'
    <3> PICK count \in 0 .. Len(unacked) : AcceptAck(a, count)
      BY <2>9 DEF Accepts
    <3>1. WindowRuns' /\ last_sent_sequence' = Larger(last_sent_sequence, a) /\ a \in Nat /\ Known(a)
      BY <1>1, AcceptRuns
    <3>2. acks' \subseteq acks /\ UNCHANGED to_host
      BY <2>9 DEF Accepts, wires
    <3>3. Licences'
      BY <1>1, <2>3, <2>4, <3>1, <3>2, LicencesKept
    <3>4. last_sent_sequence \in Nat /\ paused_sequence \in Nat /\ (paused => last_sent_sequence <= paused_sequence)
          /\ ack_cursor \in Nat /\ \A s \in submissions : s.seq \in Nat
      BY RoomTyped DEF FInv, Ordered
    <3>5. CASE CoversGap(a)
      <4>1. paused /\ a >= paused_sequence
        BY <3>5 DEF CoversGap
      <4>2. ~ Unacked(paused_sequence)
        BY <3>1, <3>4, <4>1 DEF Known, Unacked
      <4>3. last_sent_sequence' = a
        BY <3>1, <3>4, <4>1 DEF Larger
      <4> QED BY <1>1, <2>1, <2>8, <3>1, <3>3, <4>2, <4>3, SilentRoom
    <3>6. CASE ~ CoversGap(a)
      <4>1. UNCHANGED pausing
        BY <3>6 DEF AcceptAck
      <4>2. UNCHANGED paused
        BY <4>1 DEF pausing
      <4>3. last_sent_sequence' = last_sent_sequence \/ last_sent_sequence' = a
        BY <3>1 DEF Larger
      <4>4. ~ paused' => (~ paused /\ last_sent_sequence' = last_sent_sequence)
                         \/ \E n \in Nat : n = last_sent_sequence' /\ Known(n)
        BY <3>1, <4>2, <4>3
      <4> QED BY <1>1, <2>1, <2>8, <3>3, <4>1, <4>4, SilentRoom
    <3> QED BY <3>5, <3>6
  <2>10. ASSUME UNCHANGED window, UNCHANGED pausing \/ (~ paused /\ paused'), \A acked \in acks' : Known(acked),
                \A i \in DOMAIN to_host' : \E j \in DOMAIN to_host : to_host'[i] = to_host[j]
         PROVE  RoomInv'
    <3>1. Licences'
      BY <1>1, <2>3, <2>10, LicencesKept
    <3>2. UNCHANGED last_sent_sequence
      BY <2>10 DEF window
    <3>3. ~ paused' => ~ paused
      BY <2>10 DEF pausing
    <3> QED BY <1>1, <2>1, <2>8, <2>10, <3>1, <3>2, <3>3, SilentRoom
  <2>11. CASE \E a \in acks : Rejects(a)
    BY <2>4, <2>10, <2>11 DEF Rejects, wires
  <2>12. CASE ResumeFails
    BY <2>4, <2>10, <2>12 DEF ResumeFails, wires, tasks
  <2>13. CASE \E x \in Answers : Says(x)
    BY <2>4, <2>10, <2>13 DEF Says
  <2>14. CASE Waits
    BY <2>4, <2>10, <2>14 DEF Waits, wires, tasks
  <2>15. CASE Takes1
    <3>1. /\ Head(to_host) = to_host[1] /\ 1 \in DOMAIN to_host
          /\ \A i \in DOMAIN to_host' : i + 1 \in DOMAIN to_host /\ to_host'[i] = to_host[i + 1]
      BY <2>15, RequestTaken DEF Takes1
    <3>2. \A acked \in acks' : Known(acked)
      BY <2>4, <2>15, <3>1 DEF Takes1, TakesAck, TakesReplay, WritesKnown
    <3> QED BY <2>10, <2>15, <3>1, <3>2 DEF Takes1
  <2> QED BY <1>1, <1>3, <2>9, <2>11, <2>12, <2>13, <2>14, <2>15 DEF HostDoes
<1> QED BY <1>2, <1>3

\* It holds at the start.
LEMMA RoomStarts == FeedInit => RoomInv
<1> SUFFICES ASSUME FeedInit PROVE RoomInv
  OBVIOUS
<1>1. /\ unacked = <<>> /\ last_sent_sequence = 0 /\ acks = {} /\ paused = FALSE
      /\ to_client = <<>> /\ to_host = <<>> /\ last_sequence = 0 /\ live = {} /\ ranges = {}
      /\ held = <<>> /\ queue = <<>> /\ retired = 0 /\ ack_cursor = 0 /\ submissions = {}
      /\ iterator = "next" /\ hand = NoFrame /\ recovery = "idle" /\ seen = 0
  BY DEF FeedInit, Init
<1>2. /\ Marks(to_client) = {} /\ EventMarks(to_client) = {} /\ GapMarks(to_client) = {}
      /\ Marks(queue) = {} /\ EventMarks(queue) = {} /\ GapMarks(queue) = {}
  BY <1>1, EmptyMarks, EmptyGaps
<1>3. HeldMarks = {} /\ HeldEvents = {} /\ HeldGaps = {}
  BY <1>1 DEF HeldMarks, HeldEvents, HeldGaps
<1>4. HandMarks = {} /\ HandEvents = {} /\ HandGaps = {}
  BY <1>1 DEF HandMarks, HandEvents, HandGaps, NoFrame
<1>5. /\ Taken = {} /\ TakenEvents = {} /\ TakenGaps = {} /\ Coming = {} /\ RearEvents = {}
      /\ ForeGaps = {} /\ RearGaps = {}
  BY <1>2, <1>3, <1>4 DEF Taken, TakenEvents, TakenGaps, Coming, RearEvents, ForeGaps, RearGaps, Fore, ForeEvents
<1>6. Licences
  <2>1. Len(unacked) = 0 /\ DOMAIN unacked = {} /\ DOMAIN to_host = {}
    BY <1>1
  <2>2. Known(0)
    BY <1>1 DEF Known
  <2> QED BY <1>1, <1>5, <2>1, <2>2 DEF Licences, WindowRuns, WritesKnown
<1>7. Noted /\ SeenKnown
  BY <1>1, <1>5 DEF Noted, SeenKnown
<1>8. Bridged /\ Served
  BY <1>1 DEF Bridged, Served
<1>9. Debts /\ Gaps
  BY <1>1, <1>5 DEF Debts, Gaps
<1>10. Adjoins
  BY <1>1, <1>5 DEF Adjoins, Adjacent
<1>11. Room /\ Waiting /\ Fencing
  BY <1>1, <1>2 DEF Room, Waiting, Fencing
<1> QED BY <1>6, <1>7, <1>8, <1>9, <1>10, <1>11 DEF RoomInv

\* Nothing moves.
LEMMA RoomStutters ==
  ASSUME FInv, FInv', RoomInv, UNCHANGED all
  PROVE  RoomInv'
<1>1. UNCHANGED <<vars, to_client, to_host, client>>
  BY DEF all, wires
<1>2. UNCHANGED <<feed, held, queue, queue_state, retired, ack_cursor, submissions, iterator, hand, recovery, ranges, live, seen>>
  BY <1>1, ClientStays DEF client
<1>3. UNCHANGED <<Fore, ForeEvents, ForeGaps, Marks(queue), EventMarks(queue), HandMarks>>
  BY <1>2 DEF Fore, ForeEvents, ForeGaps, HandMarks, HandEvents, HandGaps, Marks, EventMarks, GapMarks, Places
<1>4. Bridged'
  <2>1. UNCHANGED Coming /\ UNCHANGED last_sequence
    BY <1>1, ClientStays DEF Coming, Marks, Places, HeldMarks, Java
  <2>2. last_sequence' >= last_sequence
    BY <2>1, RoomTyped
  <2> QED BY <1>1, <1>2, <2>1, <2>2, BridgedStays DEF RoomInv
<1>5. SeenKnown' /\ seen' >= seen
  <2>1. seen' >= seen /\ ack_cursor' >= ack_cursor
    BY <1>2, RoomTyped
  <2> QED BY <1>2, <2>1, SeenKnownStays DEF RoomInv
<1> QED BY <1>1, <1>2, <1>3, <1>4, <1>5, IteratorMovesRoom

\* Every step keeps it.
LEMMA RoomStep ==
  ASSUME FInv, FInv', PauseInv, RoomInv, Carried, [FeedNext]_all
  PROVE  RoomInv'
<1>1. CASE HostSide
  BY <1>1, HostRoom
<1>2. CASE Receives
  BY <1>2, JavaReceivesRoom, ClientReceivesRoom DEF Receives
<1>3. CASE Lane
  BY <1>3, FenceRoom, PublishesRoom, PushRoom DEF Lane
<1>4. CASE Takes
  BY <1>4, TakesRoom
<1>5. CASE Iterates
  <2>1. Skip \/ ConsumeEvent \/ FaceGap \/ LeaveGap \/ OnNext => IteratorOnly
    BY DEF Skip, ConsumeEvent, FaceGap, LeaveGap, OnNext
  <2> QED BY <1>5, <2>1, IteratesRoom, IteratorAcksRoom DEF Iterates
<1>6. CASE Recovers
  BY <1>6, RecoverRoom DEF Recovers, StartRecovery
<1>7. CASE RecoveryAcks
  BY <1>7, RecoveryAcksRoom
<1>8. CASE \E task \in Tasks : Submits(task)
  BY <1>8, WriteRoom, CommitsRoom DEF Submits
<1>9. CASE UNCHANGED all
  BY <1>9, RoomStutters
<1> QED BY <1>1, <1>2, <1>3, <1>4, <1>5, <1>6, <1>7, <1>8, <1>9 DEF FeedNext

LEMMA RoomInvariance == FeedSafety /\ []Carried => [](FInv /\ RoomInv)
<1>1. FInv /\ FInv' /\ PauseInv /\ RoomInv /\ Carried /\ [FeedNext]_all => RoomInv'
  BY RoomStep
<1>2. FeedSafety => []FInv /\ []PauseInv
  BY PauseInvariance, PTL
<1> QED BY <1>1, <1>2, RoomStarts, PTL DEF FeedSafety
--------
(* A queue that holds a window never overflows. *)

\* Events of the queue that lie within a window are no more than fit.
LEMMA WindowFits ==
  ASSUME FInv, QueueSize >= MaxOutstanding, NEW a \in Nat, NEW seq \in Nat, a < seq, seq <= a + MaxOutstanding,
         \A m \in EventMarks(queue) : a < m /\ m < seq
  PROVE  HasRoom
<1> DEFINE S == {i \in DOMAIN queue : queue[i].kind = "event"}
           T == a + 1 .. seq - 1
           f == [i \in S |-> queue[i].seq]
<1>0. MaxOutstanding \in Nat /\ QueueSize \in Nat
  BY RoomTyped
<1>1. queue \in Seq(Notes) /\ DOMAIN queue = 1 .. Len(queue) /\ Len(queue) \in Nat
      /\ \A i \in DOMAIN queue : queue[i] \in Notes
  BY ElementOfSeq, LenProperties DEF FInv, Typed
<1>2. EventMarks(queue) \subseteq Nat
  BY PipelineTyped, RoomTyped DEF FInv
<1>3. \A i \in S : queue[i].seq \in EventMarks(queue)
  BY DEF EventMarks
<1>4. \A i \in S : queue[i].seq \in T
  <2> SUFFICES ASSUME NEW i \in S PROVE queue[i].seq \in T
    OBVIOUS
  <2>1. queue[i].seq \in Nat /\ a < queue[i].seq /\ queue[i].seq < seq
    BY <1>2, <1>3
  <2> QED BY <2>1
<1>5. \A i, j \in S : i < j => queue[i].seq < queue[j].seq
  <2> SUFFICES ASSUME NEW i \in S, NEW j \in S, i < j PROVE queue[i].seq < queue[j].seq
    OBVIOUS
  <2>1. /\ Notification(queue[i]) /\ Notification(queue[j])
        /\ Mark(queue[i]) = queue[i].seq /\ Mark(queue[j]) = queue[j].seq
    BY <1>1, NoteKinds
  <2>2. i \in Places(queue) /\ j \in Places(queue)
    BY <2>1 DEF Places
  <2>3. Mark(queue[i]) < Mark(queue[j])
    BY <2>2 DEF FInv, Ordered, ForeOrdered, Rising
  <2> QED BY <2>1, <2>3
<1>6. S \subseteq Int
  BY <1>1
<1> HIDE DEF S, T
<1>7. f \in Injection(S, T)
  <2>1. f \in [S -> T]
    BY <1>4
  <2>2. \A i, j \in S : f[i] = f[j] => i = j
    <3> SUFFICES ASSUME NEW i \in S, NEW j \in S, queue[i].seq = queue[j].seq PROVE i = j
      OBVIOUS
    <3>1. queue[i].seq \in Nat
      BY <1>2, <1>3
    <3>2. ~ (i < j) /\ ~ (j < i)
      BY <1>5, <3>1
    <3>3. i \in Int /\ j \in Int
      BY <1>6
    <3> QED BY <3>2, <3>3
  <2> QED BY <2>1, <2>2 DEF Injection, IsInjective
<1>8. IsFiniteSet(T) /\ Cardinality(T) = seq - 1 - a
  <2>1. a + 1 \in Int /\ seq - 1 \in Int /\ (a + 1 > seq - 1 => seq - 1 - a = 0)
        /\ (seq - 1) - (a + 1) + 1 = seq - 1 - a
    OBVIOUS
  <2>2. IsFiniteSet(a + 1 .. seq - 1)
        /\ Cardinality(a + 1 .. seq - 1) = IF a + 1 > seq - 1 THEN 0 ELSE (seq - 1) - (a + 1) + 1
    BY <2>1, FS_Interval
  <2> QED BY <2>1, <2>2 DEF T
<1>9. IsFiniteSet(S) /\ Cardinality(S) <= Cardinality(T)
  BY <1>7, <1>8, FS_Injection
<1>10. Cardinality(S) \in Nat
  BY <1>9, FS_CardinalityType
<1>11. Cardinality(S) < QueueSize
  BY <1>0, <1>8, <1>9, <1>10
<1> QED BY <1>11 DEF HasRoom, S

\* So an event that finds no room is one that a pending ACK made room for at the
\* Host, while the client still has something that this ACK retires.
LEMMA FullForAnAck ==
  ASSUME FInv, RoomInv, QueueSize >= MaxOutstanding, ~ HasRoom, NEW seq \in Nat, Below(Marks(queue), {seq}),
         NEW a \in 0 .. seq - 1, seq <= a + MaxOutstanding
  PROVE  Retires(a) /\ a > ack_cursor
<1>0. a \in Nat /\ a < seq /\ ack_cursor \in Nat /\ MaxOutstanding \in Nat
  BY RoomTyped
<1>1. EventMarks(queue) \subseteq Nat /\ EventMarks(queue) \subseteq Marks(queue)
  BY PipelineTyped, RoomTyped DEF FInv
<1>2. \A m \in EventMarks(queue) : m < seq /\ m > ack_cursor /\ m \in Nat
  BY <1>1 DEF Below, RoomInv, Room
<1>3. \E m \in EventMarks(queue) : m <= a
  <2>1. SUFFICES ASSUME \A m \in EventMarks(queue) : ~ (m <= a) PROVE FALSE
    OBVIOUS
  <2>2. \A m \in EventMarks(queue) : a < m /\ m < seq
    BY <1>0, <1>2, <2>1
  <2> QED BY <1>0, <2>2, WindowFits
<1>4. Retires(a)
  BY <1>3, RetiresMarks
<1>5. a > ack_cursor
  BY <1>0, <1>2, <1>3
<1> QED BY <1>4, <1>5

\* An event that Python's or TypeScript's queue has no room for waits for its ACK.
LEMMA FullWaits ==
  ASSUME FInv, RoomInv, ~ Java, QueueSize >= MaxOutstanding, ~ HasCapacity, queue_state = "open",
         NEW entry, entry.item.kind = "event", NEW seq \in Nat, entry.seq = seq, Below(Fore, {seq}), Licensed(seq),
         \A s \in submissions : s.seq < seq /\ seq <= s.seq + QueueSize /\ Retires(s.seq) => Named(s) \in entry.waits_for
  PROVE  MustWait(entry)
<1>1. PICK a \in 0 .. seq - 1 : Known(a) /\ seq <= a + MaxOutstanding
  BY DEF Licensed
<1>2. ~ HasRoom /\ Below(Marks(queue), {seq})
  BY DEF HasCapacity, Below, Fore
<1>3. Retires(a) /\ a > ack_cursor
  BY <1>1, <1>2, FullForAnAck
<1>4. a \in Nat /\ ack_cursor \in Nat /\ MaxOutstanding \in Nat /\ QueueSize \in Nat
  BY RoomTyped
<1>5. PICK s \in submissions : s.seq = a
  BY <1>1, <1>3, <1>4 DEF Known
<1>6. s.seq < seq /\ seq <= s.seq + QueueSize
  BY <1>1, <1>4, <1>5
<1> QED BY <1>3, <1>5, <1>6 DEF MustWait

\* What comes first and is not acknowledged is what the feed looks for.
LEMMA ComesNext ==
  ASSUME FInv, RoomInv, queue_state = "open", NEW seq \in Coming, seq > ack_cursor, \A m \in Coming : seq <= m
  PROVE  /\ last_sequence < seq
         /\ Strict => \/ seq = last_sequence + 1
                      \/ \E s \in submissions : s.observed /\ s.covered /\ s.seq + 1 = seq
<1>1. /\ seq \in Nat /\ last_sequence \in Nat /\ ack_cursor \in Nat /\ Coming \subseteq Nat
      /\ \A s \in submissions : s.seq \in Nat
  BY RoomTyped
<1>2. last_sequence < seq
  <2>1. CASE last_sequence <= ack_cursor
    BY <1>1, <2>1
  <2>2. CASE ~ (last_sequence <= ack_cursor)
    <3>1. Below({last_sequence}, Coming)
      BY <2>2 DEF FInv, Latest, Below, Coming
    <3> QED BY <3>1 DEF Below
  <2> QED BY <2>1, <2>2
<1>3. ASSUME Strict
      PROVE  seq = last_sequence + 1 \/ \E s \in submissions : s.observed /\ s.covered /\ s.seq + 1 = seq
  <2>1. Adjacent(seq - 1) /\ ack_cursor <= last_sequence
    BY <1>3 DEF RoomInv, Adjoins, Noted
  <2>2. seq - 1 \notin Coming
    BY <1>1
  <2>3. CASE seq - 1 = last_sequence \/ seq - 1 <= ack_cursor
    BY <1>1, <1>2, <2>1, <2>3
  <2>4. ASSUME NEW s \in submissions, s.seq = seq - 1
        PROVE  seq = last_sequence + 1 \/ (s.observed /\ s.covered /\ s.seq + 1 = seq)
    <3>1. s.observed /\ (s.seq <= last_sequence \/ s.covered)
      BY <1>3 DEF RoomInv, Debts
    <3> QED BY <1>1, <1>2, <2>4, <3>1
  <2> QED BY <2>1, <2>2, <2>3, <2>4 DEF Adjacent, Known
<1> QED BY <1>2, <1>3

\* The queue of a Python or TypeScript feed never overflows.
LEMMA AdmitFits ==
  ASSUME FInv, RoomInv, ~ Java, QueueSize >= MaxOutstanding,
         NEW entry, entry.item \in Notes, entry.seq = Mark(entry.item), Below(Fore, {entry.seq}),
         entry.item.kind = "event" =>
           /\ Licensed(entry.seq)
           /\ \A s \in submissions : s.seq < entry.seq /\ entry.seq <= s.seq + QueueSize /\ Retires(s.seq)
                                     => Named(s) \in entry.waits_for,
         ~ MustWait(entry), Admit(entry), queue_state # "failed"
  PROVE  queue_state' # "failed"
<1>1. entry.seq \in Nat
  BY NoteKinds, Constants
<1>2. CASE queue_state # "open" \/ entry.seq <= retired
  BY <1>2 DEF Admit
<1>3. CASE queue_state = "open" /\ entry.item.kind = "event" /\ ~ HasCapacity
  <2>1. MustWait(entry)
    BY <1>1, <1>3, FullWaits
  <2> QED BY <2>1
<1>4. CASE ~ (queue_state # "open" \/ entry.seq <= retired) /\ ~ (entry.item.kind = "event" /\ ~ HasCapacity)
  BY <1>4 DEF Admit
<1> QED BY <1>2, <1>3, <1>4

\* What is held enters without a failure.
LEMMA PushFits ==
  ASSUME FInv, RoomInv, ~ Java, QueueSize >= MaxOutstanding, Push, queue_state # "failed"
  PROVE  queue_state' # "failed"
<1> DEFINE entry == Head(held)
<1>1. held # <<>> /\ ~ MustWait(entry) /\ Admit(entry)
  BY DEF Push
<1>2. /\ entry = held[1] /\ 1 \in DOMAIN held /\ entry.item \in Notes /\ entry.seq = Mark(entry.item)
  <2>1. held \in Seq(Entries) /\ \A i \in DOMAIN held : held[i].item \in Notes /\ held[i].seq = Mark(held[i].item)
    BY HeldTyped DEF FInv
  <2>2. entry = held[1] /\ 1 \in DOMAIN held
    BY <1>1, <2>1, HeadTailProperties, EmptySeq, LenProperties
  <2> QED BY <2>1, <2>2
<1>3. entry.seq \in HeldMarks /\ (entry.item.kind = "event" => entry.seq \in HeldEvents)
  BY <1>2 DEF HeldMarks, HeldEvents
<1>4. Below(Fore, {entry.seq})
  BY <1>3 DEF FInv, Ordered, Below, Rear
<1>5. ASSUME entry.item.kind = "event"
      PROVE  /\ Licensed(entry.seq)
             /\ \A s \in submissions : s.seq < entry.seq /\ entry.seq <= s.seq + QueueSize /\ Retires(s.seq)
                                       => Named(s) \in entry.waits_for
  <2>1. Licensed(entry.seq)
    BY <1>3, <1>5 DEF RoomInv, Licences, RearEvents
  <2>2. ASSUME NEW s \in submissions, entry.seq <= s.seq + QueueSize, Retires(s.seq)
        PROVE  Named(s) \in entry.waits_for
    <3>1. s.task = "recovery"
      BY <2>2, WaitsForRecovery
    <3> QED BY <1>2, <1>5, <2>2, <3>1 DEF RoomInv, Waiting
  <2> QED BY <2>1, <2>2
<1> HIDE DEF entry
<1> QED BY <1>1, <1>2, <1>4, <1>5, AdmitFits

\* A Python or TypeScript feed refuses nothing that is not acknowledged.
LEMMA ReceiveFails ==
  ASSUME FInv, RoomInv, ~ Java, QueueSize >= MaxOutstanding, ClientReceives,
         queue_state # "failed", queue_state' = "failed"
  PROVE  /\ to_client' # to_client
         /\ \/ Head(to_client).kind = "event" /\ Head(to_client).seq <= ack_cursor
            \/ Head(to_client).kind = "gap" /\ Head(to_client).watermark <= ack_cursor
<1> DEFINE x == Head(to_client)
<1>1. /\ to_client # <<>> /\ to_client' = Tail(to_client) /\ Received /\ to_client \in Seq(Frames) /\ x \in Frames
      /\ Rising(to_client)
  BY PartsHold, TailPicks DEF ClientReceives, Received, WireTyped, FInv, Ordered, RearOrdered
<1>2. to_client' # to_client
  <2>1. Len(Tail(to_client)) = Len(to_client) - 1 /\ Len(to_client) \in Nat
    BY <1>1, HeadTailProperties, LenProperties
  <2>2. Len(Tail(to_client)) # Len(to_client)
    BY <2>1
  <2> QED BY <1>1, <2>2
<1>3. ASSUME NEW y, AcceptAnswer(y) PROVE queue_state' = queue_state
  BY <1>3 DEF AcceptAnswer, AcceptPage, AcceptReplayError, AcceptSettled, mail
<1>4. x \in Notes
  BY <1>1, <1>3, NoteKinds DEF ClientReceives, Notification
<1> DEFINE m == Mark(x)
<1>5. /\ m \in Coming /\ m \in Marks(to_client) /\ m \in Nat /\ x.kind \in {"event", "gap"}
      /\ (x.kind = "event" => m \in EventMarks(to_client) /\ x.seq = m /\ EventFrame(m) = x)
      /\ (x.kind = "gap" => x.watermark = m)
      /\ x = to_client[1] /\ 1 \in DOMAIN to_client
  BY <1>1, <1>4, HeadGoes
<1>6. /\ Coming = Marks(to_client) /\ Coming \subseteq Nat /\ ack_cursor \in Nat /\ last_sequence \in Nat
  BY RoomTyped DEF Coming
<1>7. \A n \in Coming : m <= n
  <2>1. /\ Marks(to_client) = Marks(Tail(to_client)) \union {m} /\ Below({m}, Marks(Tail(to_client)))
    BY <1>1, <1>4, TailMarks
  <2> QED BY <1>5, <1>6, <2>1 DEF Below
<1>8. x.kind = "gap" => x.from = m
  BY <1>5 DEF RoomInv, Gaps
<1>9. Below(Fore, {m}) /\ (x.kind = "event" => Licensed(m))
  BY <1>5 DEF FInv, Ordered, Below, Rear, RearEvents, RoomInv, Licences
<1>10. ~ Deliveries(x, m)
  <2> SUFFICES ASSUME Deliveries(x, m) PROVE FALSE
    OBVIOUS
  <2> DEFINE entry == [item |-> x, seq |-> m, waits_for |-> IF x.kind = "event" THEN Candidates(m) ELSE {}]
  <2>1. ~ MustWait(entry) /\ Admit(entry)
    BY DEF Deliveries
  <2>2. entry.item = x /\ entry.seq = m /\ (x.kind = "event" => entry.waits_for = Candidates(m))
    OBVIOUS
  <2> HIDE DEF entry
  <2>3. \A s \in submissions : s.observed
    BY DEF RoomInv, Debts
  <2>4. x.kind = "event" => \A s \in submissions : s.seq < m /\ m <= s.seq + QueueSize /\ Retires(s.seq)
                                                   => Named(s) \in entry.waits_for
    BY <2>2, <2>3 DEF Candidates
  <2>5. queue_state' # "failed"
    BY <1>4, <1>9, <2>1, <2>2, <2>4, AdmitFits
  <2> QED BY <2>5
<1> HIDE DEF x, m
<1>11. x.kind = "gap" => ~ TakeGap(x)
  BY <1>5, <1>10 DEF TakeGap
<1>12. queue_state = "open" \/ ~ Refuse
  BY DEF Refuse
<1>13. ~ Ignore
  BY ClientStays DEF Ignore
<1>14. CASE x.kind = "event"
  <2>1. AcceptEvent(m)
    <3>1. ClientReceives => AcceptEvent(m)
      BY <1>3, <1>5, <1>14 DEF ClientReceives, x
    <3> QED BY <3>1
  <2>2. Refuse /\ m # last_sequence /\ ~ Follows(m) /\ queue_state = "open"
    BY <1>5, <1>10, <1>12, <1>13, <1>14, <2>1 DEF AcceptEvent
  <2> SUFFICES ASSUME m > ack_cursor PROVE FALSE
    BY <1>2, <1>5, <1>6, <1>14 DEF x
  <2>3. /\ last_sequence < m
        /\ Strict => \/ m = last_sequence + 1
                     \/ \E s \in submissions : s.observed /\ s.covered /\ s.seq + 1 = m
    BY <1>5, <1>7, <2>2, ComesNext
  <2>4. CASE sdk = "typescript"
    BY <1>5, <1>6, <2>2, <2>3, <2>4 DEF Follows, Increases
  <2>5. CASE sdk # "typescript"
    <3>1. Contiguous(m)
      BY <1>5, <1>6, <2>3, <2>5 DEF Strict, Contiguous, PendingPredecessor
    <3> QED BY <2>2, <2>5, <3>1 DEF Follows
  <2> QED BY <2>4, <2>5
<1>15. CASE x.kind = "gap"
  <2>1. sdk # "typescript" /\ AcceptGap(x)
    <3>1. ClientReceives => IF sdk = "typescript" THEN TakeGap(x) ELSE AcceptGap(x)
      BY <1>3, <1>15 DEF ClientReceives, x
    <3> QED BY <1>11, <1>15, <3>1
  <2>2. Refuse /\ MalformedGap(x) /\ queue_state = "open"
    BY <1>11, <1>12, <1>13, <1>15, <2>1 DEF AcceptGap
  <2> SUFFICES ASSUME m > ack_cursor PROVE FALSE
    BY <1>2, <1>5, <1>6, <1>15 DEF x
  <2>3. /\ last_sequence < m
        /\ m = last_sequence + 1 \/ \E s \in submissions : s.observed /\ s.covered /\ s.seq + 1 = m
    BY <1>5, <1>7, <2>1, <2>2, ComesNext DEF Strict
  <2>4. Contiguous(m)
    BY <1>5, <1>6, <2>3 DEF Contiguous, PendingPredecessor
  <2> QED BY <1>5, <1>6, <1>8, <1>15, <2>2, <2>3, <2>4 DEF MalformedGap
<1> QED BY <1>5, <1>14, <1>15

\* The Java feed fails only on an event that a partial ACK has made room for.
LEMMA LeavesFails ==
  ASSUME FInv, RoomInv, Java, QueueSize >= MaxOutstanding, queue_state # "failed", queue_state' = "failed",
         NEW x \in Notes, PublishItem(x), Mark(x) \in Coming, \A n \in Coming : Mark(x) <= n,
         x.kind = "gap" => x.from = x.watermark,
         x.kind = "event" /\ ~ HasRoom /\ queue_state = "open" /\ Mark(x) > ack_cursor /\ Mark(x) > last_sequence =>
           \E a \in 0 .. Mark(x) - 1 :
              /\ Mark(x) <= a + MaxOutstanding
              /\ a <= ack_cursor \/ \E s \in submissions : s.seq = a /\ ~ (s.seq + 1 = Mark(x) /\ Retires(s.seq))
  PROVE  x.kind = "event" /\ OutrunsPartialAck(Mark(x))
<1> DEFINE m == Mark(x)
<1>1. /\ x.kind \in {"event", "gap"} /\ (x.kind = "event" => x.seq = m) /\ (x.kind = "gap" => x.watermark = m)
      /\ m \in Nat
  BY NoteKinds, Constants
<1>2. /\ Coming \subseteq Nat /\ ack_cursor \in Nat /\ last_sequence \in Nat /\ Strict
      /\ \A s \in submissions : s.seq \in Nat
  BY RoomTyped
<1>3. ASSUME queue_state = "open", m > ack_cursor PROVE last_sequence < m /\ JavaFollows(m)
  <2>1. /\ last_sequence < m
        /\ m = last_sequence + 1 \/ \E s \in submissions : s.observed /\ s.covered /\ s.seq + 1 = m
    BY <1>2, <1>3, ComesNext
  <2> QED BY <1>1, <1>2, <2>1 DEF JavaFollows, AfterPending
<1>4. CASE x.kind = "event"
  <2>1. PublishEvent(m)
    BY <1>1, <1>4 DEF PublishItem
  <2>2. ~ ClosesAfter(m)
    BY DEF ClosesAfter
  <2>3. queue_state = "open" /\ m > ack_cursor /\ ~ HasRoom
    BY <1>1, <1>2, <1>3, <2>1, <2>2 DEF PublishEvent
  <2>4. PICK a \in 0 .. m - 1 :
              /\ m <= a + MaxOutstanding
              /\ a <= ack_cursor \/ \E s \in submissions : s.seq = a /\ ~ (s.seq + 1 = m /\ Retires(s.seq))
    BY <1>3, <1>4, <2>3
  <2>5. Below(Marks(queue), {m})
    BY DEF FInv, Ordered, Below, Fore, Rear, Coming
  <2>6. Retires(a) /\ a > ack_cursor
    BY <1>1, <2>3, <2>4, <2>5, FullForAnAck
  <2>7. a \in Nat /\ a < m
    BY <1>1
  <2>8. PICK s \in submissions : s.seq = a /\ ~ (s.seq + 1 = m /\ Retires(s.seq))
    BY <1>2, <2>4, <2>6, <2>7
  <2>9. s.observed
    BY DEF RoomInv, Debts
  <2>10. s.seq + 1 < m /\ Retires(s.seq)
    BY <1>1, <2>6, <2>7, <2>8
  <2> QED BY <1>4, <2>9, <2>10 DEF OutrunsPartialAck
<1>5. CASE x.kind = "gap"
  <2>1. PublishGap(x)
    BY <1>5 DEF PublishItem
  <2>2. queue_state = "open" /\ m > ack_cursor /\ Misplaced(x)
    BY <1>1, <1>2, <1>5, <2>1 DEF PublishGap
  <2>3. last_sequence < m /\ JavaFollows(m)
    BY <1>3, <2>2
  <2> QED BY <1>1, <1>2, <1>5, <2>2, <2>3 DEF Misplaced
<1> QED BY <1>1, <1>4, <1>5

\* What leaves the Java lane, from the wire or after it was held.
LEMMA LaneFails ==
  ASSUME FInv, RoomInv, Java, QueueSize >= MaxOutstanding, Publishes, queue_state # "failed", queue_state' = "failed"
  PROVE  /\ to_client' # to_client \/ held' # held
         /\ Refused.kind = "event" /\ OutrunsPartialAck(Refused.seq)
<1>0. /\ Coming = Marks(to_client) \union HeldMarks /\ Coming \subseteq Nat
      /\ ack_cursor \in Nat /\ MaxOutstanding \in Nat /\ \A s \in submissions : s.seq \in Nat
  BY RoomTyped DEF Coming
<1>1. CASE AtHead
  <2> DEFINE x == Head(to_client)
  <2>1. held = <<>> /\ Fences(x) = {} /\ PublishItem(x) /\ to_client # <<>> /\ to_client' = Tail(to_client) /\ Notification(x)
    BY <1>1 DEF Publishes, AtHead, Received
  <2>2. to_client \in Seq(Frames) /\ Rising(to_client) /\ x \in Frames /\ x \in Notes
    <3>1. to_client \in Seq(Frames) /\ Rising(to_client)
      BY PartsHold DEF WireTyped, FInv, Ordered, RearOrdered
    <3>2. x \in Frames
      BY <2>1, <3>1, TailPicks
    <3> QED BY <2>1, <3>1, <3>2, NoteKinds
  <2>3. to_client' # to_client
    <3>1. Len(Tail(to_client)) = Len(to_client) - 1 /\ Len(to_client) \in Nat
      BY <2>1, <2>2, HeadTailProperties, LenProperties
    <3>2. Len(Tail(to_client)) # Len(to_client)
      BY <3>1
    <3> QED BY <2>1, <3>2
  <2> DEFINE m == Mark(x)
  <2>4. /\ m \in Coming /\ m \in Marks(to_client) /\ m \in Nat
        /\ (x.kind = "event" => m \in EventMarks(to_client) /\ x.seq = m)
        /\ (x.kind = "gap" => x.watermark = m)
        /\ x = to_client[1] /\ 1 \in DOMAIN to_client
    BY <2>1, <2>2, HeadGoes
  <2>5. HeldMarks = {}
    BY <2>1 DEF HeldMarks
  <2>6. \A n \in Coming : m <= n
    <3>1. /\ Marks(to_client) = Marks(Tail(to_client)) \union {m} /\ Below({m}, Marks(Tail(to_client)))
      BY <2>1, <2>2, TailMarks
    <3> QED BY <1>0, <2>4, <2>5, <3>1 DEF Below
  <2>7. x.kind = "gap" => x.from = x.watermark
    BY <2>4 DEF RoomInv, Gaps
  <2> HIDE DEF x, m
  <2>8. ASSUME x.kind = "event", ~ HasRoom, queue_state = "open", m > ack_cursor, m > last_sequence
        PROVE  \E a \in 0 .. m - 1 :
                 /\ m <= a + MaxOutstanding
                 /\ a <= ack_cursor \/ \E s \in submissions : s.seq = a /\ ~ (s.seq + 1 = m /\ Retires(s.seq))
    <3>1. Licensed(m)
      BY <2>4, <2>8 DEF RoomInv, Licences, RearEvents
    <3>2. PICK a \in 0 .. m - 1 : Known(a) /\ m <= a + MaxOutstanding
      BY <3>1 DEF Licensed
    <3>3. \A s \in submissions : ~ (s.seq + 1 = m /\ Retires(s.seq))
      <4>1. Predecessors(m) = {}
        BY <2>1, <2>4, <2>8 DEF Fences
      <4>2. \A s \in submissions : s.observed
        BY DEF RoomInv, Debts
      <4> QED BY <4>1, <4>2 DEF Predecessors
    <3> QED BY <3>2, <3>3 DEF Known
  <2>9. x.kind = "event" /\ OutrunsPartialAck(m)
    BY <2>1, <2>2, <2>4, <2>6, <2>7, <2>8, LeavesFails DEF m
  <2>10. Refused = x
    BY <2>1 DEF Refused, x
  <2> QED BY <2>3, <2>4, <2>9, <2>10
<1>2. CASE ~ AtHead
  <2> DEFINE x == Head(held).item
             m == Mark(x)
  <2>1. held # <<>> /\ ~ Fenced(Head(held)) /\ PublishItem(x) /\ held' = <<>>
    BY <1>2 DEF Publishes
  <2>2. /\ Head(held) = held[1] /\ 1 \in DOMAIN held /\ x \in Notes /\ held[1].seq = m /\ Len(held) = 1 /\ DOMAIN held = {1}
    <3>1. held \in Seq(Entries) /\ \A i \in DOMAIN held : held[i].item \in Notes /\ held[i].seq = Mark(held[i].item)
      BY HeldTyped DEF FInv
    <3>2. Head(held) = held[1] /\ 1 \in DOMAIN held
      BY <2>1, <3>1, HeadTailProperties, EmptySeq, LenProperties
    <3>3. Len(held) = 1
      <4>1. Len(held) <= 1
        BY DEF FInv, Phases
      <4>2. Len(held) \in Nat /\ DOMAIN held = 1 .. Len(held)
        BY <3>1, LenProperties
      <4> QED BY <3>2, <4>1, <4>2
    <3>4. DOMAIN held = {1}
      BY <3>1, <3>3, LenProperties
    <3> QED BY <3>1, <3>2, <3>3, <3>4
  <2>3. HeldMarks = {m} /\ m \in Coming /\ m \in Nat /\ x.kind = "event" /\ x.seq = m
    <3>1. HeldMarks = {m}
      BY <2>2 DEF HeldMarks
    <3>2. m \in Nat /\ (x.kind = "event" => x.seq = m)
      BY <2>2, NoteKinds, Constants
    <3>3. x.kind = "event"
      BY <2>1, <2>2 DEF RoomInv, Fencing
    <3> QED BY <1>0, <3>1, <3>2, <3>3
  <2>4. \A n \in Coming : m <= n
    <3>1. Below(HeldMarks, Marks(to_client))
      BY DEF FInv, Ordered, RearOrdered
    <3> QED BY <1>0, <2>3, <3>1 DEF Below
  <2>5. ASSUME ~ HasRoom, queue_state = "open" PROVE \E a \in 0 .. m - 1 :
                 /\ m <= a + MaxOutstanding
                 /\ a <= ack_cursor \/ \E s \in submissions : s.seq = a /\ ~ (s.seq + 1 = m /\ Retires(s.seq))
    <3>1. PICK a \in 0 .. m - 1 : m <= a + MaxOutstanding /\ FencedBy(held[1], a)
      BY <2>1, <2>2 DEF RoomInv, Fencing
    <3>2. \A s \in submissions : Named(s) \notin held[1].waits_for
      BY <2>1, <2>2, <2>5 DEF Fenced
    <3>3. a <= ack_cursor \/ \E s \in submissions : s.seq = a /\ ~ (s.seq + 1 = m /\ Retires(s.seq))
      BY <2>2, <3>1, <3>2 DEF FencedBy
    <3> QED BY <3>1, <3>3
  <2> HIDE DEF x, m
  <2>6. x.kind = "event" /\ OutrunsPartialAck(m)
    BY <2>1, <2>2, <2>3, <2>4, <2>5, LeavesFails DEF m
  <2>7. Refused = x
    BY <2>1 DEF Refused, x
  <2> QED BY <2>1, <2>3, <2>6, <2>7
<1> QED BY <1>1, <1>2

\* No other step fails the feed.
LEMMA OnlyLaneFails ==
  ASSUME FInv, RoomInv, QueueSize >= MaxOutstanding, [FeedNext]_all,
         queue_state # "failed", queue_state' = "failed"
  PROVE  (~ Java /\ ClientReceives) \/ (Java /\ Publishes)
<1>1. ~ HostSide
  BY HostSays, ClientStays DEF FInv, Ordered
<1>2. ASSUME NEW y, AcceptAnswer(y) PROVE FALSE
  BY <1>2 DEF AcceptAnswer, AcceptPage, AcceptReplayError, AcceptSettled, mail
<1>3. ~ JavaReceives
  BY <1>2 DEF JavaReceives
<1>4. ~ Fence
  BY DEF Fence
<1>5. ~ (~ Java /\ Push)
  BY PushFits
<1>6. ~ Takes
  BY DEF Takes, Drain, Get
<1>7. ~ Iterates
  BY DEF Iterates, OnNext, LeaveGap, AcknowledgeEvent, Skip, ConsumeEvent, FaceGap, IteratorAcks, IteratorOnly, mail
<1>8. ~ Recovers /\ ~ RecoveryAcks
  BY DEF Recovers, StartRecovery, Recover, RecoveryAcks, mail
<1>9. ~ \E task \in Tasks : Submits(task)
  <2> SUFFICES ASSUME NEW sent \in submissions, Write(sent) \/ Commits(sent) \/ CommitAck(sent) PROVE FALSE
    BY DEF Submits
  <2>1. ~ Write(sent)
    BY DEF Write, mail
  <2>2. ~ Commits(sent)
    BY DEF Commits
  <2>3. ~ CommitAck(sent)
    BY DEF CommitAck
  <2> QED BY <2>1, <2>2, <2>3
<1>10. ~ UNCHANGED all
  BY ClientStays DEF all
<1> QED BY <1>1, <1>3, <1>4, <1>5, <1>6, <1>7, <1>8, <1>9, <1>10 DEF FeedNext, Receives, Lane

\* No false failure: while the wire contract refuses no event, and with a queue that
\* holds a window of the Host, a feed is found broken by an event or a gap only when
\* the application itself has acknowledged it, and not at all by an overflow, but for
\* the Java feed, which overflows on an event that the pending ACK of something
\* before its predecessor has made room for.  The second part of the property
\* FeedIsSound, for every window, every number of events, any recoveries and reading
\* faults, and every order of ACKs, pages and gaps.  An event that the contract does
\* refuse leaves a true hole, which Python and Java take for a broken feed: what they
\* refuse then (AfterTrueHole) is model-checked.
THEOREM NoFalseFailure ==
  ASSUME QueueSize >= MaxOutstanding
  PROVE  FeedSafety /\ []Carried => FailsOnlyBelowFloor
<1> DEFINE Reasons ==
      /\ to_client' # to_client \/ (Java /\ held' # held)
      /\ \/ Refused.kind = "event" /\ AfterTrueHole(Refused.seq)
         \/ Refused.kind = "gap" /\ AfterTrueHole(Refused.from)
         \/ Java /\ Refused.kind = "event" /\ OutrunsPartialAck(Refused.seq)
         \/ ~ Java /\ Refused.kind = "event" /\ Refused.seq <= ack_cursor
         \/ ~ Java /\ Refused.kind = "gap" /\ Refused.watermark <= ack_cursor
<1>1. ASSUME FInv, RoomInv, [FeedNext]_all, queue_state # "failed", queue_state' = "failed" PROVE Reasons
  <2>1. CASE Java
    <3>1. Publishes
      BY <1>1, <2>1, OnlyLaneFails
    <3> QED BY <1>1, <2>1, <3>1, LaneFails
  <2>2. CASE ~ Java
    <3>1. ClientReceives
      BY <1>1, <2>2, OnlyLaneFails
    <3>2. Refused = Head(to_client)
      BY <2>2 DEF Refused
    <3> QED BY <1>1, <2>2, <3>1, <3>2, ReceiveFails
  <2> QED BY <2>1, <2>2
<1>2. FInv /\ RoomInv /\ [FeedNext]_all =>
        [queue_state # "failed" /\ queue_state' = "failed" => Reasons]_all
  BY <1>1
<1> QED BY <1>2, RoomInvariance, PTL DEF FeedSafety, FailsOnlyBelowFloor

\* What a consumer may rely on, the property FeedIsSound as a whole: no hole, no
\* false failure, and, while no read of a resume has failed, a pause that it can end
\* itself.  As a whole it asks for a queue that holds a window and for events that
\* can all be put on the wire; the reads of resumes may fail.
THEOREM FeedSound ==
  ASSUME QueueSize >= MaxOutstanding
  PROVE  FeedSafety /\ []Carried => FeedIsSound
BY NoFalseFailure, PausesAreOwed, NothingIsSkipped DEF FeedIsSound
=============================================================================
