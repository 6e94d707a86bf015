---------------------------- MODULE ClosingProofs ----------------------------
(***************************************************************************)
(* The proofs about the two parts of the system that close one another:    *)
(* the Host, and the remote agent with its streaming callback.             *)
(*                                                                         *)
(* The Host.  A close decides what there is to close when it looks at      *)
(* pollStarted, and drops the retained handle only after the actor's       *)
(* result.  HostInv says why what it saw is still true then: a connection  *)
(* is bound at most once, by an actor that has not ended, and only while   *)
(* the handle is kept.                                                     *)
(*                                                                         *)
(* The agent.  ChildInv joins Family, who there is and which of them holds *)
(* what is needed to close the child, to Streaming, what the mailbox of    *)
(* its stream still holds and what the peer has proved; every step of the  *)
(* bridge then is one that CallbackContract allows.                        *)
(***************************************************************************)
EXTENDS HostClose, FactoryChild, FiniteSetTheorems, TLAPS

-----------------------------------------------------------------------------
(* Closing the Host, for any callers, failing closes and dropped futures.  *)

USE FourRoles, UnsetIsNoOutcome, Bounds

Waiting == {"arm", "look", "down", "park"}

HostTyped ==
  /\ place \in [Procs -> Places] /\ topic \in [Procs -> Topics]
  /\ outcome \in [ClosingTasks -> {Unset, "ok", "err", "dropped"}]
  /\ framework \in {"unbound", "open", "closed"}
  /\ actorResult \in {Unset, "ok", "err"}

\* The holder of close_gate is a close, and waits for what a close waits for.
GateKept ==
  gate # Unset =>
    /\ gate \in ClosingTasks
    /\ place[gate] \in Waiting \cup {"framework", "settled", "ringing"}
    /\ place[gate] \in Waiting => topic[gate] \in {"activation", "result"}

\* No connection exists, nor will one.
NothingRuns == place[actor] \in {"idle", "ended"} /\ place[run] # "spawning"

\* The life of the actor, and what it has published at each of its stages.
ActorLife ==
  /\ place[run] \in {"idle", "retaining", "spawning"} => place[actor] = "idle"
  /\ place[run] = "spawning" \/ place[actor] # "idle" => attached
  /\ place[actor] \in {"idle", "spawned"} => framework = "unbound"
  /\ place[actor] \in {"polling", "ringing"} \cup Waiting => pollStarted
  /\ pollStarted <=> framework # "unbound"
  /\ actorEnd # Unset <=> place[actor] = "ended"
  /\ actorResult # Unset => actorEnd # Unset
  /\ collector \in {"publishing", "waking", "done"} => actorEnd # Unset
  /\ activated => pollStarted \/ actorEnd # Unset
  /\ actorStop => framework = "closed"

\* The framework has nothing to close and will not get anything.
Cleared == framework = "closed" \/ (framework = "unbound" /\ place[actor] = "ended")

\* What each close has made sure of before it goes on.
CloseLife ==
  \A c \in ClosingTasks :
    /\ place[c] \in {"settled", "ringing"} => framework = "closed"
    /\ place[c] \in Waiting /\ topic[c] = "result" => Cleared
    /\ outcome[c] = "ok" => attached /\ NothingRuns /\ framework # "open"

\* The handle is kept for as long as there is a connection.
HandleKept == ~handle => NothingRuns /\ framework # "open"

HostInv == HostTyped /\ GateKept /\ ActorLife /\ CloseLife /\ HandleKept /\ FrameworkIsServed

LEMMA InitSound == HostInit => HostInv
BY DEF HostInit, HostInv, HostTyped, GateKept, ActorLife, CloseLife, HandleKept, FrameworkIsServed, NothingRuns,
       Cleared, Waiting, Places, Topics, Procs, ClosingTasks

LEMMA AwaitSound ==
  ASSUME HostInv, NEW p \in Procs, Awaits(p)
  PROVE  HostInv'
<1> USE DEF HostInv, HostTyped, GateKept, ActorLife, CloseLife, HandleKept, FrameworkIsServed, NothingRuns,
            Cleared, Waiting, Places, Topics, Moves, Waits, Returns, flags, Procs, ClosingTasks
<1>1. CASE Arm(p)
  BY <1>1 DEF Arm
<1>2. CASE Peek(p)
  BY <1>2 DEF Peek
<1>3. CASE Park(p)
  BY <1>3 DEF Park
<1>4. CASE Wake(p)
  BY <1>4 DEF Wake
<1> QED
  BY <1>1, <1>2, <1>3, <1>4 DEF Awaits

LEMMA RunSound ==
  ASSUME HostInv, RunStep
  PROVE  HostInv'
<1> USE DEF HostInv, HostTyped, GateKept, ActorLife, CloseLife, HandleKept, FrameworkIsServed, NothingRuns,
            Cleared, Waiting, Places, Topics, Moves, Waits, Returns, flags, Procs, ClosingTasks
<1>1. CASE RunStarts
  BY <1>1 DEF RunStarts
<1>2. CASE RetainHandle
  BY <1>2 DEF RetainHandle, Fenced
<1>3. CASE Spawn
  BY <1>3 DEF Spawn
<1>4. CASE RunCloses
  BY <1>4 DEF RunCloses, Saw, Flag
<1> QED
  BY <1>1, <1>2, <1>3, <1>4 DEF RunStep

LEMMA CloseSound ==
  ASSUME HostInv, NEW c \in ClosingTasks, Call(c) \/ Enter(c) \/ CloseStep(c) \/ Drop(c)
  PROVE  HostInv'
<1> USE DEF HostInv, HostTyped, GateKept, ActorLife, CloseLife, HandleKept, FrameworkIsServed, NothingRuns,
            Cleared, Waiting, Places, Topics, Moves, Waits, Returns, flags, Procs, ClosingTasks
<1> c \in Procs /\ c # actor
  OBVIOUS
<1>1. CASE Call(c)
  BY <1>1 DEF Call, MayCall
<1>2. CASE Enter(c)
  BY <1>2 DEF Enter, AfterOk
<1>3. CASE SeesActivation(c)
  BY <1>3 DEF SeesActivation, Saw, Flag, Bound
<1>4. CASE FrameworkSettles(c)
  BY <1>4 DEF FrameworkSettles
<1>5. CASE FrameworkFails(c)
  BY <1>5 DEF FrameworkFails, KeptAfterFailure
<1>6. CASE StopActor(c)
  BY <1>6 DEF StopActor, FrameworkIsClosed
<1>7. CASE RingStop(c)
  BY <1>7 DEF RingStop
<1>8. CASE SeesResult(c)
  BY <1>8 DEF SeesResult, Saw, Flag
<1>9. CASE Drop(c)
  BY <1>9 DEF Drop, GateWithout
<1> QED
  BY <1>1, <1>2, <1>3, <1>4, <1>5, <1>6, <1>7, <1>8, <1>9 DEF CloseStep

LEMMA ActorSound ==
  ASSUME HostInv, ActorStep \/ ConnectionEnds
  PROVE  HostInv'
<1> USE DEF HostInv, HostTyped, GateKept, ActorLife, CloseLife, HandleKept, FrameworkIsServed, NothingRuns,
            Cleared, Waiting, Places, Topics, Moves, Waits, Returns, flags, Procs, ClosingTasks
<1>1. CASE ActorPolls
  BY <1>1 DEF ActorPolls
<1>2. CASE ActorActivates
  BY <1>2 DEF ActorActivates
<1>3. CASE ActorRings
  BY <1>3 DEF ActorRings
<1>4. CASE ActorStops
  BY <1>4 DEF ActorStops, Saw, Flag, Ends
<1>5. CASE ConnectionEnds
  BY <1>5 DEF ConnectionEnds, Ends
<1> QED
  BY <1>1, <1>2, <1>3, <1>4, <1>5 DEF ActorStep

LEMMA CollectorSound ==
  ASSUME HostInv, CollectorStep
  PROVE  HostInv'
<1> USE DEF HostInv, HostTyped, GateKept, ActorLife, CloseLife, HandleKept, FrameworkIsServed, NothingRuns,
            Cleared, Waiting, Places, Topics, Moves, Waits, Returns, flags, Procs, ClosingTasks
<1>1. CASE CollectorJoins
  BY <1>1 DEF CollectorJoins
<1>2. CASE CollectorActivates
  BY <1>2 DEF CollectorActivates, ResultIsPublished
<1>3. CASE CollectorWakes
  BY <1>3 DEF CollectorWakes
<1> QED
  BY <1>1, <1>2, <1>3 DEF CollectorStep

LEMMA StepSound == HostInv /\ [HostNext]_<<hostVars, automatic>> => HostInv'
<1> SUFFICES ASSUME HostInv, [HostNext]_<<hostVars, automatic>>
             PROVE  HostInv'
  OBVIOUS
<1>1. CASE HostNext
  BY <1>1, AwaitSound, RunSound, CloseSound, ActorSound, CollectorSound DEF HostNext
<1>2. CASE UNCHANGED <<hostVars, automatic>>
  BY <1>2 DEF hostVars, flags, HostInv, HostTyped, GateKept, ActorLife, CloseLife, HandleKept, FrameworkIsServed,
              NothingRuns, Cleared
<1> QED
  BY <1>1, <1>2

\* A connection is bound once, by an actor whose close handle is kept.
THEOREM HostInductive == HostSpec => []HostInv
BY InitSound, StepSound, PTL DEF HostSpec

\* What the invariant leaves open of the types.
Flags ==
  /\ handle \in BOOLEAN /\ attached \in BOOLEAN /\ stopping \in BOOLEAN
  /\ activated \in BOOLEAN /\ pollStarted \in BOOLEAN /\ actorStop \in BOOLEAN
  /\ automatic \in BOOLEAN

Counts ==
  /\ armed \subseteq Procs
  /\ actorEnd \in {Unset, "stopped", "finished", "failed"}
  /\ collector \in {"off", "joining", "publishing", "waking", "done"}
  /\ failures \in 0..MaxFailures /\ drops \in 0..MaxDrops

LEMMA FlagsSound == Flags /\ [HostNext]_<<hostVars, automatic>> => Flags'
<1> SUFFICES ASSUME Flags, [HostNext]_<<hostVars, automatic>>
             PROVE  Flags'
  OBVIOUS
<1> USE DEF Flags, flags
<1>1. ASSUME NEW p \in Procs, Awaits(p), automatic' = automatic
      PROVE  Flags'
  BY <1>1 DEF Awaits, Arm, Peek, Park, Wake
<1>2. ASSUME RunStep, automatic' = automatic
      PROVE  Flags'
  BY <1>2 DEF RunStep, RunStarts, RetainHandle, Spawn, RunCloses, Saw
<1>3. ASSUME NEW c \in ClosingTasks, Call(c) \/ Enter(c) \/ Drop(c), automatic' = automatic
      PROVE  Flags'
  BY <1>3 DEF Call, Enter, Drop
<1>4. ASSUME NEW c \in ClosingTasks, CloseStep(c), automatic' = automatic
      PROVE  Flags'
  BY <1>4 DEF CloseStep, SeesActivation, FrameworkSettles, FrameworkFails, KeptAfterFailure,
              StopActor, RingStop, SeesResult, Saw
<1>5. ASSUME ActorStep \/ ConnectionEnds, automatic' = automatic
      PROVE  Flags'
  BY <1>5 DEF ActorStep, ActorPolls, ActorActivates, ActorRings, ActorStops, ConnectionEnds,
              Ends, Saw
<1>6. ASSUME CollectorStep, automatic' = automatic
      PROVE  Flags'
  BY <1>6 DEF CollectorStep, CollectorJoins, CollectorActivates, CollectorWakes
<1>7. CASE UNCHANGED <<hostVars, automatic>>
  BY <1>7 DEF hostVars
<1> QED
  BY <1>1, <1>2, <1>3, <1>4, <1>5, <1>6, <1>7 DEF HostNext

LEMMA CountsSound == Counts /\ [HostNext]_<<hostVars, automatic>> => Counts'
<1> SUFFICES ASSUME Counts, [HostNext]_<<hostVars, automatic>>
             PROVE  Counts'
  OBVIOUS
<1> USE DEF Counts, flags
<1>1. ASSUME NEW p \in Procs, Awaits(p), automatic' = automatic
      PROVE  Counts'
  BY <1>1 DEF Awaits, Arm, Peek, Park, Wake
<1>2. ASSUME RunStep, automatic' = automatic
      PROVE  Counts'
  BY <1>2 DEF RunStep, RunStarts, RetainHandle, Spawn, RunCloses, Saw
<1>3. ASSUME NEW c \in ClosingTasks, Call(c) \/ Enter(c) \/ Drop(c), automatic' = automatic
      PROVE  Counts'
  BY <1>3 DEF Call, Enter, Drop
<1>4. ASSUME NEW c \in ClosingTasks, CloseStep(c), automatic' = automatic
      PROVE  Counts'
  BY <1>4 DEF CloseStep, SeesActivation, FrameworkSettles, FrameworkFails, KeptAfterFailure,
              StopActor, RingStop, SeesResult, Saw
<1>5. ASSUME ActorStep \/ ConnectionEnds, automatic' = automatic
      PROVE  Counts'
  BY <1>5 DEF ActorStep, ActorPolls, ActorActivates, ActorRings, ActorStops, ConnectionEnds,
              Ends, Saw
<1>6. ASSUME CollectorStep, automatic' = automatic
      PROVE  Counts'
  BY <1>6 DEF CollectorStep, CollectorJoins, CollectorActivates, CollectorWakes
<1>7. CASE UNCHANGED <<hostVars, automatic>>
  BY <1>7 DEF hostVars
<1> QED
  BY <1>1, <1>2, <1>3, <1>4, <1>5, <1>6, <1>7 DEF HostNext

\* Types; close_gate is held only where a close may be with it.
THEOREM HostTypeCorrect == HostSpec => []TypeOK
<1>1. HostInit => Flags
  BY DEF HostInit, Flags
<1>2. HostInit => Counts
  BY DEF HostInit, Counts
<1>3. HostInv /\ Flags /\ Counts => TypeOK
  BY DEF HostInv, HostTyped, GateKept, Flags, Counts, TypeOK, Waiting
<1> QED
  BY <1>1, <1>2, <1>3, FlagsSound, CountsSound, HostInductive, PTL DEF HostSpec

\* The framework keeps what its close needs until it is closed, and a close that
\* has succeeded stays true: no connection, nothing open, no run that could start.
THEOREM CloseStaysSound == HostSpec => []CloseIsSound
<1>1. HostInv => CloseIsSound
  BY DEF HostInv, HostTyped, GateKept, CloseLife, CloseIsSound, CloseIsFinal, NothingRuns
<1> QED
  BY <1>1, HostInductive, PTL

-----------------------------------------------------------------------------
(* The callback and its family: types first.                               *)

USE BridgeAssumption, FamilyAssumption DEF BridgeAssumption, FamilyAssumption

-----------------------------------------------------------------------------
(* The chunks of a mailbox.                                                *)

Items == {"chunk", "hint"} \cup Terminals

ChunkPlaces(box) == {i \in DOMAIN box : box[i] = "chunk"}

\* There are no more chunks in a mailbox than items, and none in an empty one.
LEMMA ChunksBounds ==
  /\ Chunks(<<>>) = 0
  /\ \A s \in Seq(Items) :
       /\ IsFiniteSet(ChunkPlaces(s))
       /\ Chunks(s) = Cardinality(ChunkPlaces(s))
       /\ Chunks(s) \in Nat /\ Chunks(s) <= Len(s)
<1>1. Chunks(<<>>) = 0
  <2>1. ChunkPlaces(<<>>) = {}
    BY DEF ChunkPlaces
  <2> QED
    BY <2>1, FS_EmptySet DEF Chunks, ChunkPlaces
<1>2. ASSUME NEW s \in Seq(Items)
      PROVE  IsFiniteSet(ChunkPlaces(s)) /\ Chunks(s) = Cardinality(ChunkPlaces(s))
             /\ Chunks(s) \in Nat /\ Chunks(s) <= Len(s)
  <2>1. Len(s) \in Nat /\ ChunkPlaces(s) \in SUBSET (1 .. Len(s))
    BY DEF ChunkPlaces
  <2>2. IsFiniteSet(1 .. Len(s)) /\ Cardinality(1 .. Len(s)) = Len(s)
    <3>1. \A n \in Nat : IsFiniteSet(1 .. n) /\ Cardinality(1 .. n) = IF 1 > n THEN 0 ELSE n - 1 + 1
      BY FS_Interval
    <3>2. \A n \in Nat : (IF 1 > n THEN 0 ELSE n - 1 + 1) = n
      OBVIOUS
    <3> QED
      BY <2>1, <3>1, <3>2
  <2>3. IsFiniteSet(ChunkPlaces(s)) /\ Cardinality(ChunkPlaces(s)) <= Len(s)
    BY <2>1, <2>2, FS_Subset
  <2>4. Cardinality(ChunkPlaces(s)) \in Nat
    BY <2>3, FS_CardinalityType
  <2>5. Chunks(s) = Cardinality(ChunkPlaces(s))
    BY DEF Chunks, ChunkPlaces
  <2> QED
    BY <2>1, <2>3, <2>4, <2>5
<1> QED
  BY <1>1, <1>2

\* A chunk that arrives is one more.
LEMMA ChunksAppend ==
  ASSUME NEW s \in Seq(Items), NEW x \in Items
  PROVE  Chunks(Append(s, x)) = IF x = "chunk" THEN Chunks(s) + 1 ELSE Chunks(s)
<1>1. Append(s, x) \in Seq(Items)
  OBVIOUS
<1>2. CASE x = "chunk"
  <2>1. ChunkPlaces(Append(s, x)) = ChunkPlaces(s) \cup {Len(s) + 1}
    BY <1>2 DEF ChunkPlaces
  <2>2. Len(s) + 1 \notin ChunkPlaces(s)
    BY DEF ChunkPlaces
  <2>3. IsFiniteSet(ChunkPlaces(s))
    BY ChunksBounds
  <2>4. Cardinality(ChunkPlaces(s) \cup {Len(s) + 1}) = Cardinality(ChunkPlaces(s)) + 1
    BY <2>2, <2>3, FS_AddElement
  <2> QED
    BY <1>1, <1>2, <2>1, <2>4, ChunksBounds
<1>3. CASE x # "chunk"
  <2>1. ChunkPlaces(Append(s, x)) = ChunkPlaces(s)
    BY <1>3 DEF ChunkPlaces
  <2> QED
    BY <1>1, <1>3, <2>1, ChunksBounds
<1> QED
  BY <1>2, <1>3

\* A chunk that is taken is one less.
LEMMA ChunksTail ==
  ASSUME NEW s \in Seq(Items), s # <<>>
  PROVE  Chunks(s) = IF Head(s) = "chunk" THEN Chunks(Tail(s)) + 1 ELSE Chunks(Tail(s))
<1> DEFINE later == ChunkPlaces(s) \ {1}
           up == [i \in ChunkPlaces(Tail(s)) |-> i + 1]
<1>1. /\ DOMAIN s = 1 .. Len(s) /\ Len(s) \in Nat \ {0} /\ Head(s) = s[1]
      /\ Tail(s) \in Seq(Items) /\ DOMAIN Tail(s) = 1 .. Len(s) - 1
      /\ \A i \in 1 .. Len(s) - 1 : Tail(s)[i] = s[i + 1]
  OBVIOUS
<1>2. IsFiniteSet(ChunkPlaces(s)) /\ IsFiniteSet(ChunkPlaces(Tail(s)))
  BY <1>1, ChunksBounds
<1>3. Cardinality(later) = Cardinality(ChunkPlaces(Tail(s)))
  <2>1. \A i \in ChunkPlaces(Tail(s)) : i + 1 \in later
    BY <1>1 DEF ChunkPlaces
  <2>2. \A j \in later : j - 1 \in ChunkPlaces(Tail(s)) /\ (j - 1) + 1 = j
    BY <1>1 DEF ChunkPlaces
  <2>3. \A i, j \in ChunkPlaces(Tail(s)) : i + 1 = j + 1 => i = j
    BY <1>1 DEF ChunkPlaces
  <2>4. up \in Bijection(ChunkPlaces(Tail(s)), later)
    <3> HIDE DEF later
    <3>1. up \in [ChunkPlaces(Tail(s)) -> later]
      BY <2>1
    <3>2. \A i, j \in ChunkPlaces(Tail(s)) : up[i] = up[j] => i = j
      BY <2>3
    <3>3. \A j \in later : \E i \in ChunkPlaces(Tail(s)) : up[i] = j
      BY <2>2
    <3> HIDE DEF up
    <3>4. up \in Injection(ChunkPlaces(Tail(s)), later)
      BY <3>1, <3>2 DEF Injection, IsInjective
    <3>5. up \in Surjection(ChunkPlaces(Tail(s)), later)
      BY <3>1, <3>3 DEF Surjection
    <3> QED
      BY <3>4, <3>5 DEF Bijection
  <2> HIDE DEF later, up
  <2>5. ExistsBijection(ChunkPlaces(Tail(s)), later)
    BY <2>4 DEF ExistsBijection
  <2> QED
    BY <1>2, <2>5, FS_Bijection
<1>4. Cardinality(later) = IF 1 \in ChunkPlaces(s) THEN Cardinality(ChunkPlaces(s)) - 1
                           ELSE Cardinality(ChunkPlaces(s))
  BY <1>2, FS_RemoveElement
<1>5. 1 \in ChunkPlaces(s) <=> Head(s) = "chunk"
  BY <1>1 DEF ChunkPlaces
<1>6. Chunks(s) = Cardinality(ChunkPlaces(s)) /\ Chunks(s) \in Nat
  BY <1>1, ChunksBounds
<1>7. Chunks(Tail(s)) = Cardinality(ChunkPlaces(Tail(s))) /\ Chunks(Tail(s)) \in Nat
  <2>1. Tail(s) \in Seq(Items) /\ Len(Tail(s)) \in Nat
    BY <1>1
  <2> QED
    BY <2>1, ChunksBounds
<1> HIDE DEF later
<1> QED
  BY <1>3, <1>4, <1>5, <1>6, <1>7
-----------------------------------------------------------------------------
(* Types.                                                                  *)

SinkTypeOK ==
  /\ seen \in BOOLEAN /\ kept \in Terminals \cup {None}
  /\ mailbox \in Seq(Items) /\ Len(mailbox) <= Capacity

LEMMA BoxFits ==
  /\ <<>> \in Seq(Items) /\ Len(<<>>) <= Capacity
  /\ \A s \in Seq(Items), x \in Items :
       Len(s) < Capacity => Append(s, x) \in Seq(Items) /\ Len(Append(s, x)) <= Capacity
<1>1. ASSUME NEW s \in Seq(Items), NEW x \in Items, Len(s) < Capacity
      PROVE  Append(s, x) \in Seq(Items) /\ Len(Append(s, x)) <= Capacity
  <2>1. Append(s, x) \in Seq(Items) /\ Len(Append(s, x)) = Len(s) + 1 /\ Len(s) \in Nat
    OBVIOUS
  <2> QED
    BY <1>1, <2>1
<1>2. <<>> \in Seq(Items) /\ Len(<<>>) <= Capacity
  OBVIOUS
<1> QED
  BY <1>1, <1>2

\* A stream that the Host ends has a terminal in its mailbox or beside it.
LEMMA TerminateTyped ==
  ASSUME SinkTypeOK, NEW what \in Terminals, Terminate(what)
  PROVE  SinkTypeOK'
<1>1. what \in Items
  BY DEF Items
<1>2. CASE seen = TRUE
  BY <1>2 DEF SinkTypeOK, Terminate
<1>3. CASE seen = FALSE
  <2>1. seen' = TRUE
    BY <1>3 DEF Terminate
  <2>2. CASE HasRoom /\ ~Gone
    BY <1>1, <1>3, <2>1, <2>2, BoxFits DEF SinkTypeOK, Terminate, HasRoom
  <2>3. CASE ~(HasRoom /\ ~Gone)
    BY <1>3, <2>1, <2>3 DEF SinkTypeOK, Terminate
  <2> QED
    BY <2>2, <2>3
<1> QED
  BY <1>2, <1>3 DEF SinkTypeOK

\* What an event makes of the sink.
LEMMA AcceptTyped ==
  ASSUME SinkTypeOK, listed \in BOOLEAN, NEW what \in {"chunk", "hint"}, Accept(what)
  PROVE  SinkTypeOK' /\ listed' \in BOOLEAN
<1>1. what \in Items
  BY DEF Items
<1>2. CASE seen = TRUE \/ Gone
  BY <1>2 DEF SinkTypeOK, Accept, Forget
<1>3. CASE seen = FALSE /\ ~Gone /\ HasRoom
  BY <1>1, <1>3, BoxFits DEF SinkTypeOK, Accept, HasRoom
<1>4. CASE seen = FALSE /\ ~Gone /\ ~HasRoom
  BY <1>4 DEF SinkTypeOK, Accept, Forget, Terminals
<1> QED
  BY <1>2, <1>3, <1>4 DEF SinkTypeOK

\* An observation has an identity or not.
LEMMA ObservedTyped ==
  ASSUME BridgeTypeOK, NEW c \in Calls, NEW what \in Answers
  PROVE  /\ Observed(c, what) \in {"named", "anonymous", None}
         /\ Observe(c, what) => fate' \in [Calls -> {"named", "anonymous", None}]
BY DEF BridgeTypeOK, Observed, Observe

LEMMA SinkIsTyped == BridgeTypeOK => SinkTypeOK /\ listed \in BOOLEAN
BY DEF BridgeTypeOK, SinkTypeOK, Items

\* The handler has a terminal in hand while it dispatches one.
Sending == dispatch # "free" => ended # None

\* Each step of the peer and of the connection's own tasks.
LEMMA PeerTyped ==
  ASSUME BridgeTypeOK, Sending,
         \/ PeerChunk \/ PeerBad \/ PeerHint \/ Cancel \/ PeerEnds \/ AdmitTerminal \/ SendTerminal
         \/ (\E c \in Calls : Watch(c))
  PROVE  BridgeTypeOK'
<1> USE SinkIsTyped
<1>1. CASE PeerChunk
  <2>1. SinkTypeOK' /\ listed' \in BOOLEAN
    BY <1>1, AcceptTyped DEF PeerChunk
  <2>2. sent' \in 0..MaxChunks
    BY <1>1 DEF PeerChunk, BridgeTypeOK
  <2> QED
    BY <1>1, <2>1, <2>2 DEF PeerChunk, BridgeTypeOK, calls, consumer, SinkTypeOK, Items
<1>2. CASE PeerBad
  <2>1. SinkTypeOK' /\ listed' \in BOOLEAN
    <3>1. CASE Terminate("failed") /\ Forget
      BY <3>1, TerminateTyped DEF Forget, Terminals
    <3>2. CASE UNCHANGED sink
      BY <3>2 DEF sink, SinkTypeOK
    <3> QED
      BY <1>2, <3>1, <3>2 DEF PeerBad
  <2>2. fate' \in [Calls -> {"named", "anonymous", None}] /\ broken' \in BOOLEAN
    BY <1>2, ObservedTyped DEF PeerBad, BridgeTypeOK, Answers, Calls
  <2> QED
    BY <1>2, <2>1, <2>2 DEF PeerBad, BridgeTypeOK, consumer, SinkTypeOK, Items
<1>3. CASE PeerHint
  <2>1. SinkTypeOK' /\ listed' \in BOOLEAN
    BY <1>3, AcceptTyped DEF PeerHint
  <2>2. fate' \in [Calls -> {"named", "anonymous", None}]
    BY <1>3, ObservedTyped DEF PeerHint, Answers, Calls
  <2> QED
    BY <1>3, <2>1, <2>2 DEF PeerHint, BridgeTypeOK, consumer, SinkTypeOK, Items
<1>4. CASE Cancel
  BY <1>4 DEF Cancel, BridgeTypeOK, peer, sink, consumer
<1>5. CASE PeerEnds
  <2>1. ended' \in Terminals
    BY <1>5 DEF PeerEnds, Terminals
  <2>2. phase' \in [Calls -> {"idle", "bare", "open", "returned", "committed", "closed"}]
    BY <1>5 DEF PeerEnds, BridgeTypeOK, Closing
  <2> QED
    BY <1>5, <2>1, <2>2 DEF PeerEnds, BridgeTypeOK, sink, consumer
<1>6. CASE AdmitTerminal
  <2>1. CASE seen = TRUE
    BY <1>6, <2>1 DEF AdmitTerminal, BridgeTypeOK, calls, peer, consumer
  <2>2. CASE seen = FALSE
    BY <1>6, <2>2 DEF AdmitTerminal, BridgeTypeOK, calls, peer, consumer
  <2> QED
    BY <2>1, <2>2 DEF BridgeTypeOK
<1>7. CASE SendTerminal
  <2>1. SinkTypeOK'
    <3>1. CASE Gone
      BY <1>7, <3>1 DEF SendTerminal, SinkTypeOK
    <3>2. CASE ~Gone /\ HasRoom
      <4>1. ended \in Items
        BY <1>7 DEF SendTerminal, Sending, BridgeTypeOK, Items
      <4> QED
        BY <1>7, <3>2, <4>1, BoxFits DEF SendTerminal, HasRoom, SinkTypeOK
    <3>3. CASE ~Gone /\ ~HasRoom
      BY <1>7, <3>3 DEF SendTerminal, SinkTypeOK, Terminals
    <3> QED
      BY <3>1, <3>2, <3>3
  <2> QED
    BY <1>7, <2>1 DEF SendTerminal, BridgeTypeOK, calls, peer, consumer, SinkTypeOK, Items
<1>8. ASSUME NEW c \in Calls, Watch(c)
      PROVE  BridgeTypeOK'
  <2>1. SinkTypeOK' /\ listed' \in BOOLEAN /\ pending' \in BOOLEAN
    <3>1. CASE UNCHANGED sink
      BY <1>8, <3>1 DEF sink, SinkTypeOK, Watch, BridgeTypeOK
    <3>2. CASE Terminate("failed") /\ UNCHANGED <<pending, listed>>
      BY <3>2, TerminateTyped DEF Terminals, BridgeTypeOK
    <3> QED
      BY <1>8, <3>1, <3>2 DEF Watch
  <2>2. stop' \in [Calls -> BOOLEAN] /\ cancelled' \in BOOLEAN
    BY <1>8 DEF Watch, BridgeTypeOK
  <2> QED
    BY <1>8, <2>1, <2>2 DEF Watch, BridgeTypeOK, peer, consumer, SinkTypeOK, Items
<1> QED
  BY <1>1, <1>2, <1>3, <1>4, <1>5, <1>6, <1>7, <1>8

\* Each step of a call's answer and closure, and the end of the transport.
LEMMA CallTyped ==
  ASSUME BridgeTypeOK, NEW c \in Calls, NEW a \in Answers,
         Answer(c, a) \/ Release(c) \/ Lose(c) \/ Disconnect
  PROVE  BridgeTypeOK'
<1>1. CASE Answer(c, a)
  <2>1. SinkTypeOK' /\ listed' \in BOOLEAN
    <3>1. CASE UNCHANGED sink
      BY <3>1, SinkIsTyped DEF sink, SinkTypeOK
    <3>2. CASE Terminate("failed") /\ UNCHANGED listed
      BY <3>2, SinkIsTyped, TerminateTyped DEF Terminals
    <3> QED
      BY <1>1, <3>1, <3>2 DEF Answer
  <2>2. fate' \in [Calls -> {"named", "anonymous", None}]
    BY <1>1, ObservedTyped DEF Answer, BridgeTypeOK
  <2>3. Told(c, a) \in {"ok", "setup", "error", "gone", "named", "anonymous", "lost", None}
    BY ObservedTyped DEF Told
  <2>4. AfterAnswer(c, a) \in {"open", "returned", "committed", "closed"}
    BY DEF AfterAnswer
  <2>5. /\ answer' \in [Calls -> Answers \cup {None}]
        /\ reply' \in [Calls -> {"ok", "setup", "error", "gone", "named", "anonymous", "lost", None}]
        /\ phase' \in [Calls -> {"idle", "bare", "open", "returned", "committed", "closed"}]
        /\ pending' \in BOOLEAN
    BY <1>1, <2>3, <2>4 DEF Answer, BridgeTypeOK
  <2> QED
    BY <1>1, <2>1, <2>2, <2>5 DEF Answer, BridgeTypeOK, peer, consumer, SinkTypeOK, Items
<1>2. CASE Release(c)
  BY <1>2 DEF Release, BridgeTypeOK, peer, sink, consumer
<1>3. CASE Lose(c)
  <2>1. fate' \in [Calls -> {"named", "anonymous", None}]
    BY <1>3, ObservedTyped DEF Lose, BridgeTypeOK, Answers
  <2>2. /\ reply' \in [Calls -> {"ok", "setup", "error", "gone", "named", "anonymous", "lost", None}]
        /\ phase' \in [Calls -> {"idle", "bare", "open", "returned", "committed", "closed"}]
    BY <1>3 DEF Lose, BridgeTypeOK
  <2> QED
    BY <1>3, <2>1, <2>2 DEF Lose, BridgeTypeOK, peer, sink, consumer
<1>4. CASE Disconnect
  <2>1. SinkTypeOK' /\ listed' \in BOOLEAN
    BY <1>4, SinkIsTyped DEF Disconnect, sink, SinkTypeOK
  <2>2. connected' \in BOOLEAN
    BY <1>4 DEF Disconnect
  <2>3. UNCHANGED <<plan, scoped, calls, peer, dispatch, consumer>>
    BY <1>4 DEF Disconnect
  <2> QED
    BY <2>1, <2>2, <2>3 DEF BridgeTypeOK, calls, peer, consumer, SinkTypeOK, Items
<1> QED
  BY <1>1, <1>2, <1>3, <1>4

\* Each step of the consumer of the stream.
LEMMA ConsumerTyped ==
  ASSUME BridgeTypeOK,
         \/ TakeRefusal \/ TakeEvent \/ TakeReply \/ Finish \/ YieldFinal \/ FindEmpty
         \/ TakeTerminal \/ DropStream
  PROVE  BridgeTypeOK'
<1> USE DEF Consuming, peer
<1>1. CASE TakeRefusal
  BY <1>1 DEF TakeRefusal, BridgeTypeOK
<1>2. CASE TakeEvent
  <2>1. /\ Head(mailbox) \in Items /\ Tail(mailbox) \in Seq(Items)
        /\ Len(Tail(mailbox)) <= Len(mailbox) /\ Len(mailbox) <= Capacity
        /\ Len(mailbox) \in Nat /\ Len(Tail(mailbox)) \in Nat
    BY <1>2 DEF TakeEvent, BridgeTypeOK, Items
  <2>2. SinkTypeOK'
    BY <1>2, <2>1 DEF TakeEvent, BridgeTypeOK, SinkTypeOK, Consuming
  <2>3. fate' \in [Calls -> {"named", "anonymous", None}]
    BY <1>2, ObservedTyped DEF TakeEvent, BridgeTypeOK, Calls, Answers
  <2>4. told' \in BOOLEAN /\ out' \in Nat
    <3>1. out' \in Nat
      BY <1>2 DEF TakeEvent, BridgeTypeOK
    <3>2. CASE Head(mailbox) = "hint"
      BY <1>2, <3>1, <3>2 DEF TakeEvent
    <3>3. CASE Head(mailbox) # "hint"
      BY <1>2, <3>1, <3>3 DEF TakeEvent, BridgeTypeOK
    <3> QED
      BY <3>2, <3>3
  <2>5. term' \in Terminals \cup {None}
    BY <1>2 DEF TakeEvent
  <2> QED
    BY <1>2, <2>2, <2>3, <2>4, <2>5 DEF TakeEvent, BridgeTypeOK, SinkTypeOK, Items
<1>3. CASE TakeReply
  <2>1. SinkTypeOK'
    BY <1>3, SinkIsTyped, BoxFits DEF TakeReply, Leave, SinkTypeOK
  <2>2. fate' \in [Calls -> {"named", "anonymous", None}]
    BY <1>3, ObservedTyped DEF TakeReply, BridgeTypeOK, Calls, Answers
  <2>3. /\ term' \in Terminals \cup {None} /\ told' \in BOOLEAN /\ replied' \in BOOLEAN
        /\ at' \in {"poll", "end"} /\ final' \in Terminals \cup {"error", "stop", None}
    BY <1>3 DEF TakeReply, Leave, BridgeTypeOK
  <2> QED
    BY <1>3, <2>1, <2>2, <2>3 DEF TakeReply, BridgeTypeOK, SinkTypeOK, Items
<1>4. CASE Finish
  BY <1>4 DEF Finish, BridgeTypeOK
<1>5. CASE YieldFinal
  <2>1. SinkTypeOK'
    BY <1>5, SinkIsTyped, BoxFits DEF YieldFinal, Leave, SinkTypeOK
  <2>2. /\ term' \in Terminals \cup {None} /\ told' \in BOOLEAN /\ replied' \in BOOLEAN
        /\ at' \in {"end"} /\ final' \in Terminals \cup {"stop", None}
    BY <1>5 DEF YieldFinal, Leave, BridgeTypeOK
  <2>3. UNCHANGED <<fate, out, lost>> /\ Consuming
    BY <1>5 DEF YieldFinal
  <2> QED
    BY <2>1, <2>2, <2>3 DEF BridgeTypeOK, SinkTypeOK, Items
<1>6. CASE FindEmpty
  BY <1>6 DEF FindEmpty, BridgeTypeOK
<1>7. CASE TakeTerminal
  <2>1. lost' \in 0..Capacity
    <3>1. mailbox \in Seq(Items) /\ Len(mailbox) \in Nat /\ Len(mailbox) <= Capacity
      BY DEF BridgeTypeOK, Items
    <3>2. Chunks(mailbox) \in Nat /\ Chunks(mailbox) <= Len(mailbox)
      BY <3>1, ChunksBounds
    <3> QED
      BY <1>7, <3>1, <3>2 DEF TakeTerminal
  <2> QED
    BY <1>7, <2>1 DEF TakeTerminal, BridgeTypeOK
<1>8. CASE DropStream
  <2>1. SinkTypeOK'
    BY <1>8, SinkIsTyped, BoxFits DEF DropStream, Leave, SinkTypeOK
  <2>2. /\ cancelled' \in BOOLEAN /\ at' = "dropped"
        /\ term' = None /\ replied' \in BOOLEAN /\ told' \in BOOLEAN
    BY <1>8 DEF DropStream, Leave
  <2>3. UNCHANGED <<plan, scoped, connected, phase, stop, pending, answer, reply, fate, peer,
                    dispatch, listed, out, final, lost>>
    BY <1>8 DEF DropStream
  <2> QED
    BY <2>1, <2>2, <2>3 DEF BridgeTypeOK, SinkTypeOK, Items
<1> QED
  BY <1>1, <1>2, <1>3, <1>4, <1>5, <1>6, <1>7, <1>8

\* Each step of the future of a call without an owner.
LEMMA BareTyped ==
  ASSUME BridgeTypeOK, (\E a \in Answers : BareAnswered(a)) \/ BareInterrupted \/ BareDropped
  PROVE  BridgeTypeOK'
<1> USE DEF BareRest, GivesBack, KeepsLease, peer, sink
<1>1. ASSUME NEW a \in Answers, BareAnswered(a)
      PROVE  BridgeTypeOK'
  <2>1. fate' \in [Calls -> {"named", "anonymous", None}]
    BY <1>1, ObservedTyped DEF BareAnswered, BridgeTypeOK, Calls
  <2>2. phase' \in [Calls -> {"idle", "bare", "open", "returned", "committed", "closed"}]
    BY <1>1 DEF BareAnswered, BridgeTypeOK
  <2>3. /\ at' \in {"hidden", "end"} /\ final' \in Terminals \cup {"error", "stop", None}
        /\ answer' \in [Calls -> Answers \cup {None}]
    BY <1>1 DEF BareAnswered, BridgeTypeOK, Terminals
  <2> QED
    BY <1>1, <2>1, <2>2, <2>3 DEF BareAnswered, BridgeTypeOK
<1>2. CASE BareInterrupted
  <2>1. stop' \in [Calls -> BOOLEAN]
    BY <1>2 DEF BareInterrupted, BridgeTypeOK
  <2> QED
    BY <1>2, <2>1 DEF BareInterrupted, BridgeTypeOK
<1>3. CASE BareDropped
  BY <1>3 DEF BareDropped, BridgeTypeOK
<1> QED
  BY <1>1, <1>2, <1>3

\* The streams that end with a registration, and a call that is made.
LEMMA ReleaseTyped ==
  ASSUME BridgeTypeOK, ReleaseChild
  PROVE  BridgeTypeOK' /\ child' \in {child, "gone"}
<1>1. SinkTypeOK' /\ listed' \in BOOLEAN
  <2>1. CASE UNCHANGED sink
    BY <2>1, SinkIsTyped DEF sink, SinkTypeOK
  <2>2. CASE Terminate("failed") /\ listed' = FALSE
    BY <2>2, SinkIsTyped, TerminateTyped DEF Terminals
  <2> QED
    BY <2>1, <2>2 DEF ReleaseChild
<1> QED
  BY <1>1 DEF ReleaseChild, BridgeTypeOK, calls, peer, consumer, SinkTypeOK, Items

LEMMA SubmitTyped ==
  ASSUME BridgeTypeOK, NEW c \in Calls, Submit(c)
  PROVE  /\ phase' \in [Calls -> {"idle", "bare", "open", "returned", "committed", "closed"}]
         /\ stop' \in [Calls -> BOOLEAN]
         /\ answer' \in [Calls -> Answers \cup {None}]
         /\ reply' \in [Calls -> {"ok", "setup", "error", "gone", "named", "anonymous", "lost", None}]
         /\ fate' \in [Calls -> {"named", "anonymous", None}]
BY DEF BridgeTypeOK, Submit

LEMMA CallsCloseTyped ==
  ASSUME FamilyTypeOK, NEW owned \in BOOLEAN, CallsClose(owned)
  PROVE  /\ BridgeTypeOK' /\ closes' \in 0..MaxCloses /\ source' \in BOOLEAN /\ acked' \in BOOLEAN
         /\ bound' \in [Calls -> BOOLEAN]
<1>1. BridgeTypeOK'
  BY SubmitTyped DEF FamilyTypeOK, CallsClose, CallOnly, BridgeTypeOK, Calls, peer, sink, consumer
<1>2. closes' \in 0..MaxCloses
  BY DEF CallsClose, FamilyTypeOK
<1>3. source' = owned /\ acked' = FALSE
  BY DEF CallsClose
<1>4. bound' \in [Calls -> BOOLEAN]
  BY DEF CallsClose, FamilyTypeOK
<1> QED
  BY <1>1, <1>2, <1>3, <1>4

Typed == FamilyTypeOK /\ Sending

\* Where the family is left alone, but for what its lease learns.
LEMMA RetainTyped ==
  ASSUME FamilyTypeOK, BridgeTypeOK', FamilyKept, Retain
  PROVE  FamilyTypeOK'
<1>1. unknown' \in {"named", "anonymous", None} /\ retained' \in BOOLEAN
  BY DEF Retain, FamilyTypeOK, BridgeTypeOK
<1> QED
  BY <1>1 DEF FamilyTypeOK, FamilyKept, registry, closing

LEMMA KeptTyped ==
  ASSUME FamilyTypeOK, BridgeTypeOK', UNCHANGED family
  PROVE  FamilyTypeOK'
BY DEF FamilyTypeOK, family, registry, ownership, closing

LEMMA BridgeStepsTyped ==
  ASSUME Typed,
         \/ PeerStep \/ ConsumerStep \/ BareStep \/ BareDrop \/ DisconnectStep \/ DropWorkStream
         \/ \E c \in Calls : LoseStep(c) \/ ReleaseStep(c) \/ \E a \in Answers : AnswerStep(c, a)
  PROVE  FamilyTypeOK'
<1> USE DEF Typed
<1>0. BridgeTypeOK
  BY DEF FamilyTypeOK
<1>1. CASE PeerStep
  <2>1. BridgeTypeOK'
    BY <1>0, <1>1, PeerTyped DEF PeerStep, Calls
  <2> QED
    BY <1>1, <2>1, RetainTyped DEF PeerStep
<1>2. CASE ConsumerStep
  <2>1. BridgeTypeOK'
    BY <1>0, <1>2, ConsumerTyped DEF ConsumerStep
  <2> QED
    BY <1>2, <2>1, RetainTyped DEF ConsumerStep
<1>3. CASE BareStep \/ BareDrop
  <2>1. BridgeTypeOK'
    BY <1>0, <1>3, BareTyped DEF BareStep, BareDrop
  <2> QED
    BY <1>3, <2>1, KeptTyped DEF BareStep, BareDrop
<1>4. CASE DisconnectStep
  <2>1. BridgeTypeOK'
    BY <1>0, <1>4, CallTyped DEF DisconnectStep, Calls, Answers
  <2> QED
    BY <1>4, <2>1, KeptTyped DEF DisconnectStep
<1>5. CASE DropWorkStream
  <2>1. BridgeTypeOK'
    BY <1>0, <1>5, ConsumerTyped DEF DropWorkStream
  <2>2. cl' \in [Closers -> {"idle", "look", "once", "ack", "sent", "done"}]
    BY <1>5 DEF DropWorkStream, FamilyTypeOK
  <2>3. cell' \in {cell, None} /\ wrapper' \in BOOLEAN
    BY <1>5 DEF DropWorkStream
  <2>4. UNCHANGED <<registry, creator, submitted, lease, proxy, bound, retained, unknown, source,
                    acked, cleanup, closes, torn, peerClosed>>
    BY <1>5 DEF DropWorkStream
  <2> QED
    BY <2>1, <2>2, <2>3, <2>4 DEF FamilyTypeOK, registry
<1>6. ASSUME NEW c \in Calls, LoseStep(c)
      PROVE  FamilyTypeOK'
  <2>1. BridgeTypeOK'
    BY <1>0, <1>6, CallTyped DEF LoseStep, Answers
  <2> QED
    BY <1>6, <2>1, RetainTyped DEF LoseStep
<1>7. ASSUME NEW c \in Calls, ReleaseStep(c)
      PROVE  FamilyTypeOK'
  <2>1. BridgeTypeOK'
    BY <1>0, <1>7, CallTyped DEF ReleaseStep, Answers
  <2>2. /\ unknown' \in {"named", "anonymous", None} /\ retained' \in BOOLEAN /\ acked' \in BOOLEAN
        /\ bound' \in [Calls -> BOOLEAN]
    BY <1>7 DEF ReleaseStep, FamilyTypeOK
  <2> QED
    BY <1>7, <2>1, <2>2 DEF ReleaseStep, FamilyTypeOK, registry
<1>8. ASSUME NEW c \in Calls, NEW a \in Answers, AnswerStep(c, a)
      PROVE  FamilyTypeOK'
  <2>1. BridgeTypeOK'
    BY <1>0, <1>8, CallTyped DEF AnswerStep
  <2>2. unknown' \in {"named", "anonymous", None} /\ retained' \in BOOLEAN
    BY <1>8, <2>1 DEF AnswerStep, Retain, FamilyTypeOK, BridgeTypeOK
  <2>3. peerClosed' \in BOOLEAN
    BY <1>8 DEF AnswerStep
  <2> QED
    BY <1>8, <2>1, <2>2, <2>3 DEF AnswerStep, FamilyTypeOK, registry
<1> QED
  BY <1>1, <1>2, <1>3, <1>4, <1>5, <1>6, <1>7, <1>8

LEMMA ThroughTyped ==
  ASSUME FamilyTypeOK, NEW k \in Closers, Through(k)
  PROVE  /\ cl' \in [Closers -> {"idle", "look", "once", "ack", "sent", "done"}]
         /\ creator' \in {"idle", "create", "wait", "commit", "close", "done"}
         /\ wrapper' \in BOOLEAN
BY DEF FamilyTypeOK, Through

LEMMA BridgeKeptTyped == BridgeTypeOK /\ UNCHANGED bridge => BridgeTypeOK'
BY DEF BridgeTypeOK, bridge, calls, peer, sink, consumer

LEMMA CreatorTyped ==
  ASSUME Typed, Reserve \/ Create \/ Created \/ Commit \/ DropCreator \/ Work \/ DropProxy \/ DropClose
  PROVE  FamilyTypeOK'
<1> USE DEF Typed, Creating, registry, ownership, closing
<1>0. BridgeTypeOK
  BY DEF FamilyTypeOK
<1>1. CASE Reserve
  BY <1>0, <1>1, BridgeKeptTyped DEF Reserve, FamilyTypeOK
<1>2. CASE Create
  <2>0. /\ submitted' \in BOOLEAN /\ creator' \in {"wait", "close"}
        /\ bound' \in [Calls -> BOOLEAN]
        /\ UNCHANGED <<registry, lease, proxy, wrapper, retained, unknown, closing, torn>>
    <3>1. UNCHANGED <<registry, lease, proxy, wrapper, retained, unknown, closing, torn>>
          /\ creator' \in {"wait", "close"}
      BY <1>2 DEF Create
    <3>2. submitted' \in BOOLEAN
      BY <1>2 DEF Create, FamilyTypeOK
    <3>3. bound' \in [Calls -> BOOLEAN]
      <4>1. \A b \in BOOLEAN : [bound EXCEPT !["create"] = b] \in [Calls -> BOOLEAN]
        BY DEF FamilyTypeOK
      <4>2. Registered \in BOOLEAN
        BY DEF Registered
      <4>3. bound' = bound \/ bound' = [bound EXCEPT !["create"] = Registered]
        BY <1>2 DEF Create
      <4> QED
        BY <4>1, <4>2, <4>3 DEF FamilyTypeOK
    <3> QED
      BY <3>1, <3>2, <3>3
  <2>1. CASE UNCHANGED bridge
    BY <1>0, <2>0, <2>1, BridgeKeptTyped DEF FamilyTypeOK
  <2>2. CASE Submit("create") /\ CallOnly
    <3>1. BridgeTypeOK'
      BY <1>0, <2>2, SubmitTyped DEF CallOnly, BridgeTypeOK, Calls, peer, sink, consumer
    <3> QED
      BY <2>0, <3>1 DEF FamilyTypeOK
  <2> QED
    BY <1>2, <2>1, <2>2 DEF Create
<1>3. CASE Created
  BY <1>0, <1>3, BridgeKeptTyped DEF Created, FamilyTypeOK
<1>4. CASE Commit
  BY <1>0, <1>4, BridgeKeptTyped DEF Commit, FamilyTypeOK
<1>5. CASE DropCreator
  <2>1. /\ cl' \in [Closers -> {"idle", "look", "once", "ack", "sent", "done"}]
        /\ cell' \in {cell, None}
        /\ creator' = "done"
    BY <1>5 DEF DropCreator, FamilyTypeOK
  <2>2. UNCHANGED <<bridge, registry, ownership, source, acked, cleanup, closes, torn, peerClosed>>
    BY <1>5 DEF DropCreator
  <2> QED
    BY <1>0, <2>1, <2>2, BridgeKeptTyped DEF FamilyTypeOK
<1>6. CASE Work
  <2>1. BridgeTypeOK'
    <3>1. CASE Admits("work") /\ child = "committed"
      <4>1. Submit("work") /\ at' = "poll"
        BY <1>6, <3>1 DEF Work
      <4>2. UNCHANGED <<plan, scoped, connected, cancelled, pending, peer, dispatch, sink, term,
                        replied, told, out, final, lost>>
        BY <1>6, <3>1 DEF Work
      <4> QED
        BY <1>0, <4>1, <4>2, SubmitTyped DEF BridgeTypeOK, Calls, peer, sink
    <3>2. CASE ~(Admits("work") /\ child = "committed")
      BY <1>0, <1>6, <3>2 DEF Work, BridgeTypeOK, calls, peer, sink
    <3> QED
      BY <3>1, <3>2
  <2>2. bound' \in [Calls -> BOOLEAN] /\ wrapper' \in BOOLEAN
    BY <1>6 DEF Work, FamilyTypeOK
  <2> QED
    BY <1>6, <2>1, <2>2 DEF Work, FamilyTypeOK
<1>7. CASE DropProxy
  <2>1. /\ cl' \in [Closers -> {"idle", "look", "once", "ack", "sent", "done"}]
        /\ cell' \in {cell, None}
        /\ proxy' = "dropped"
    BY <1>7 DEF DropProxy, FamilyTypeOK
  <2>2. UNCHANGED <<bridge, registry, creator, submitted, lease, wrapper, bound, retained, unknown,
                    source, acked, cleanup, closes, torn, peerClosed>>
    BY <1>7 DEF DropProxy
  <2> QED
    BY <1>0, <2>1, <2>2, BridgeKeptTyped DEF FamilyTypeOK
<1>8. CASE DropClose
  <2>1. /\ cl' \in [Closers -> {"idle", "look", "once", "ack", "sent", "done"}]
        /\ cell' \in {cell, None}
    BY <1>8 DEF DropClose, FamilyTypeOK
  <2>2. UNCHANGED <<bridge, registry, creator, ownership, source, acked, cleanup, closes, torn,
                    peerClosed>>
    BY <1>8 DEF DropClose
  <2> QED
    BY <1>0, <2>1, <2>2, BridgeKeptTyped DEF FamilyTypeOK
<1> QED
  BY <1>1, <1>2, <1>3, <1>4, <1>5, <1>6, <1>7, <1>8

LEMMA CloserTyped ==
  ASSUME Typed,
         \/ \E k \in Closers : Start(k) \/ Look(k) \/ Once(k) \/ Acknowledged(k) \/ Sent(k)
         \/ DirectClose \/ DirectClosed
  PROVE  FamilyTypeOK'
<1> USE DEF Typed, registry, ownership, closing
<1>0. BridgeTypeOK
  BY DEF FamilyTypeOK
<1>1. ASSUME NEW k \in Closers, Start(k)
      PROVE  FamilyTypeOK'
  BY <1>0, <1>1, BridgeKeptTyped DEF Start, FamilyTypeOK
<1>2. ASSUME NEW k \in Closers, Look(k)
      PROVE  FamilyTypeOK'
  <2>1. cl' \in [Closers -> {"idle", "look", "once", "ack", "sent", "done"}]
        /\ creator' \in {"idle", "create", "wait", "commit", "close", "done"} /\ wrapper' \in BOOLEAN
    BY <1>2, ThroughTyped DEF Look, FamilyTypeOK
  <2> QED
    BY <1>0, <1>2, <2>1, BridgeKeptTyped DEF Look, FamilyTypeOK
<1>3. ASSUME NEW k \in Closers, Once(k)
      PROVE  FamilyTypeOK'
  <2>1. cl' \in [Closers -> {"idle", "look", "once", "ack", "sent", "done"}]
        /\ creator' \in {"idle", "create", "wait", "commit", "close", "done"} /\ wrapper' \in BOOLEAN
    BY <1>3, ThroughTyped DEF Once, FamilyTypeOK
  <2> QED
    BY <1>0, <1>3, <2>1, BridgeKeptTyped DEF Once, FamilyTypeOK
<1>4. ASSUME NEW k \in Closers, Acknowledged(k)
      PROVE  FamilyTypeOK'
  <2>1. CASE ReleaseChild /\ Through(k) /\ cell' = "set" /\ acked' = FALSE /\ source' = FALSE
             /\ UNCHANGED <<parent, submitted, lease, proxy, bound, retained, unknown, cleanup,
                            closes, torn, peerClosed>>
    <3>1. /\ cl' \in [Closers -> {"idle", "look", "once", "ack", "sent", "done"}]
          /\ creator' \in {"idle", "create", "wait", "commit", "close", "done"}
          /\ wrapper' \in BOOLEAN
      BY <2>1, ThroughTyped
    <3>2. BridgeTypeOK' /\ child' \in {child, "gone"}
      BY <1>0, <2>1, ReleaseTyped
    <3>3. acked' \in BOOLEAN /\ source' \in BOOLEAN
      BY <2>1
    <3> QED
      BY <2>1, <3>1, <3>2, <3>3 DEF FamilyTypeOK
  <2>2. CASE /\ CallsClose(TRUE) /\ cl' = [cl EXCEPT ![k] = "sent"]
             /\ UNCHANGED <<creator, wrapper, cell, cleanup>>
    <3>1. /\ BridgeTypeOK' /\ closes' \in 0..MaxCloses /\ source' \in BOOLEAN
          /\ acked' \in BOOLEAN /\ bound' \in [Calls -> BOOLEAN]
      BY <2>2, CallsCloseTyped
    <3>2. UNCHANGED <<registry, submitted, lease, proxy, retained, unknown, torn, peerClosed>>
      BY <2>2 DEF CallsClose
    <3>3. cl' \in [Closers -> {"idle", "look", "once", "ack", "sent", "done"}]
      BY <2>2 DEF FamilyTypeOK
    <3> QED
      BY <2>2, <3>1, <3>2, <3>3 DEF FamilyTypeOK
  <2>3. CASE /\ cell' = None /\ Through(k) /\ source' = FALSE
             /\ UNCHANGED <<bridge, registry, submitted, lease, proxy, bound, retained, unknown,
                            acked, cleanup, closes, torn, peerClosed>>
    <3>1. /\ cl' \in [Closers -> {"idle", "look", "once", "ack", "sent", "done"}]
          /\ creator' \in {"idle", "create", "wait", "commit", "close", "done"}
          /\ wrapper' \in BOOLEAN
      BY <2>3, ThroughTyped
    <3>2. BridgeTypeOK'
      BY <1>0, <2>3, BridgeKeptTyped
    <3>3. source' \in BOOLEAN
      BY <2>3
    <3> QED
      BY <2>3, <3>1, <3>2, <3>3 DEF FamilyTypeOK
  <2> QED
    BY <1>4, <2>1, <2>2, <2>3 DEF Acknowledged
<1>5. ASSUME NEW k \in Closers, Sent(k)
      PROVE  FamilyTypeOK'
  <2>1. BridgeTypeOK' /\ child' \in {child, "gone"} /\ cell' \in {"set", None}
    BY <1>0, <1>5, ReleaseTyped, BridgeKeptTyped DEF Sent
  <2>2. /\ cl' \in [Closers -> {"idle", "look", "once", "ack", "sent", "done"}]
        /\ creator' \in {"idle", "create", "wait", "commit", "close", "done"}
        /\ wrapper' \in BOOLEAN
    BY <1>5, ThroughTyped DEF Sent
  <2>3. /\ acked' \in BOOLEAN /\ source' \in BOOLEAN
        /\ UNCHANGED <<parent, submitted, lease, proxy, bound, retained, unknown, cleanup, closes,
                       torn, peerClosed>>
    BY <1>5 DEF Sent
  <2> QED
    BY <2>1, <2>2, <2>3 DEF FamilyTypeOK
<1>6. CASE DirectClose
  <2>1. CASE /\ Through("proxy")
             /\ UNCHANGED <<bridge, registry, submitted, lease, proxy, bound, retained, unknown,
                            source, acked, cell, cleanup, closes, torn, peerClosed>>
    BY <1>0, <2>1, BridgeKeptTyped, ThroughTyped DEF FamilyTypeOK, Closers
  <2>2. CASE /\ CallsClose(FALSE) /\ cl' = [cl EXCEPT !["proxy"] = "sent"]
             /\ UNCHANGED <<creator, wrapper, cell, cleanup>>
    <3>1. /\ BridgeTypeOK' /\ closes' \in 0..MaxCloses /\ source' \in BOOLEAN
          /\ acked' \in BOOLEAN /\ bound' \in [Calls -> BOOLEAN]
      BY <2>2, CallsCloseTyped
    <3>2. UNCHANGED <<registry, submitted, lease, proxy, retained, unknown, torn, peerClosed>>
      BY <2>2 DEF CallsClose
    <3>3. cl' \in [Closers -> {"idle", "look", "once", "ack", "sent", "done"}]
      BY <2>2 DEF FamilyTypeOK
    <3> QED
      BY <2>2, <3>1, <3>2, <3>3 DEF FamilyTypeOK
  <2> QED
    BY <1>6, <2>1, <2>2 DEF DirectClose
<1>7. CASE DirectClosed
  <2>1. BridgeTypeOK' /\ child' \in {child, "gone"}
    BY <1>0, <1>7, ReleaseTyped, BridgeKeptTyped DEF DirectClosed
  <2> QED
    BY <1>7, <2>1, ThroughTyped DEF DirectClosed, FamilyTypeOK, Closers
<1> QED
  BY <1>1, <1>2, <1>3, <1>4, <1>5, <1>6, <1>7

LEMMA EndsTyped ==
  ASSUME Typed,
         \/ DropLease \/ CleanupTries \/ CleanupAnswered \/ CleanupRetries
         \/ UnregisterParent \/ UnregisterChild \/ TearDown
  PROVE  FamilyTypeOK'
<1> USE DEF Typed, registry, ownership, closing
<1>0. BridgeTypeOK
  BY DEF FamilyTypeOK
<1>1. CASE DropLease
  <2>1. BridgeTypeOK' /\ child' \in {child, "gone"} /\ cleanup' \in {cleanup, "done", "try"}
    BY <1>0, <1>1, ReleaseTyped, BridgeKeptTyped DEF DropLease
  <2> QED
    BY <1>1, <2>1 DEF DropLease, FamilyTypeOK
<1>2. CASE CleanupTries
  <2>0. /\ cleanup' \in {"done", "sent", "backoff"}
        /\ UNCHANGED <<registry, creator, submitted, lease, proxy, wrapper, retained, unknown, cell,
                       cl, torn, peerClosed>>
    BY <1>2 DEF CleanupTries
  <2>1. CASE UNCHANGED bridge /\ UNCHANGED <<closes, source, acked, bound>>
    <3>1. BridgeTypeOK'
      BY <1>0, <2>1, BridgeKeptTyped
    <3> QED
      BY <2>0, <2>1, <3>1 DEF FamilyTypeOK
  <2>2. CASE CallsClose(FALSE)
    <3>1. /\ BridgeTypeOK' /\ closes' \in 0..MaxCloses /\ source' \in BOOLEAN
          /\ acked' \in BOOLEAN /\ bound' \in [Calls -> BOOLEAN]
      BY <2>2, CallsCloseTyped
    <3> QED
      BY <2>0, <3>1 DEF FamilyTypeOK
  <2> QED
    BY <1>2, <2>1, <2>2 DEF CleanupTries
<1>3. CASE CleanupAnswered
  <2>1. BridgeTypeOK' /\ child' \in {child, "gone"} /\ cleanup' \in {"done", "backoff"}
    BY <1>0, <1>3, ReleaseTyped, BridgeKeptTyped DEF CleanupAnswered
  <2> QED
    BY <1>3, <2>1 DEF CleanupAnswered, FamilyTypeOK
<1>4. CASE CleanupRetries
  BY <1>0, <1>4, BridgeKeptTyped DEF CleanupRetries, FamilyTypeOK
<1>5. CASE UnregisterParent
  BY <1>0, <1>5, BridgeKeptTyped DEF UnregisterParent, FamilyTypeOK
<1>6. CASE UnregisterChild
  <2>1. BridgeTypeOK' /\ child' \in {child, "gone"} /\ retained' \in BOOLEAN
    BY <1>0, <1>6, ReleaseTyped DEF UnregisterChild
  <2>2. UNCHANGED <<parent, creator, submitted, lease, proxy, wrapper, bound, unknown, closing, torn>>
    BY <1>6 DEF UnregisterChild
  <2> QED
    BY <2>1, <2>2 DEF FamilyTypeOK
<1>7. CASE TearDown
  <2>1. SinkTypeOK'
    <3>1. CASE Terminate("failed")
      BY <1>0, <3>1, SinkIsTyped, TerminateTyped DEF Terminals
    <3>2. CASE UNCHANGED <<seen, kept, mailbox>>
      BY <1>0, <3>2, SinkIsTyped DEF SinkTypeOK
    <3> QED
      BY <1>7, <3>1, <3>2 DEF TearDown
  <2>2. BridgeTypeOK'
    <3>1. listed' \in BOOLEAN /\ UNCHANGED <<plan, scoped, connected, calls, peer, dispatch, consumer>>
      BY <1>7 DEF TearDown
    <3> QED
      BY <1>0, <2>1, <3>1 DEF BridgeTypeOK, calls, peer, consumer, SinkTypeOK, Items
  <2>3. /\ torn' \in BOOLEAN /\ parent' = "closed" /\ child' \in {child, "gone"}
        /\ cleanup' \in {"none", "done"} /\ retained' \in BOOLEAN
    BY <1>7 DEF TearDown
  <2>4. UNCHANGED <<creator, submitted, lease, proxy, wrapper, bound, unknown, source, acked, cell,
                    cl, closes, peerClosed>>
    BY <1>7 DEF TearDown
  <2> QED
    BY <2>2, <2>3, <2>4 DEF FamilyTypeOK
<1> QED
  BY <1>1, <1>2, <1>3, <1>4, <1>5, <1>6, <1>7

\* Only the peer's own terminal, and what is done with it, concern the handler.
LEMMA TerminalKept ==
  ASSUME Typed, Next
  PROVE  \/ dispatch' = dispatch /\ ended' = ended
         \/ PeerEnds /\ FamilyKept /\ Retain
         \/ (AdmitTerminal \/ SendTerminal) /\ FamilyKept /\ Retain
<1> USE DEF peer, bridge
<1>1. CASE PeerStep
  BY <1>1 DEF PeerStep, PeerChunk, PeerBad, PeerHint, Cancel, Watch
<1>2. ASSUME NEW c \in Calls, LoseStep(c) \/ ReleaseStep(c) \/ \E a \in Answers : AnswerStep(c, a)
      PROVE  dispatch' = dispatch /\ ended' = ended
  BY <1>2 DEF LoseStep, ReleaseStep, AnswerStep, Lose, Release, Answer
<1>3. CASE DisconnectStep \/ ConsumerStep \/ DropWorkStream \/ BareStep \/ BareDrop
  BY <1>3 DEF DisconnectStep, ConsumerStep, DropWorkStream, BareStep, BareDrop, Disconnect,
     TakeRefusal, TakeEvent, TakeReply, Finish, YieldFinal, FindEmpty, TakeTerminal, Consuming,
     DropStream, BareAnswered, BareInterrupted, BareDropped, BareRest
<1>4. CASE Reserve \/ Create \/ Created \/ Commit \/ DropCreator \/ Work \/ DropProxy \/ DropClose
  BY <1>4 DEF Reserve, Create, Created, Commit, DropCreator, Work, DropProxy, DropClose, CallOnly
<1>5. ASSUME NEW k \in Closers, Start(k) \/ Look(k) \/ Once(k) \/ Acknowledged(k) \/ Sent(k)
      PROVE  dispatch' = dispatch /\ ended' = ended
  BY <1>5 DEF Start, Look, Once, Acknowledged, Sent, ReleaseChild, CallsClose, CallOnly
<1>6. CASE DirectClose \/ DirectClosed \/ DropLease \/ CleanupTries \/ CleanupAnswered
           \/ CleanupRetries
  BY <1>6 DEF DirectClose, DirectClosed, DropLease, CleanupTries, CleanupAnswered, CleanupRetries,
     ReleaseChild, CallsClose, CallOnly
<1>7. CASE UnregisterParent \/ UnregisterChild \/ TearDown
  BY <1>7 DEF UnregisterParent, UnregisterChild, TearDown, ReleaseChild
<1> QED
  BY <1>1, <1>2, <1>3, <1>4, <1>5, <1>6, <1>7 DEF Next

LEMMA TypedInit == Init => Typed
<1> SUFFICES ASSUME Init
             PROVE  Typed
  OBVIOUS
<1>1. BridgeTypeOK
  <2>1. plan \in Plans /\ at \in {"none", "poll", "wait"}
    BY DEF Init
  <2>2. phase \in [Calls -> {"idle", "bare", "open", "returned", "committed", "closed"}]
    BY DEF Init
  <2>3. BridgeInit
    BY DEF Init
  <2>4. SinkTypeOK /\ listed \in BOOLEAN
    BY <2>3, BoxFits DEF BridgeInit, SinkTypeOK
  <2>5. /\ scoped \in BOOLEAN /\ connected \in BOOLEAN /\ cancelled \in BOOLEAN
        /\ pending \in BOOLEAN /\ hinted \in BOOLEAN /\ broken \in BOOLEAN
        /\ replied \in BOOLEAN /\ told \in BOOLEAN
    BY <2>3 DEF BridgeInit
  <2>6. /\ stop \in [Calls -> BOOLEAN]
        /\ answer \in [Calls -> Answers \cup {None}]
        /\ reply \in [Calls -> {"ok", "setup", "error", "gone", "named", "anonymous", "lost", None}]
        /\ fate \in [Calls -> {"named", "anonymous", None}]
    BY <2>3 DEF BridgeInit
  <2>7. sent \in 0..MaxChunks /\ out \in Nat /\ lost \in 0..Capacity
    BY <2>3 DEF BridgeInit
  <2>8. /\ ended \in Terminals \cup {None} /\ dispatch \in {"free", "admit", "send"}
        /\ term \in Terminals \cup {None} /\ final \in Terminals \cup {"error", "stop", None}
    BY <2>3 DEF BridgeInit
  <2> QED
    BY <2>1, <2>2, <2>4, <2>5, <2>6, <2>7, <2>8 DEF BridgeTypeOK, SinkTypeOK, Items
<1>2. FamilyTypeOK
  <2>1. /\ parent \in {"open", "closed"} /\ child \in {"none", "committed"}
        /\ proxy \in {"none", "held"} /\ creator = "idle" /\ lease = "none"
        /\ unknown = None /\ cell = None /\ cleanup = "none"
    BY DEF Init
  <2>2. /\ submitted \in BOOLEAN /\ wrapper \in BOOLEAN /\ retained \in BOOLEAN
        /\ source \in BOOLEAN /\ acked \in BOOLEAN /\ torn \in BOOLEAN /\ peerClosed \in BOOLEAN
    BY DEF Init
  <2>3. /\ bound \in [Calls -> BOOLEAN] /\ closes \in 0..MaxCloses
        /\ cl \in [Closers -> {"idle", "look", "once", "ack", "sent", "done"}]
    BY DEF Init
  <2> QED
    BY <1>1, <2>1, <2>2, <2>3 DEF FamilyTypeOK
<1> QED
  BY <1>2 DEF Typed, Sending, Init, BridgeInit

LEMMA TypedStep == Typed /\ [Next]_vars => Typed'
<1> SUFFICES ASSUME Typed, [Next]_vars
             PROVE  Typed'
  OBVIOUS
<1>1. CASE Next
  <2>1. FamilyTypeOK'
    BY <1>1, BridgeStepsTyped, CreatorTyped, CloserTyped, EndsTyped DEF Next
  <2>2. Sending'
    BY <1>1, TerminalKept DEF Typed, Sending, PeerEnds, AdmitTerminal, SendTerminal, peer, Terminals
  <2> QED
    BY <2>1, <2>2 DEF Typed
<1>2. CASE UNCHANGED vars
  BY <1>2, BridgeKeptTyped, KeptTyped DEF vars, Typed, Sending, FamilyTypeOK, bridge, peer
<1> QED
  BY <1>1, <1>2

\* A callback and the family around it keep their types, and a mailbox holds
\* no more than its bound.
THEOREM FamilyTypeCorrect == Spec => []FamilyTypeOK
<1>1. Typed => FamilyTypeOK
  BY DEF Typed
<1> QED
  BY <1>1, TypedInit, TypedStep, PTL DEF Spec
-----------------------------------------------------------------------------
(* The family: who there is, and who answers for the child.                *)

Active == {"look", "once", "ack", "sent"}

\* What there is of a family, by plan and by how far its creator has come.
Kinds ==
  /\ plan \notin {"direct", "factory"} => child = "none" /\ proxy = "none"
  /\ plan # "factory" => creator = "idle"
  /\ creator = "idle" <=> lease = "none"
  /\ creator \in {"idle", "create"} => phase["create"] = "idle" /\ ~submitted
  /\ plan = "factory" /\ creator = "idle" => /\ child = "none" /\ proxy = "none"
                                              /\ phase["close"] = "idle"
  /\ creator = "idle" => ~peerClosed
  /\ creator = "create" => proxy = "none"
  /\ proxy = "none" => /\ ~wrapper /\ cl["proxy"] = "idle"
                       /\ plan = "factory" => phase["work"] = "idle"
  /\ plan = "direct" => ~wrapper
  /\ phase["close"] # "idle" => plan \in {"direct", "factory"}
  /\ \A c \in {"create", "close"} : phase[c] \notin {"bare", "returned"}

\* A child that is registered has its factory, has not been closed, and keeps
\* the owner of a call whose fate is unknown.
Registration ==
  /\ plan = "factory" /\ Registered => parent = "open"
  /\ Registered /\ unknown # None => retained
  /\ cell = "set" => ~Registered
  /\ torn => ~connected /\ ~Registered

\* A lease is dropped by its last owner, and leaves a registered child to the
\* detached task.
Leases ==
  /\ lease = "none" => /\ ~retained /\ unknown = None /\ cell = None
                       /\ \A c \in Calls : ~bound[c]
  /\ lease = "dropped" => ~Owners
  /\ lease = "dropped" /\ Registered /\ connected => cleanup \in {"try", "sent", "backoff"}
  /\ cleanup # "none" => lease = "dropped"
  /\ acked => lease # "none" /\ (Registered => lease = "live")

\* A closer that is at it holds a clone of the lease.
ClosersStand ==
  /\ cl["creator"] \in Active => creator = "close"
  /\ cl["wrapper"] \in Active => wrapper
  /\ cl["proxy"] \in Active => proxy = "held"
  /\ \A k \in Closers : cl[k] \in {"once", "ack"} => lease # "none"
  /\ \A k \in Closers \ {"proxy"} : cl[k] = "sent" => lease # "none"

\* Constructor and close are told once, by an answer or an observation.
Replies ==
  \A c \in {"create", "close"} :
    /\ phase[c] = "open" => (reply[c] = None <=> fate[c] = None) /\ reply[c] \notin {"ok", "error"}
    /\ phase[c] = "idle" => reply[c] = None /\ fate[c] = None
    /\ fate[c] = None => reply[c] \in {None, "ok", "error"}

\* While the constructor is out, the child has no Agent and holds the lease.
Construction ==
  Held("create") => /\ creator \in {"wait", "done"} /\ proxy = "none"
                    /\ Registered => bound["create"]

\* What the peer has acknowledged is on its way to release the child.
PeerHasClosed ==
  /\ bound["close"] /\ phase["close"] = "open" /\ fate["close"] = None => source
  /\ peerClosed /\ Registered =>
       \/ /\ phase["close"] = "committed" /\ bound["close"] /\ source
          /\ answer["close"] = "result" /\ fate["close"] = None
       \/ acked
       \/ cleanup = "sent" /\ reply["close"] = "ok"

\* A call without an owner has a lease as long as its future waits.
OnceCalls ==
  /\ plan = "once" => /\ phase["work"] \in {"bare", "closed"}
                      /\ at \in {"wait", "hidden", "end", "dropped"}
                      /\ ended = None
                      /\ at = "wait" => answer["work"] = None
  /\ plan # "once" => phase["work"] # "bare" /\ at \notin {"wait", "hidden"}

Family ==
  Kinds /\ Registration /\ Leases /\ ClosersStand /\ Replies /\ Construction /\ PeerHasClosed

LEMMA FamilyInit == Init => Family
<1> SUFFICES ASSUME Init
             PROVE  Family
  OBVIOUS
<1> USE DEF Init, BridgeInit
<1>1. Kinds
  BY DEF Kinds, Calls, Closers
<1>2. Registration /\ Leases /\ ClosersStand
  BY DEF Registration, Leases, ClosersStand, Registered, Owners, Closers, Active
<1>3. Replies /\ Construction /\ PeerHasClosed
  BY DEF Replies, Construction, PeerHasClosed, Held, Calls
<1> QED
  BY <1>1, <1>2, <1>3 DEF Family

\* A step that leaves the family alone but for what its lease learns of a call.
WorkOnly ==
  /\ FamilyKept /\ plan' = plan /\ (connected' => connected)
  /\ Retain \/ UNCHANGED <<unknown, retained>>
  /\ \A c \in {"create", "close"} :
       /\ phase'[c] = phase[c] /\ answer'[c] = answer[c]
       /\ reply'[c] = reply[c] /\ fate'[c] = fate[c]
  /\ phase["work"] = "idle" => phase'["work"] = "idle"

\* The lease learns nothing where no call is bound to it, and a registration
\* that learns something retains the owner.
LEMMA RetainKeeps ==
  ASSUME Retain \/ UNCHANGED <<unknown, retained>>, FamilyTypeOK
  PROVE  /\ (\A c \in Calls : ~bound[c]) => unknown' = unknown /\ retained' = retained
         /\ Registered /\ (unknown # None => retained) => (unknown' # None => retained')
         /\ retained => retained'
<1>1. CASE UNCHANGED <<unknown, retained>>
  BY <1>1
<1>2. CASE Retain
  <2> DEFINE news == {c \in Calls : Reaches(c) /\ fate'[c] # fate[c]}
  <2>1. /\ unknown' = IF news = {} THEN unknown ELSE fate'[CHOOSE c \in news : TRUE]
        /\ retained' = (retained \/ (news # {} /\ Registered))
    BY <1>2 DEF Retain
  <2>2. (\A c \in Calls : ~bound[c]) => news = {}
    BY DEF Reaches
  <2>3. news = {} => unknown' = unknown /\ retained' = retained
    BY <2>1 DEF FamilyTypeOK
  <2> HIDE DEF news
  <2> QED
    BY <2>1, <2>2, <2>3
<1> QED
  BY <1>1, <1>2

LEMMA WorkKeepsFamily ==
  ASSUME Typed, Family, WorkOnly
  PROVE  Family'
<1> USE DEF Family, WorkOnly, FamilyKept, registry, closing
<1>0. FamilyTypeOK
  BY DEF Typed
<1>1. Kinds'
  BY DEF Kinds
<1>2. Registration'
  BY <1>0, RetainKeeps DEF Registration, Registered
<1>3. Leases'
  <2>1. CASE lease = "live"
    BY <2>1 DEF Leases, Registered
  <2>2. CASE lease # "live"
    <3>1. \A c \in Calls : ~bound[c]
      BY <1>0, <2>2 DEF Leases, Owners, FamilyTypeOK
    <3>2. unknown' = unknown /\ retained' = retained
      BY <1>0, <3>1, RetainKeeps
    <3> QED
      BY <3>2 DEF Leases, Owners, Registered
  <2> QED
    BY <2>1, <2>2
<1>4. ClosersStand'
  BY DEF ClosersStand
<1>5. Replies'
  BY DEF Replies
<1>6. Construction'
  BY DEF Construction, Held, Registered
<1>7. PeerHasClosed'
  BY DEF PeerHasClosed, Registered
<1> QED
  BY <1>1, <1>2, <1>3, <1>4, <1>5, <1>6, <1>7

LEMMA WorkSteps ==
  ASSUME Typed, OnceCalls,
         \/ PeerStep \/ ConsumerStep \/ BareStep \/ BareDrop \/ DisconnectStep
         \/ LoseStep("work") \/ \E a \in Answers : AnswerStep("work", a)
  PROVE  WorkOnly
<1> USE DEF WorkOnly, calls
<1>0. FamilyTypeOK /\ BridgeTypeOK
  BY DEF Typed, FamilyTypeOK
<1>1. CASE PeerStep
  <2>1. FamilyKept /\ Retain
    BY <1>1 DEF PeerStep
  <2>2. CASE PeerChunk \/ PeerBad \/ PeerHint
    BY <1>0, <2>1, <2>2 DEF PeerChunk, PeerBad, PeerHint, Observe, BridgeTypeOK, Calls
  <2>3. CASE Cancel \/ AdmitTerminal \/ SendTerminal \/ \E c \in Calls : Watch(c)
    BY <2>1, <2>3 DEF Cancel, AdmitTerminal, SendTerminal, Watch
  <2>4. CASE PeerEnds
    BY <1>0, <2>1, <2>4 DEF PeerEnds, BridgeTypeOK, Calls, Receives
  <2> QED
    BY <1>1, <2>2, <2>3, <2>4 DEF PeerStep, Calls
<1>2. CASE ConsumerStep
  <2>1. FamilyKept /\ Retain
    BY <1>2 DEF ConsumerStep
  <2>2. UNCHANGED <<plan, connected, phase, answer, reply>>
    BY <1>2 DEF ConsumerStep, TakeRefusal, TakeEvent, TakeReply, Finish, YieldFinal, FindEmpty,
       TakeTerminal, Consuming
  <2>3. \A c \in {"create", "close"} : fate'[c] = fate[c]
    BY <1>0, <1>2 DEF ConsumerStep, TakeRefusal, TakeEvent, TakeReply, Finish, YieldFinal,
       FindEmpty, TakeTerminal, Observe, BridgeTypeOK, Calls
  <2> QED
    BY <2>1, <2>2, <2>3
<1>3. CASE BareStep \/ BareDrop
  <2>1. UNCHANGED family /\ UNCHANGED <<plan, connected, reply>>
    BY <1>3 DEF BareStep, BareDrop, BareAnswered, BareInterrupted, BareDropped, BareRest
  <2>2. \A c \in {"create", "close"} :
           phase'[c] = phase[c] /\ answer'[c] = answer[c] /\ fate'[c] = fate[c]
    BY <1>0, <1>3 DEF BareStep, BareDrop, BareAnswered, BareInterrupted, BareDropped, GivesBack,
       KeepsLease, Observe, BridgeTypeOK, Calls
  <2>3. phase["work"] = "idle" => phase'["work"] = "idle"
    BY <1>0, <1>3 DEF BareStep, BareDrop, BareAnswered, BareInterrupted, BareDropped, Bare,
       OnceCalls, KeepsLease
  <2> QED
    BY <2>1, <2>2, <2>3 DEF family, FamilyKept, ownership
<1>4. CASE DisconnectStep
  BY <1>4 DEF DisconnectStep, Disconnect, family, FamilyKept, ownership
<1>5. CASE LoseStep("work")
  BY <1>0, <1>5 DEF LoseStep, Lose, Observe, BridgeTypeOK, Calls
<1>6. ASSUME NEW a \in Answers, AnswerStep("work", a)
      PROVE  WorkOnly
  BY <1>0, <1>6 DEF AnswerStep, Answer, Acknowledges, Observe, BridgeTypeOK, FamilyTypeOK, Calls,
     FamilyKept, closing
<1> QED
  BY <1>1, <1>2, <1>3, <1>4, <1>5, <1>6

\* What the lease learns disturbs neither registration nor ownership.
LEMMA LearningKeeps ==
  ASSUME Typed, Registration, Leases, Retain,
         UNCHANGED <<plan, parent, child, cell, torn, connected, lease, proxy, wrapper, bound,
                     creator, cleanup, acked>>
  PROVE  Registration' /\ Leases'
<1>0. FamilyTypeOK
  BY DEF Typed
<1>1. Registration'
  BY <1>0, RetainKeeps DEF Registration, Registered
<1>2. CASE lease = "live"
  BY <1>1, <1>2 DEF Leases, Registered
<1>3. CASE lease # "live"
  <2>1. \A c \in Calls : ~bound[c]
    BY <1>0, <1>3 DEF Leases, Owners, FamilyTypeOK
  <2>2. unknown' = unknown /\ retained' = retained
    BY <1>0, <2>1, RetainKeeps
  <2> QED
    BY <1>1, <2>2 DEF Leases, Owners, Registered
<1> QED
  BY <1>2, <1>3

LEMMA LoseKeepsFamily ==
  ASSUME Typed, Family, NEW c \in {"create", "close"}, LoseStep(c)
  PROVE  Family'
<1> USE DEF Family, LoseStep, FamilyKept, registry, closing
<1>0. FamilyTypeOK /\ BridgeTypeOK
  BY DEF Typed, FamilyTypeOK
<1>1. ~Channel
  BY DEF Kinds, Lose, Channel
<1>2. /\ phase' = phase /\ answer' = answer /\ plan' = plan /\ connected' = connected
      /\ phase[c] = "open" /\ reply[c] = None
      /\ reply' = [reply EXCEPT ![c] = "lost"]
      /\ fate' = [fate EXCEPT ![c] = "anonymous"]
  BY <1>0, <1>1 DEF Lose, Observe, Observed, BridgeTypeOK, Calls
<1>3. Kinds'
  BY <1>2 DEF Kinds
<1>4. Registration' /\ Leases'
  BY <1>2, LearningKeeps
<1>5. ClosersStand'
  BY DEF ClosersStand
<1>6. Replies'
  BY <1>0, <1>2 DEF Replies, BridgeTypeOK, Calls
<1>7. Construction'
  BY <1>2 DEF Construction, Held, Registered
<1>8. PeerHasClosed'
  BY <1>0, <1>2 DEF PeerHasClosed, Registered, Replies, BridgeTypeOK, Calls
<1> QED
  BY <1>3, <1>4, <1>5, <1>6, <1>7, <1>8

LEMMA AnswerKeepsFamily ==
  ASSUME Typed, Family, NEW c \in {"create", "close"}, NEW a \in Answers, AnswerStep(c, a)
  PROVE  Family'
<1> USE DEF Family, AnswerStep, registry
<1>0. FamilyTypeOK /\ BridgeTypeOK
  BY DEF Typed, FamilyTypeOK
<1>1. ~Channel /\ c # "work" /\ a \in {"result", "error", "named", "anonymous"}
  BY DEF Kinds, Answer, Channel, CanAnswer
<1>2. /\ plan' = plan /\ connected' = connected /\ connected
      /\ phase[c] = "open" /\ answer[c] = None /\ reply[c] = None /\ fate[c] = None
      /\ answer' = [answer EXCEPT ![c] = a]
  BY DEF Answer, Replies
<1>3. CASE a \in {"named", "anonymous"}
  <2>1. reply' = [reply EXCEPT ![c] = a] /\ fate' = [fate EXCEPT ![c] = a]
    BY <1>0, <1>1, <1>2, <1>3 DEF Answer, Told, Unknown, Observe, Observed, BridgeTypeOK
  <2>2. phase' = phase
    BY <1>0, <1>1, <1>2, <1>3 DEF Answer, AfterAnswer, ClosedBy, Definite, BridgeTypeOK, Calls
  <2>3. peerClosed' = peerClosed
    BY <1>0, <1>3 DEF Acknowledges, FamilyTypeOK
  <2>4. Kinds' /\ Construction' /\ ClosersStand'
    BY <2>2, <2>3, <1>2 DEF Kinds, Construction, ClosersStand, Held, Registered
  <2>5. Registration' /\ Leases'
    BY <1>2, LearningKeeps
  <2>6. Replies'
    BY <1>0, <1>2, <1>3, <2>1, <2>2 DEF Replies, BridgeTypeOK, Calls
  <2>7. PeerHasClosed'
    BY <1>0, <1>2, <1>3, <2>1, <2>2, <2>3 DEF PeerHasClosed, Registered, Replies, BridgeTypeOK, Calls
  <2> QED
    BY <2>4, <2>5, <2>6, <2>7
<1>4. CASE a \in {"result", "error"}
  <2>1. reply' = [reply EXCEPT ![c] = Told(c, a)] /\ Told(c, a) \in {"ok", "error"} /\ fate' = fate
    BY <1>1, <1>4 DEF Answer, Told, Unknown
  <2>2. phase' = [phase EXCEPT ![c] = "committed"]
    BY <1>0, <1>1, <1>2, <1>4 DEF Answer, AfterAnswer, ClosedBy, Definite
  <2>3. Kinds' /\ Construction' /\ ClosersStand'
    <3>1. creator = "idle" => ~peerClosed'
      BY <1>0, <1>2 DEF Kinds, Leases, Acknowledges, Calls
    <3> QED
      BY <1>0, <1>2, <2>2, <3>1 DEF Kinds, Construction, ClosersStand, Held, Registered, BridgeTypeOK, Calls
  <2>4. Registration' /\ Leases'
    BY <1>2, LearningKeeps
  <2>5. Replies'
    BY <1>0, <1>2, <2>1, <2>2 DEF Replies, BridgeTypeOK, Calls
  <2>6. PeerHasClosed'
    BY <1>0, <1>2, <2>1, <2>2 DEF PeerHasClosed, Registered, Replies, BridgeTypeOK, Calls,
       Acknowledges, Interrupted, Told, Unknown
  <2> QED
    BY <2>3, <2>4, <2>5, <2>6
<1> QED
  BY <1>1, <1>3, <1>4

LEMMA ReleaseKeepsFamily ==
  ASSUME Typed, Family, NEW c \in Calls, ReleaseStep(c)
  PROVE  Family'
<1> USE DEF Family, ReleaseStep, registry
<1>0. FamilyTypeOK /\ BridgeTypeOK
  BY DEF Typed, FamilyTypeOK
<1>1. /\ UNCHANGED <<plan, connected, answer, reply, fate>>
      /\ phase[c] = "committed" /\ phase' = [phase EXCEPT ![c] = "closed"]
  BY DEF Release
<1>2. /\ \A d \in Calls : bound'[d] => bound[d]
      /\ \A d \in Calls : d # c => bound'[d] = bound[d]
      /\ retained' => retained
  BY <1>0 DEF FamilyTypeOK
<1>3. Kinds'
  BY <1>0, <1>1 DEF Kinds, BridgeTypeOK, Calls
<1>4. Registration'
  BY <1>1 DEF Registration, Registered
<1>5. Leases'
  <2>1. bound[c] => lease = "live"
    BY <1>0 DEF Leases, Owners, FamilyTypeOK
  <2> QED
    BY <1>0, <1>1, <1>2, <2>1 DEF Leases, Owners, Registered, FamilyTypeOK
<1>6. ClosersStand'
  BY DEF ClosersStand
<1>7. Replies'
  BY <1>0, <1>1 DEF Replies, BridgeTypeOK, Calls
<1>8. Construction'
  BY <1>0, <1>1, <1>2 DEF Construction, Held, Registered, BridgeTypeOK, Calls
<1>9. PeerHasClosed'
  BY <1>0, <1>1, <1>2 DEF PeerHasClosed, Registered, BridgeTypeOK, Calls
<1> QED
  BY <1>3, <1>4, <1>5, <1>6, <1>7, <1>8, <1>9

LEMMA DropStreamKeepsFamily ==
  ASSUME Typed, Family, DropWorkStream
  PROVE  Family'
<1> USE DEF Family, DropWorkStream, registry
<1>0. FamilyTypeOK /\ BridgeTypeOK
  BY DEF Typed, FamilyTypeOK
<1>1. UNCHANGED <<plan, connected, phase, answer, reply, fate>>
  BY DEF DropStream
<1>2. /\ cl'["creator"] = cl["creator"] /\ cl'["proxy"] = cl["proxy"]
      /\ cl'["wrapper"] \in {"idle", "done"}
      /\ cell' \in {cell, None}
  BY <1>0 DEF FamilyTypeOK, Closers
<1>3. Kinds'
  BY <1>1, <1>2 DEF Kinds
<1>4. Registration'
  BY <1>1, <1>2 DEF Registration, Registered
<1>5. Leases'
  BY <1>1 DEF Leases, Owners, Registered
<1>6. ClosersStand'
  BY <1>2 DEF ClosersStand, Active, Closers
<1>7. Replies' /\ Construction' /\ PeerHasClosed'
  BY <1>1 DEF Replies, Construction, PeerHasClosed, Held, Registered
<1> QED
  BY <1>3, <1>4, <1>5, <1>6, <1>7

\* The creator and the owner.
LEMMA CreatorKeepsFamily ==
  ASSUME Typed, Family, OnceCalls,
         Reserve \/ Create \/ Created \/ Commit \/ DropCreator \/ Work \/ DropProxy \/ DropClose
  PROVE  Family'
<1> USE DEF Family, Creating, registry, ownership, closing, bridge, calls
<1>0. FamilyTypeOK /\ BridgeTypeOK
  BY DEF Typed, FamilyTypeOK
<1>1. CASE Reserve
  <2> USE <1>1 DEF Reserve
  <2>1. Kinds' /\ Registration'
    BY DEF Kinds, Registration, Registered, Leases
  <2>2. Leases' /\ ClosersStand'
    BY DEF Kinds, Leases, ClosersStand, Registered, Active
  <2>3. Replies' /\ Construction' /\ PeerHasClosed'
    BY DEF Kinds, Replies, Construction, PeerHasClosed, Held, Registered, Leases
  <2> QED
    BY <2>1, <2>2, <2>3
<1>2. CASE Create
  <2>1. CASE UNCHANGED <<bridge, submitted, bound>> /\ creator' = "close"
    <3> USE <1>2, <2>1 DEF Create
    <3>1. Kinds' /\ Registration'
      BY DEF Kinds, Registration, Registered
    <3>2. Leases' /\ ClosersStand'
      BY DEF Leases, ClosersStand, Registered, Owners, Active
    <3>3. Replies' /\ Construction' /\ PeerHasClosed'
      BY DEF Kinds, Replies, Construction, PeerHasClosed, Held, Registered
    <3> QED
      BY <3>1, <3>2, <3>3
  <2>2. CASE /\ connected /\ parent = "open" /\ Submit("create") /\ CallOnly
             /\ submitted' = TRUE /\ creator' = "wait"
             /\ bound' = [bound EXCEPT !["create"] = Registered]
    <3>1. /\ UNCHANGED <<plan, connected, parent, child, lease, proxy, wrapper, retained, unknown,
                         source, acked, cell, cl, cleanup, closes, torn, peerClosed>>
          /\ creator = "create"
          /\ phase' = [phase EXCEPT !["create"] = "open"]
          /\ answer' = [answer EXCEPT !["create"] = None]
          /\ reply' = [reply EXCEPT !["create"] = None]
          /\ fate' = [fate EXCEPT !["create"] = None]
      BY <1>2, <2>2 DEF Create, CallOnly, Submit
    <3>2. /\ \A c \in Calls \ {"create"} : bound'[c] = bound[c]
          /\ bound'["create"] <=> Registered
      BY <1>0, <2>2 DEF FamilyTypeOK, Calls
    <3>3. Kinds'
      BY <1>0, <2>2, <3>1 DEF Kinds, BridgeTypeOK, Calls
    <3>4. Registration'
      BY <3>1 DEF Registration, Registered
    <3>5. Leases'
      <4>1. lease = "live" \/ lease = "none"
        BY <1>0, <3>1 DEF Leases, Owners, FamilyTypeOK
      <4> QED
        BY <2>2, <3>1, <3>2, <4>1 DEF Kinds, Leases, Registered
    <3>6. ClosersStand'
      BY <2>2, <3>1 DEF ClosersStand, Active
    <3>7. Replies'
      BY <1>0, <3>1 DEF Replies, BridgeTypeOK, Calls
    <3>8. Construction'
      BY <1>0, <2>2, <3>1, <3>2 DEF Construction, Held, Registered, BridgeTypeOK, Calls, Kinds
    <3>9. PeerHasClosed'
      BY <1>0, <3>1, <3>2 DEF PeerHasClosed, Registered, BridgeTypeOK, Calls
    <3> QED
      BY <3>3, <3>4, <3>5, <3>6, <3>7, <3>8, <3>9
  <2> QED
    BY <1>2, <2>1, <2>2 DEF Create
<1>3. CASE Created
  <2> USE <1>3 DEF Created
  <2>1. creator' \in {"commit", "close", "done"} /\ (Held("create") => creator' = "done")
    BY <1>0 DEF Returned, HasReply, Replies, Held, Kinds, BridgeTypeOK, Calls
  <2>2. Kinds' /\ Registration'
    BY <2>1 DEF Kinds, Registration, Registered
  <2>3. Leases' /\ ClosersStand'
    BY <2>1 DEF Leases, ClosersStand, Registered, Owners, Active
  <2>4. Replies' /\ Construction' /\ PeerHasClosed'
    BY <2>1 DEF Replies, Construction, PeerHasClosed, Held, Registered
  <2> QED
    BY <2>2, <2>3, <2>4
<1>4. CASE Commit
  <2> USE <1>4 DEF Commit
  <2>1. ~Held("create") /\ lease = "live"
    BY <1>0 DEF Construction, Leases, Owners, FamilyTypeOK, Kinds
  <2>2. Kinds' /\ Registration'
    BY <2>1 DEF Kinds, Registration, Registered
  <2>3. Leases' /\ ClosersStand'
    BY <2>1 DEF Leases, ClosersStand, Registered, Active
  <2>4. Replies' /\ Construction' /\ PeerHasClosed'
    BY <2>1 DEF Replies, Construction, PeerHasClosed, Held, Registered
  <2> QED
    BY <2>2, <2>3, <2>4
<1>5. CASE DropCreator
  <2> USE <1>5 DEF DropCreator
  <2>1. lease = "live" \/ lease = "none"
    BY <1>0 DEF Leases, Owners, FamilyTypeOK
  <2>2. /\ cl'["wrapper"] = cl["wrapper"] /\ cl'["proxy"] = cl["proxy"] /\ cl'["creator"] = "done"
        /\ cell' \in {cell, None}
    BY <1>0 DEF FamilyTypeOK, Closers
  <2>3. Kinds' /\ Registration'
    BY <2>2 DEF Kinds, Registration, Registered
  <2>4. Leases' /\ ClosersStand'
    BY <2>1, <2>2 DEF Leases, ClosersStand, Registered, Closers, Active
  <2>5. Replies' /\ Construction' /\ PeerHasClosed'
    BY <2>2 DEF Replies, Construction, PeerHasClosed, Held, Registered, Kinds
  <2> QED
    BY <2>3, <2>4, <2>5
<1>6. CASE Work
  <2>1. /\ UNCHANGED <<plan, connected, parent, child, creator, submitted, lease, proxy, retained,
                       unknown, source, acked, cell, cl, cleanup, closes, torn, peerClosed>>
        /\ plan = "factory" /\ proxy = "held" /\ wrapper' = TRUE
    BY <1>6 DEF Work
  <2>2. /\ \A c \in {"create", "close"} :
              /\ phase'[c] = phase[c] /\ answer'[c] = answer[c]
              /\ reply'[c] = reply[c] /\ fate'[c] = fate[c] /\ bound'[c] = bound[c]
        /\ bound'["work"] => bound["work"] \/ lease = "live"
    BY <1>0, <1>6 DEF Work, Submit, BridgeTypeOK, FamilyTypeOK, Calls
  <2>3. lease = "live"
    BY <1>0, <2>1 DEF Leases, Owners, FamilyTypeOK, Kinds
  <2>4. Kinds' /\ Registration'
    BY <2>1, <2>2 DEF Kinds, Registration, Registered
  <2>5. Leases' /\ ClosersStand'
    BY <2>1, <2>2, <2>3 DEF Leases, ClosersStand, Registered
  <2>6. Replies' /\ Construction' /\ PeerHasClosed'
    BY <2>1, <2>2 DEF Replies, Construction, PeerHasClosed, Held, Registered
  <2> QED
    BY <2>4, <2>5, <2>6
<1>7. CASE DropProxy
  <2> USE <1>7 DEF DropProxy
  <2>1. lease = "live" \/ lease = "none"
    BY <1>0 DEF Leases, Owners, FamilyTypeOK
  <2>2. /\ cl'["wrapper"] = cl["wrapper"] /\ cl'["creator"] = cl["creator"] /\ cl'["proxy"] = "done"
        /\ cell' \in {cell, None}
    BY <1>0 DEF FamilyTypeOK, Closers
  <2>3. Kinds' /\ Registration'
    BY <2>2 DEF Kinds, Registration, Registered
  <2>4. Leases' /\ ClosersStand'
    BY <2>1, <2>2 DEF Leases, ClosersStand, Registered, Closers, Active
  <2>5. Replies' /\ Construction' /\ PeerHasClosed'
    BY <2>2 DEF Replies, Construction, PeerHasClosed, Held, Registered
  <2> QED
    BY <2>3, <2>4, <2>5
<1>8. CASE DropClose
  <2> USE <1>8 DEF DropClose
  <2>1. /\ cl'["wrapper"] = cl["wrapper"] /\ cl'["creator"] = cl["creator"] /\ cl'["proxy"] = "idle"
        /\ cell' \in {cell, None}
    BY <1>0 DEF FamilyTypeOK, Closers
  <2>2. Kinds' /\ Registration'
    BY <2>1 DEF Kinds, Registration, Registered
  <2>3. Leases' /\ ClosersStand'
    BY <2>1 DEF Leases, ClosersStand, Registered, Owners, Closers, Active
  <2>4. Replies' /\ Construction' /\ PeerHasClosed'
    BY <2>1 DEF Replies, Construction, PeerHasClosed, Held, Registered
  <2> QED
    BY <2>2, <2>3, <2>4
<1> QED
  BY <1>1, <1>2, <1>3, <1>4, <1>5, <1>6, <1>7, <1>8

\* A closer that is at it goes on, or gets through and leaves.
CloserMoves(k) ==
  \/ Through(k)
  \/ /\ \E s \in Active : /\ cl' = [cl EXCEPT ![k] = s]
                          /\ s = "look" \/ lease # "none" \/ (s = "sent" /\ k = "proxy")
     /\ UNCHANGED <<creator, wrapper>>

LEMMA MovesEffect ==
  ASSUME Typed, Kinds, ClosersStand, NEW k \in Closers, cl[k] \in Active, CloserMoves(k),
         UNCHANGED <<proxy, lease>>
  PROVE  /\ ClosersStand'
         /\ creator' = creator \/ (creator = "close" /\ creator' = "done")
         /\ wrapper' => wrapper
         /\ proxy = "none" => cl'["proxy"] = "idle"
<1>0. FamilyTypeOK
  BY DEF Typed
<1>1. CASE Through(k)
  <2>1. /\ cl'[k] = "done" /\ \A j \in Closers \ {k} : cl'[j] = cl[j]
        /\ k = "creator" => creator' = "done" /\ wrapper' = wrapper
        /\ k = "wrapper" => creator' = creator /\ ~wrapper'
        /\ k = "proxy" => creator' = creator /\ wrapper' = wrapper
    BY <1>0, <1>1 DEF Through, FamilyTypeOK
  <2>2. creator' = creator \/ (creator = "close" /\ creator' = "done")
    BY <2>1 DEF ClosersStand, Closers
  <2>3. wrapper' => wrapper
    BY <2>1 DEF Closers
  <2>4. proxy = "none" => cl'["proxy"] = "idle"
    BY <2>1 DEF ClosersStand, Kinds, Closers
  <2>5. /\ cl'["creator"] \in Active => creator' = "close"
        /\ cl'["wrapper"] \in Active => wrapper'
        /\ cl'["proxy"] \in Active => proxy = "held"
    BY <2>1 DEF ClosersStand, Closers, Active
  <2>6. \A j \in Closers : cl'[j] \in Active => cl'[j] = cl[j]
    BY <2>1 DEF Active
  <2> QED
    BY <2>2, <2>3, <2>4, <2>5, <2>6 DEF ClosersStand, Active
<1>2. ASSUME NEW s \in Active, cl' = [cl EXCEPT ![k] = s], UNCHANGED <<creator, wrapper>>,
             s = "look" \/ lease # "none" \/ (s = "sent" /\ k = "proxy")
      PROVE  /\ ClosersStand'
             /\ proxy = "none" => cl'["proxy"] = "idle"
  <2>1. /\ cl'[k] = s /\ \A j \in Closers \ {k} : cl'[j] = cl[j]
    BY <1>0, <1>2 DEF FamilyTypeOK
  <2> QED
    BY <1>2, <2>1 DEF ClosersStand, Kinds, Closers, Active
<1>3. CASE ~Through(k)
  <2>1. /\ UNCHANGED <<creator, wrapper>>
        /\ \E s \in Active : /\ cl' = [cl EXCEPT ![k] = s]
                             /\ s = "look" \/ lease # "none" \/ (s = "sent" /\ k = "proxy")
    BY <1>3 DEF CloserMoves
  <2>2. ClosersStand' /\ (proxy = "none" => cl'["proxy"] = "idle")
    BY <1>2, <2>1
  <2>3. creator' = creator /\ (wrapper' => wrapper)
    BY <2>1
  <2> QED
    BY <2>2, <2>3
<1> QED
  BY <1>1, <1>3

\* The close that acknowledged_close names has not been told yet.
CloseIsOut ==
  source /\ (phase["close"] = "committed" \/ (phase["close"] = "open" /\ fate["close"] = None))

\* A closer that only moves on leaves all else as it is.
LEMMA MoveKeepsFamily ==
  ASSUME Typed, Family, NEW k \in Closers, cl[k] \in Active, CloserMoves(k),
         cell' \in {cell, k, None}, cell' = k => lease # "none",
         UNCHANGED <<plan, connected, phase, answer, reply, fate>>,
         UNCHANGED <<registry, submitted, lease, proxy, bound, retained, unknown, acked,
                     cleanup, torn, peerClosed>>,
         source' = source \/ (~source' /\ ~CloseIsOut)
  PROVE  Family'
<1> USE DEF Family, registry
<1>1. /\ ClosersStand'
      /\ creator' = creator \/ (creator = "close" /\ creator' = "done")
      /\ wrapper' => wrapper
      /\ proxy = "none" => cl'["proxy"] = "idle"
  BY MovesEffect
<1>2. Kinds' /\ Registration'
  BY <1>1 DEF Kinds, Registration, Registered, Closers
<1>3. Leases'
  BY <1>1 DEF Leases, Registered, Owners, Kinds
<1>4. Replies' /\ Construction' /\ PeerHasClosed'
  BY <1>1 DEF Replies, Construction, PeerHasClosed, Held, Registered, CloseIsOut
<1> QED
  BY <1>1, <1>2, <1>3, <1>4

LEMMA StartKeepsFamily ==
  ASSUME Typed, Family, NEW k \in Closers, Start(k)
  PROVE  Family'
<1> USE DEF Family, registry, ownership, bridge, calls, Start
<1>0. FamilyTypeOK
  BY DEF Typed
<1>1. cl'[k] = "look" /\ \A j \in Closers \ {k} : cl'[j] = cl[j]
  BY <1>0 DEF FamilyTypeOK
<1>2. Kinds' /\ Registration'
  BY <1>1 DEF Kinds, Registration, Registered, Closers
<1>3. Leases'
  BY DEF Leases, Registered, Owners
<1>4. ClosersStand'
  BY <1>1 DEF ClosersStand, Closers, Active
<1>5. Replies' /\ Construction' /\ PeerHasClosed'
  BY DEF Replies, Construction, PeerHasClosed, Held, Registered
<1> QED
  BY <1>2, <1>3, <1>4, <1>5

\* The child is released: nothing of the family depends on it any more.
LEMMA ReleaseEffect ==
  ASSUME ReleaseChild
  PROVE  ~Registered' /\ (child' = child \/ Registered)
         /\ UNCHANGED <<plan, connected, phase, answer, reply, fate>>
BY DEF ReleaseChild, Registered, calls

LEMMA ReleasedKeepsFamily ==
  ASSUME Typed, Family, ReleaseChild, NEW k \in Closers, cl[k] \in Active, Through(k),
         cell' \in {cell, "set"}, lease = "none" => cell' = cell, ~acked',
         source' = source \/ (~source' /\ ~CloseIsOut),
         UNCHANGED <<parent, submitted, lease, proxy, bound, retained, unknown, cleanup, torn,
                     peerClosed>>
  PROVE  Family'
<1> USE DEF Family
<1>1. /\ ClosersStand'
      /\ creator' = creator \/ (creator = "close" /\ creator' = "done")
      /\ wrapper' => wrapper
      /\ proxy = "none" => cl'["proxy"] = "idle"
  BY MovesEffect DEF CloserMoves
<1>2. /\ ~Registered' /\ (child' = child \/ Registered)
      /\ UNCHANGED <<plan, connected, phase, answer, reply, fate>>
  BY ReleaseEffect
<1>3. Kinds'
  BY <1>1, <1>2 DEF Kinds, Registered
<1>4. Registration' /\ Leases'
  BY <1>1, <1>2 DEF Registration, Leases, Owners, Kinds
<1>5. Replies' /\ Construction' /\ PeerHasClosed'
  BY <1>1, <1>2 DEF Replies, Construction, PeerHasClosed, Held, CloseIsOut
<1> QED
  BY <1>1, <1>3, <1>4, <1>5

\* AgentClose is called while nothing else holds the agent.
LEMMA CallKeepsFamily ==
  ASSUME Typed, Family, NEW owned \in BOOLEAN, CallsClose(owned), Admits("close"),
         owned => lease = "live",
         lease = "dropped" => ~owned,
         lease = "none" => ~owned,
         ~peerClosed,
         cleanup' = cleanup \/ (lease = "dropped" /\ cleanup' = "sent"),
         UNCHANGED <<creator, wrapper, cell>>, ClosersStand',
         proxy = "none" => cl'["proxy"] = "idle"
  PROVE  Family'
<1> USE DEF Family, CallsClose, CallOnly, registry
<1>0. FamilyTypeOK /\ BridgeTypeOK
  BY DEF Typed, FamilyTypeOK
<1>1. /\ phase' = [phase EXCEPT !["close"] = "open"]
      /\ reply' = [reply EXCEPT !["close"] = None]
      /\ fate' = [fate EXCEPT !["close"] = None]
  BY DEF Submit
<1>2. Registered
  BY DEF Admits
<1>3. Kinds'
  BY <1>0, <1>1, <1>2 DEF Kinds, Registered, BridgeTypeOK, Calls
<1>4. Registration'
  BY DEF Registration, Registered
<1>5. Leases'
  BY <1>0 DEF Leases, Owners, Registered, FamilyTypeOK, Calls
<1>6. Replies'
  BY <1>0, <1>1 DEF Replies, BridgeTypeOK, Calls
<1>7. Construction'
  BY <1>0, <1>1 DEF Construction, Held, Registered, BridgeTypeOK, FamilyTypeOK, Calls
<1>8. PeerHasClosed'
  BY <1>0 DEF PeerHasClosed, FamilyTypeOK, Calls
<1> QED
  BY <1>3, <1>4, <1>5, <1>6, <1>7, <1>8

\* Who is at closing a child that has a lease keeps the lease alive.
LEMMA CloserHoldsLease ==
  ASSUME Typed, Leases, ClosersStand, NEW k \in Closers, cl[k] \in Active, lease # "none"
  PROVE  lease = "live"
BY DEF Typed, FamilyTypeOK, Leases, ClosersStand, Owners, Closers

LEMMA CloserKeepsFamily ==
  ASSUME Typed, Family, NEW k \in Closers,
         Start(k) \/ Look(k) \/ Once(k) \/ Acknowledged(k) \/ Sent(k)
  PROVE  Family'
<1> USE DEF bridge, calls, registry
<1>0. FamilyTypeOK
  BY DEF Typed
<1>1. CASE Start(k)
  BY <1>1, StartKeepsFamily
<1>2. CASE Look(k)
  <2>1. cl[k] \in Active /\ CloserMoves(k)
    BY <1>2 DEF Look, CloserMoves, Active
  <2>2. UNCHANGED <<plan, connected, phase, answer, reply, fate>>
    BY <1>2 DEF Look
  <2>3. UNCHANGED <<registry, submitted, lease, proxy, bound, retained, unknown, acked, cleanup,
                    torn, peerClosed, source, cell>>
    BY <1>2 DEF Look
  <2> QED
    BY <2>1, <2>2, <2>3, MoveKeepsFamily, <1>2 DEF Look
<1>3. CASE Once(k)
  <2>1. cl[k] \in Active /\ CloserMoves(k) /\ lease # "none" /\ cell' \in {cell, k}
    BY <1>3 DEF Once, CloserMoves, Active, Family, ClosersStand
  <2>2. UNCHANGED <<plan, connected, phase, answer, reply, fate>>
    BY <1>3 DEF Once
  <2>3. UNCHANGED <<registry, submitted, lease, proxy, bound, retained, unknown, acked, cleanup,
                    torn, peerClosed, source>>
    BY <1>3 DEF Once
  <2> QED
    BY <2>1, <2>2, <2>3, MoveKeepsFamily
<1>4. CASE Acknowledged(k)
  <2>1. /\ cl[k] \in Active /\ cl[k] = "ack" /\ lease = "live"
        /\ ~(source /\ phase["close"] \in {"open", "committed"})
    BY <1>4, CloserHoldsLease DEF Acknowledged, Family, ClosersStand, Active
  <2>2. ~CloseIsOut
    BY <2>1 DEF CloseIsOut
  <2>3. CASE ReleaseChild /\ Through(k) /\ cell' = "set" /\ acked' = FALSE /\ source' = FALSE
             /\ UNCHANGED <<parent, submitted, lease, proxy, bound, retained, unknown, cleanup,
                            closes, torn, peerClosed>>
    BY <2>1, <2>2, <2>3, ReleasedKeepsFamily
  <2>4. CASE /\ ~acked /\ Admits("close") /\ CallsClose(TRUE)
             /\ cl' = [cl EXCEPT ![k] = "sent"] /\ UNCHANGED <<creator, wrapper, cell, cleanup>>
    <3>1. CloserMoves(k) /\ UNCHANGED <<proxy, lease>>
      BY <2>1, <2>4 DEF CloserMoves, Active, CallsClose
    <3>2. ClosersStand' /\ (proxy = "none" => cl'["proxy"] = "idle")
      BY <2>1, <3>1, MovesEffect DEF Family
    <3>3. ~peerClosed
      BY <2>1, <2>4 DEF Family, PeerHasClosed, Leases, Admits
    <3> QED
      BY <2>1, <2>4, <3>2, <3>3, CallKeepsFamily
  <2>5. CASE /\ cell' = None /\ Through(k) /\ source' = FALSE
             /\ UNCHANGED <<bridge, registry, submitted, lease, proxy, bound, retained, unknown,
                            acked, cleanup, closes, torn, peerClosed>>
    BY <2>1, <2>2, <2>5, MoveKeepsFamily DEF CloserMoves
  <2> QED
    BY <1>4, <2>3, <2>4, <2>5 DEF Acknowledged
<1>5. CASE Sent(k)
  <2>1. cl[k] \in Active /\ lease = "live" /\ reply["close"] # None /\ phase["close"] # "committed"
    BY <1>5, CloserHoldsLease DEF Sent, Family, Active, Returned, HasReply
  <2>2. ~CloseIsOut
    BY <2>1 DEF CloseIsOut, Family, Replies
  <2>3. /\ Through(k) /\ acked' = FALSE /\ source' = FALSE
        /\ UNCHANGED <<parent, submitted, lease, proxy, bound, retained, unknown, cleanup, torn,
                       peerClosed>>
    BY <1>5 DEF Sent
  <2>4. CASE ReleaseChild /\ cell' = "set"
    BY <2>1, <2>2, <2>3, <2>4, ReleasedKeepsFamily
  <2>5. CASE ~acked /\ UNCHANGED <<bridge, child>> /\ cell' = None
    <3>1. acked' = acked
      BY <1>0, <2>3, <2>5 DEF FamilyTypeOK
    <3> QED
      BY <2>1, <2>2, <2>3, <2>5, <3>1, MoveKeepsFamily DEF CloserMoves
  <2> QED
    BY <1>5, <2>4, <2>5 DEF Sent
<1> QED
  BY <1>1, <1>2, <1>3, <1>4, <1>5

LEMMA DirectKeepsFamily ==
  ASSUME Typed, Family, DirectClose \/ DirectClosed
  PROVE  Family'
<1> USE DEF bridge, calls, registry
<1>1. "proxy" \in Closers /\ lease = "none" /\ cl["proxy"] \in Active
  BY DEF DirectClose, DirectClosed, Closers, Active
<1>2. ~peerClosed /\ ~acked /\ cell = None
  BY <1>1 DEF Family, Kinds, Leases
<1>3. CASE /\ Through("proxy")
           /\ UNCHANGED <<bridge, registry, submitted, lease, proxy, bound, retained, unknown,
                          source, acked, cell, cleanup, closes, torn, peerClosed>>
  <2>1. CloserMoves("proxy") /\ cell' = None
    BY <1>2, <1>3 DEF CloserMoves
  <2> QED
    BY <1>1, <1>3, <2>1, MoveKeepsFamily
<1>4. CASE /\ Admits("close") /\ CallsClose(FALSE)
           /\ cl' = [cl EXCEPT !["proxy"] = "sent"] /\ UNCHANGED <<creator, wrapper, cell, cleanup>>
  <2>1. CloserMoves("proxy") /\ UNCHANGED <<proxy, lease>>
    BY <1>4 DEF CloserMoves, Active, CallsClose
  <2>2. ClosersStand' /\ (proxy = "none" => cl'["proxy"] = "idle")
    BY <1>1, <2>1, MovesEffect DEF Family
  <2> QED
    BY <1>1, <1>2, <1>4, <2>2, CallKeepsFamily
<1>5. CASE /\ ReleaseChild /\ Through("proxy")
           /\ UNCHANGED <<parent, submitted, lease, proxy, bound, retained, unknown, source, acked,
                          cell, cleanup, closes, torn, peerClosed>>
  BY <1>1, <1>2, <1>5, ReleasedKeepsFamily
<1>6. CASE DirectClose
  BY <1>3, <1>4, <1>6 DEF DirectClose
<1>7. CASE DirectClosed
  BY <1>3, <1>5, <1>7 DEF DirectClosed
<1> QED
  BY <1>6, <1>7

LEMMA EndsKeepFamily ==
  ASSUME Typed, Family,
         \/ DropLease \/ CleanupTries \/ CleanupAnswered \/ CleanupRetries
         \/ UnregisterParent \/ UnregisterChild \/ TearDown
  PROVE  Family'
<1> USE DEF Family, bridge, calls, registry, ownership, closing
<1>0. FamilyTypeOK
  BY DEF Typed
<1>1. CASE DropLease
  <2>1. /\ lease = "live" /\ lease' = "dropped" /\ ~Owners
        /\ UNCHANGED <<parent, creator, submitted, proxy, wrapper, bound, retained, unknown, source,
                       acked, cell, cl, closes, torn, peerClosed>>
    BY <1>1 DEF DropLease
  <2>2. /\ UNCHANGED <<plan, connected, phase, answer, reply, fate>>
        /\ child' = child \/ (Registered /\ ~Registered')
    BY <1>1, ReleaseEffect DEF DropLease
  <2>3. ~Owners'
    BY <2>1 DEF Owners
  <2>4. Registered' => ~acked /\ (torn \/ cleanup' = "try")
    BY <1>0, <1>1, <2>1, ReleaseEffect DEF DropLease, Registration, Owners, Registered
  <2>5. Kinds' /\ Registration'
    BY <2>1, <2>2, <2>3 DEF Kinds, Registration, Registered
  <2>6. Leases'
    BY <2>1, <2>2, <2>3, <2>4 DEF Leases, Registration
  <2>7. ClosersStand' /\ Replies' /\ Construction'
    BY <2>1, <2>2 DEF ClosersStand, Replies, Construction, Held, Registered
  <2>8. PeerHasClosed'
    <3>1. Registered' => Registered /\ ~bound["close"] /\ cleanup # "sent"
      BY <2>1, <2>2 DEF Owners, Calls, Leases, Registered
    <3> QED
      BY <2>1, <2>2, <2>4, <3>1 DEF PeerHasClosed
  <2> QED
    BY <2>5, <2>6, <2>7, <2>8
<1>2. CASE CleanupTries
  <2>1. /\ cleanup = "try" /\ lease = "dropped" /\ ~Owners
    BY <1>2 DEF CleanupTries, Leases
  <2>2. CASE Admits("close") /\ CallsClose(FALSE) /\ cleanup' = "sent"
             /\ UNCHANGED <<creator, wrapper, cell, cl, proxy>>
    <3>1. ~peerClosed
      BY <2>1, <2>2 DEF PeerHasClosed, Owners, Leases, Admits, Calls
    <3>2. ClosersStand' /\ (proxy = "none" => cl'["proxy"] = "idle")
      BY <2>2 DEF ClosersStand, Kinds, CallsClose
    <3> QED
      BY <2>1, <2>2, <3>1, <3>2, CallKeepsFamily
  <2>3. CASE /\ cleanup' = "backoff" \/ (~connected /\ cleanup' = "done")
             /\ UNCHANGED <<bridge, closes, source, acked, bound>>
             /\ UNCHANGED <<registry, creator, submitted, lease, proxy, wrapper, retained, unknown,
                            cell, cl, torn, peerClosed>>
    <3>1. Kinds' /\ Registration' /\ ClosersStand' /\ Replies' /\ Construction'
      BY <2>3 DEF Kinds, Registration, ClosersStand, Replies, Construction, Registered, Held
    <3>2. Leases'
      BY <2>1, <2>3 DEF Leases, Registered, Owners
    <3>3. PeerHasClosed'
      BY <2>1, <2>3 DEF PeerHasClosed, Registered
    <3> QED
      BY <3>1, <3>2, <3>3
  <2> QED
    BY <1>2, <2>2, <2>3 DEF CleanupTries
<1>3. CASE CleanupAnswered
  <2>1. /\ cleanup = "sent" /\ lease = "dropped" /\ ~Owners
        /\ UNCHANGED <<parent, creator, submitted, lease, proxy, wrapper, bound, retained, unknown,
                       source, acked, cell, cl, closes, torn, peerClosed>>
    BY <1>3 DEF CleanupAnswered, Leases
  <2>2. /\ UNCHANGED <<plan, connected, phase, answer, reply, fate>>
        /\ child' = child \/ (Registered /\ ~Registered')
        /\ cleanup' = "backoff" \/ (cleanup' = "done" /\ ~Registered')
        /\ Registered' => reply["close"] # "ok"
    BY <1>3, ReleaseEffect DEF CleanupAnswered
  <2>3. Kinds' /\ Registration' /\ ClosersStand' /\ Replies' /\ Construction'
    BY <2>1, <2>2 DEF Kinds, Registration, ClosersStand, Replies, Construction, Registered, Held
  <2>4. Leases'
    BY <2>1, <2>2 DEF Leases, Registered, Owners
  <2>5. PeerHasClosed'
    BY <2>1, <2>2 DEF PeerHasClosed, Registered
  <2> QED
    BY <2>3, <2>4, <2>5
<1>4. CASE CleanupRetries
  <2> USE <1>4 DEF CleanupRetries
  <2>1. Kinds' /\ Registration' /\ ClosersStand' /\ Replies' /\ Construction'
    BY DEF Kinds, Registration, ClosersStand, Replies, Construction, Registered, Held
  <2>2. Leases'
    BY DEF Leases, Registered, Owners
  <2>3. PeerHasClosed'
    BY DEF PeerHasClosed, Registered
  <2> QED
    BY <2>1, <2>2, <2>3
<1>5. CASE UnregisterParent
  <2> USE <1>5 DEF UnregisterParent
  <2>1. Kinds' /\ Registration' /\ ClosersStand' /\ Replies' /\ Construction'
    BY DEF Kinds, Registration, ClosersStand, Replies, Construction, Registered, Held
  <2>2. Leases' /\ PeerHasClosed'
    BY DEF Leases, PeerHasClosed, Registered, Owners
  <2> QED
    BY <2>1, <2>2
<1>6. CASE UnregisterChild \/ TearDown
  <2>1. /\ UNCHANGED <<plan, connected, phase, answer, reply, fate>>
        /\ ~Registered' /\ (child' = child \/ Registered)
    BY <1>6, ReleaseEffect DEF UnregisterChild, TearDown, Registered
  <2>2. /\ UNCHANGED <<creator, submitted, lease, proxy, wrapper, bound, unknown, source, acked,
                       cell, cl, closes, peerClosed>>
        /\ ~retained'
        /\ cleanup' # "none" => cleanup # "none"
        /\ torn' => torn \/ ~connected
    BY <1>6 DEF UnregisterChild, TearDown
  <2>3. Kinds' /\ ClosersStand' /\ Replies'
    BY <2>1, <2>2 DEF Kinds, ClosersStand, Replies, Registered
  <2>4. Registration' /\ Construction' /\ PeerHasClosed'
    BY <2>1, <2>2 DEF Registration, Construction, PeerHasClosed, Held
  <2>5. Leases'
    BY <2>1, <2>2 DEF Leases, Owners
  <2> QED
    BY <2>3, <2>4, <2>5
<1> QED
  BY <1>1, <1>2, <1>3, <1>4, <1>5, <1>6

LEMMA FamilyStep ==
  ASSUME Typed, Family, OnceCalls, Next
  PROVE  Family'
<1>1. CASE \/ PeerStep \/ ConsumerStep \/ BareStep \/ BareDrop \/ DisconnectStep
           \/ LoseStep("work") \/ \E a \in Answers : AnswerStep("work", a)
  BY <1>1, WorkSteps, WorkKeepsFamily
<1>2. ASSUME NEW c \in Calls, LoseStep(c) \/ ReleaseStep(c) \/ \E a \in Answers : AnswerStep(c, a)
      PROVE  Family'
  <2>1. CASE c = "work"
    BY <1>1, <1>2, <2>1, ReleaseKeepsFamily
  <2>2. CASE c \in {"create", "close"}
    BY <1>2, <2>2, LoseKeepsFamily, AnswerKeepsFamily, ReleaseKeepsFamily
  <2> QED
    BY <2>1, <2>2 DEF Calls
<1> QED
  BY <1>1, <1>2, DropStreamKeepsFamily, CreatorKeepsFamily, CloserKeepsFamily, DirectKeepsFamily,
     EndsKeepFamily DEF Next
-----------------------------------------------------------------------------
(* The stream of "work", and what becomes of it.                           *)

\* Before it is made there is nothing of the call.
Idle ==
  /\ phase["work"] = "idle" =>
       /\ plan = "factory" /\ at \in {"none", "end"}
       /\ answer["work"] = None /\ reply["work"] = None /\ fate["work"] = None
       /\ ended = None /\ final = None /\ sent = 0 /\ out = 0
  /\ at = "none" => phase["work"] = "idle"

Proven ==
  \/ answer["work"] \in {"error", "gone"} \/ Facts(answer["work"], ended)
  \/ (Channel /\ answer["work"] # None)

\* Both physical facts close the call, a call that closes has been proved to
\* end, and a call that stays open after its answer is of unknown fate.
Proofs ==
  /\ Facts(answer["work"], ended) => phase["work"] \in {"committed", "closed"}
  /\ phase["work"] = "committed" => Proven
  /\ phase["work"] = "open" /\ reply["work"] = "error" => fate["work"] # None
  /\ Channel /\ phase["work"] = "open" /\ reply["work"] # None => fate["work"] # None
  /\ replied => reply["work"] # None
  /\ at = "final" => MayEnd

\* No chunk is missing of those that the peer has sent.
Whole == out + Chunks(mailbox) = sent

\* A terminal is the last item of its mailbox, and a complete one follows every
\* chunk, unless it was taken from beside the mailbox while chunks were in it.
Boxes ==
  /\ \A i \in DOMAIN mailbox :
       mailbox[i] \in Terminals => i = Len(mailbox) /\ seen /\ dispatch # "send"
  /\ (\E i \in DOMAIN mailbox : mailbox[i] = "complete") => Whole /\ ended # None
  /\ kept = "complete" => Gone \/ dispatch = "send"
  /\ dispatch = "send" => seen /\ (Gone \/ Whole)
  /\ term = "complete" => Whole /\ ended # None /\ (Chunks(mailbox) = 0 \/ lost > 0)
  /\ ~seen => Gone \/ Whole
  /\ out + Chunks(mailbox) <= sent
  /\ lost > 0 => Gone \/ (at # "take" /\ term # None)

Streaming == OnceCalls /\ Idle /\ Proofs /\ Boxes

Doubtful == fate["work"] # None /\ (Channel \/ reply["work"] = "error")

Owned ==
  IF phase["work"] = "idle" \/ plan = "once" THEN "never"
  ELSE IF Held("work") THEN "held" ELSE "free"

End ==
  IF at # "end" \/ plan = "once" THEN "no" ELSE IF final = "complete" THEN "whole" ELSE "short"

\* A step as the contract wants it.
Promise ==
  /\ (Proven => Proven') /\ (Doubtful => Doubtful') /\ (connected' => connected)
  /\ lost > 0 => lost' > 0
  /\ sent' = sent \/ (sent < MaxChunks /\ sent' = sent + 1)
  /\ \/ Owned' = Owned
     \/ Owned = "never" /\ Owned' = "held"
     \/ Owned = "held" /\ Owned' = "free" /\ (Proven' \/ ~connected')
  /\ out' = out \/ (End = "no" /\ out < sent /\ out' = out + 1)
  /\ \/ End' = End
     \/ /\ End = "no" /\ (Owned # "held" \/ Doubtful)
        /\ End' = "short" \/ (End' = "whole" /\ (out = sent \/ lost > 0))

LEMMA PromiseImplements == Promise => Contract!Next
BY DEF Promise, Proven, Doubtful, Owned, End, Contract!Next, Contract!Learn, Contract!Receive,
   Contract!Start, Contract!GiveBack, Contract!Give, Contract!Tell

LEMMA StreamInit == Init => Streaming /\ Contract!Init
<1> SUFFICES ASSUME Init
             PROVE  Streaming /\ Contract!Init
  OBVIOUS
<1>0. /\ BridgeInit /\ plan \in Plans
      /\ phase["work"] = IF plan = "factory" THEN "idle" ELSE IF plan = "once" THEN "bare" ELSE "open"
      /\ at = IF plan = "factory" THEN "none" ELSE IF plan = "once" THEN "wait" ELSE "poll"
  BY DEF Init, Calls
<1>1. /\ answer["work"] = None /\ reply["work"] = None /\ fate["work"] = None /\ ended = None
      /\ sent = 0 /\ out = 0 /\ lost = 0 /\ final = None /\ term = None /\ kept = None
      /\ mailbox = <<>> /\ ~seen /\ ~replied /\ dispatch = "free" /\ connected
  BY <1>0 DEF BridgeInit, Calls
<1>2. Chunks(mailbox) = 0
  BY <1>1, ChunksBounds
<1>3. OnceCalls /\ Idle
  BY <1>0, <1>1 DEF OnceCalls, Idle
<1>4. Proofs
  BY <1>0, <1>1 DEF Proofs, Facts, Answered
<1>5. Boxes
  BY <1>1, <1>2 DEF Boxes, Whole
<1>6. Contract!Init
  BY <1>0, <1>1 DEF Contract!Init, Facts, Answered, Held
<1> QED
  BY <1>3, <1>4, <1>5, <1>6 DEF Streaming

\* What is put into a mailbox comes last.
LEMMA AppendEffect ==
  ASSUME BridgeTypeOK, NEW x \in Items, mailbox' = Append(mailbox, x)
  PROVE  /\ Len(mailbox') = Len(mailbox) + 1
         /\ \A i \in DOMAIN mailbox' :
              \/ i \in DOMAIN mailbox /\ mailbox'[i] = mailbox[i]
              \/ i = Len(mailbox') /\ mailbox'[i] = x
         /\ Chunks(mailbox') = IF x = "chunk" THEN Chunks(mailbox) + 1 ELSE Chunks(mailbox)
<1>1. mailbox \in Seq(Items)
  BY DEF BridgeTypeOK, Items
<1> QED
  BY <1>1, ChunksAppend

LEMMA ChunksOfBox == BridgeTypeOK => Chunks(mailbox) \in Nat
BY ChunksBounds DEF BridgeTypeOK, Items

\* Nothing that ends a stream is in its mailbox before its terminal was seen.
LEMMA TerminateKeepsBoxes ==
  ASSUME Typed, Boxes, UNCHANGED <<at, ended, dispatch, term, out, sent, lost>>, Terminate("failed")
  PROVE  Boxes'
<1>0. BridgeTypeOK
  BY DEF Typed, FamilyTypeOK
<1>1. CASE seen = TRUE
  <2>1. UNCHANGED <<seen, kept, mailbox>>
    BY <1>1 DEF Terminate
  <2> QED
    BY <2>1 DEF Boxes, Whole, Gone
<1>2. CASE seen = FALSE
  <2>1. /\ seen' = TRUE /\ dispatch # "send"
        /\ \A i \in DOMAIN mailbox : mailbox[i] \notin Terminals
    BY <1>2 DEF Terminate, Boxes
  <2>2. CASE mailbox' = Append(mailbox, "failed") /\ kept' = kept
    <3>1. /\ Chunks(mailbox') = Chunks(mailbox)
          /\ \A i \in DOMAIN mailbox' :
               \/ i \in DOMAIN mailbox /\ mailbox'[i] = mailbox[i]
               \/ i = Len(mailbox') /\ mailbox'[i] = "failed"
      BY <1>0, <2>2, AppendEffect DEF Items, Terminals
    <3>2. \A i \in DOMAIN mailbox' : mailbox'[i] \in Terminals => i = Len(mailbox')
      BY <2>1, <3>1
    <3>3. ~\E i \in DOMAIN mailbox' : mailbox'[i] = "complete"
      BY <2>1, <3>1 DEF Terminals
    <3> QED
      BY <1>2, <2>1, <2>2, <3>1, <3>2, <3>3 DEF Boxes, Whole, Gone
  <2>3. CASE kept' = "failed" /\ mailbox' = mailbox
    BY <1>2, <2>1, <2>3 DEF Boxes, Whole, Gone
  <2> QED
    BY <1>2, <2>2, <2>3 DEF Terminate
<1> QED
  BY <1>0, <1>1, <1>2 DEF BridgeTypeOK

\* A step beside the stream may end its sink.
Aside ==
  /\ UNCHANGED <<plan, at, ended, dispatch, term, replied, out, sent, lost, final>>
  /\ connected' => connected
  /\ phase'["work"] = phase["work"] /\ answer'["work"] = answer["work"]
  /\ reply'["work"] = reply["work"] /\ fate'["work"] = fate["work"]
  /\ UNCHANGED <<seen, kept, mailbox>> \/ Terminate("failed")

LEMMA AsideKeeps ==
  ASSUME Typed, Streaming, Aside
  PROVE  Streaming' /\ Promise
<1> USE DEF Streaming, Aside
<1>1. OnceCalls' /\ Idle'
  BY DEF OnceCalls, Idle
<1>2. Proofs'
  BY DEF Proofs, Proven, Facts, Channel, MayEnd
<1>3. Boxes'
  <2>1. CASE UNCHANGED <<seen, kept, mailbox>>
    BY <2>1 DEF Boxes, Whole, Gone
  <2> QED
    BY <2>1, TerminateKeepsBoxes
<1>4. Promise
  BY DEF Promise, Proven, Facts, Channel, Doubtful, Owned, Held, End
<1> QED
  BY <1>1, <1>2, <1>3, <1>4

LEMMA ReleaseIsAside == ReleaseChild => Aside
BY DEF ReleaseChild, Aside, sink, calls, peer, consumer

LEMMA CallsCloseIsAside ==
  ASSUME BridgeTypeOK, NEW owned, CallsClose(owned)
  PROVE  Aside
BY DEF CallsClose, Submit, CallOnly, Aside, BridgeTypeOK, Calls, peer, sink, consumer

LEMMA BridgeKeptIsAside == UNCHANGED bridge => Aside
BY DEF bridge, Aside, calls, peer, sink, consumer

LEMMA AsideCalls ==
  ASSUME Typed,
         \/ Cancel \/ DisconnectStep \/ \E c \in Calls : Watch(c)
         \/ \E c \in {"create", "close"} :
              LoseStep(c) \/ ReleaseStep(c) \/ \E a \in Answers : AnswerStep(c, a)
  PROVE  Aside
<1> USE DEF Aside, peer, sink, consumer, calls
<1>0. BridgeTypeOK
  BY DEF Typed, FamilyTypeOK
<1>1. CASE Cancel \/ DisconnectStep
  BY <1>1 DEF Cancel, DisconnectStep, Disconnect
<1>2. ASSUME NEW c \in Calls, Watch(c)
      PROVE  Aside
  BY <1>2 DEF Watch
<1>3. ASSUME NEW c \in {"create", "close"}, LoseStep(c)
      PROVE  Aside
  <2>1. UNCHANGED <<plan, connected, answer, peer, dispatch, sink, consumer>>
    BY <1>3 DEF LoseStep, Lose
  <2>2. /\ phase'["work"] = phase["work"] /\ reply'["work"] = reply["work"]
        /\ fate'["work"] = fate["work"]
    BY <1>0, <1>3 DEF LoseStep, Lose, Observe, BridgeTypeOK, Calls
  <2> QED
    BY <2>1, <2>2
<1>4. ASSUME NEW c \in {"create", "close"}, ReleaseStep(c)
      PROVE  Aside
  BY <1>0, <1>4 DEF ReleaseStep, Release, BridgeTypeOK
<1>5. ASSUME NEW c \in {"create", "close"}, NEW a \in Answers, AnswerStep(c, a)
      PROVE  Aside
  <2>1. /\ UNCHANGED <<plan, connected, peer, dispatch, consumer>>
        /\ UNCHANGED sink \/ Terminate("failed")
    BY <1>5 DEF AnswerStep, Answer
  <2>2. /\ phase'["work"] = phase["work"] /\ reply'["work"] = reply["work"]
        /\ fate'["work"] = fate["work"] /\ answer'["work"] = answer["work"]
    BY <1>0, <1>5 DEF AnswerStep, Answer, Observe, BridgeTypeOK, Calls
  <2> QED
    BY <2>1, <2>2
<1> QED
  BY <1>1, <1>2, <1>3, <1>4, <1>5

LEMMA AsideFamily ==
  ASSUME Typed,
         \/ Reserve \/ Create \/ Created \/ Commit \/ DropCreator \/ DropProxy \/ DropClose
         \/ \E k \in Closers : Start(k) \/ Look(k) \/ Once(k) \/ Acknowledged(k) \/ Sent(k)
         \/ DirectClose \/ DirectClosed
         \/ DropLease \/ CleanupTries \/ CleanupAnswered \/ CleanupRetries
         \/ UnregisterParent \/ UnregisterChild \/ TearDown
  PROVE  Aside
<1>0. BridgeTypeOK
  BY DEF Typed, FamilyTypeOK
<1> USE ReleaseIsAside, CallsCloseIsAside, BridgeKeptIsAside
<1>1. CASE Reserve \/ Created \/ Commit \/ DropCreator \/ DropProxy \/ DropClose
  BY <1>1 DEF Reserve, Created, Commit, DropCreator, DropProxy, DropClose
<1>2. CASE Create
  <2>1. CASE Submit("create") /\ CallOnly
    BY <1>0, <2>1 DEF Submit, CallOnly, Aside, BridgeTypeOK, Calls, peer, sink, consumer
  <2> QED
    BY <1>2, <2>1 DEF Create
<1>3. ASSUME NEW k \in Closers, Start(k) \/ Look(k) \/ Once(k) \/ Acknowledged(k) \/ Sent(k)
      PROVE  Aside
  BY <1>0, <1>3 DEF Start, Look, Once, Acknowledged, Sent
<1>4. CASE DirectClose \/ DirectClosed
  BY <1>0, <1>4 DEF DirectClose, DirectClosed
<1>5. CASE DropLease \/ CleanupTries \/ CleanupAnswered \/ CleanupRetries
  BY <1>0, <1>5 DEF DropLease, CleanupTries, CleanupAnswered, CleanupRetries
<1>6. CASE UnregisterParent \/ UnregisterChild
  BY <1>6 DEF UnregisterParent, UnregisterChild
<1>7. CASE TearDown
  BY <1>7 DEF TearDown, Aside, calls, peer, consumer
<1> QED
  BY <1>1, <1>2, <1>3, <1>4, <1>5, <1>6, <1>7

\* Where nothing is put in the mailbox and no item is taken.
LEMMA BoxesKept ==
  ASSUME Boxes, UNCHANGED <<seen, kept, mailbox, dispatch, term, out, sent, lost>>,
         ended # None => ended' # None,
         Gone => Gone',
         at' = "take" => at = "take" \/ term = None
  PROVE  Boxes'
BY DEF Boxes, Whole, Gone

\* The peer's events.
LEMMA AcceptKeepsBoxes ==
  ASSUME Typed, Boxes, ended = None, dispatch = "free", NEW what \in {"chunk", "hint"}, Accept(what),
         UNCHANGED <<at, ended, dispatch, term, out, lost>>,
         sent' = IF what = "chunk" THEN sent + 1 ELSE sent
  PROVE  Boxes'
<1>0. BridgeTypeOK /\ what \in Items /\ what \notin Terminals
  BY DEF Typed, FamilyTypeOK, Items, Terminals
<1>1. Chunks(mailbox) \in Nat /\ out \in Nat /\ sent \in Nat
  BY <1>0, ChunksOfBox DEF BridgeTypeOK
<1>2. ~\E i \in DOMAIN mailbox : mailbox[i] = "complete"
  BY DEF Boxes
<1>3. CASE (seen = TRUE \/ Gone) /\ UNCHANGED <<seen, kept, mailbox>>
  BY <1>1, <1>2, <1>3 DEF Boxes, Whole, Gone
<1>4. CASE seen = FALSE /\ ~Gone /\ mailbox' = Append(mailbox, what) /\ UNCHANGED <<seen, kept>>
  <2>1. /\ Chunks(mailbox') = IF what = "chunk" THEN Chunks(mailbox) + 1 ELSE Chunks(mailbox)
        /\ \A i \in DOMAIN mailbox' :
             \/ i \in DOMAIN mailbox /\ mailbox'[i] = mailbox[i]
             \/ i = Len(mailbox') /\ mailbox'[i] = what
    BY <1>0, <1>4, AppendEffect
  <2>2. \A i \in DOMAIN mailbox' : mailbox'[i] \notin Terminals
    BY <1>0, <1>4, <2>1 DEF Boxes
  <2>3. ~\E i \in DOMAIN mailbox' : mailbox'[i] = "complete"
    BY <2>2 DEF Terminals
  <2>4. Whole'
    BY <1>1, <1>4, <2>1 DEF Boxes, Whole
  <2> QED
    BY <1>1, <1>4, <2>2, <2>3, <2>4 DEF Boxes, Whole, Gone
<1>5. CASE seen = FALSE /\ ~Gone /\ seen' = TRUE /\ kept' = "failed" /\ UNCHANGED mailbox
  <2>1. \A i \in DOMAIN mailbox : mailbox[i] \notin Terminals
    BY <1>5 DEF Boxes
  <2> QED
    BY <1>1, <1>2, <1>5, <2>1 DEF Boxes, Whole, Gone
<1> QED
  BY <1>0, <1>3, <1>4, <1>5 DEF Accept, BridgeTypeOK

\* An observation is never taken back.
LEMMA ObserveKeeps ==
  ASSUME BridgeTypeOK, NEW what \in Answers, Observe("work", what)
  PROVE  fate["work"] # None => fate'["work"] # None
BY DEF BridgeTypeOK, Observe, Observed, Calls

\* What concerns neither the items nor the end of the stream.
LEMMA PromiseOfCall ==
  ASSUME UNCHANGED <<plan, lost, sent, out>>, connected' => connected,
         Proven => Proven', Doubtful => Doubtful',
         \/ Owned' = Owned
         \/ Owned = "held" /\ Owned' = "free" /\ (Proven' \/ ~connected'),
         End' = End
  PROVE  Promise
BY DEF Promise

LEMMA PeerItems ==
  ASSUME Typed, Streaming, PeerChunk \/ PeerHint
  PROVE  Streaming' /\ Promise
<1> USE DEF Streaming
<1>0. BridgeTypeOK
  BY DEF Typed, FamilyTypeOK
<1>1. /\ UNCHANGED <<plan, connected, phase, answer, reply, ended, dispatch, at, term, replied, out,
                     final, lost>>
      /\ ended = None /\ dispatch = "free" /\ phase["work"] \in {"open", "returned"}
      /\ fate["work"] # None => fate'["work"] # None
  BY <1>0, ObserveKeeps DEF PeerChunk, PeerHint, Receives, Free, calls, consumer, Answers
<1>2. \/ sent < MaxChunks /\ sent' = sent + 1 /\ Accept("chunk")
      \/ sent' = sent /\ Accept("hint")
  <2>1. PeerChunk => sent < MaxChunks /\ sent' = sent + 1 /\ Accept("chunk")
    BY <1>0 DEF PeerChunk, BridgeTypeOK
  <2> QED
    BY <2>1 DEF PeerHint
<1>3. OnceCalls' /\ Idle'
  BY <1>1 DEF OnceCalls, Idle
<1>4. Proofs'
  BY <1>1 DEF Proofs, Proven, Facts, Channel, MayEnd
<1>5. Boxes'
  BY <1>1, <1>2, AcceptKeepsBoxes
<1>6. Promise
  BY <1>1, <1>2 DEF Promise, Proven, Facts, Channel, Doubtful, Owned, Held, End
<1> QED
  BY <1>3, <1>4, <1>5, <1>6

LEMMA PeerFaults ==
  ASSUME Typed, Streaming, PeerBad
  PROVE  Streaming' /\ Promise
<1>0. BridgeTypeOK
  BY DEF Typed, FamilyTypeOK
<1>1. UNCHANGED <<plan, connected, phase, answer, reply, sent, ended, dispatch, at, term, replied,
                  out, final, lost>>
  BY DEF PeerBad, consumer
<1>2. CASE Terminate("failed") /\ UNCHANGED fate
  BY <1>1, <1>2, AsideKeeps DEF Aside
<1>3. CASE Observe("work", "anonymous") /\ UNCHANGED sink
  <2> USE DEF Streaming, sink
  <2>1. fate["work"] # None => fate'["work"] # None
    BY <1>0, <1>3, ObserveKeeps DEF Answers
  <2>2. phase["work"] \in {"open", "returned"}
    BY DEF PeerBad, Receives
  <2>3. OnceCalls' /\ Idle'
    BY <1>1, <2>2 DEF OnceCalls, Idle
  <2>4. Proofs'
    BY <1>1, <2>1 DEF Proofs, Proven, Facts, Channel, MayEnd
  <2>5. Boxes'
    BY <1>1, <1>3 DEF Boxes, Whole, Gone
  <2>6. Promise
    BY <1>1, <2>1 DEF Promise, Proven, Facts, Channel, Doubtful, Owned, Held, End
  <2> QED
    BY <2>3, <2>4, <2>5, <2>6
<1> QED
  BY <1>2, <1>3 DEF PeerBad

LEMMA PeerTerminal ==
  ASSUME Typed, Streaming, PeerEnds
  PROVE  Streaming' /\ Promise
<1> USE DEF Streaming
<1>0. BridgeTypeOK
  BY DEF Typed, FamilyTypeOK
<1>1. /\ UNCHANGED <<plan, connected, answer, reply, fate, sent, seen, kept, mailbox, at, term,
                     replied, out, final, lost>>
      /\ ended = None /\ dispatch = "free" /\ dispatch' = "admit" /\ ended' \in Terminals
      /\ phase["work"] \in {"open", "returned"}
  BY DEF PeerEnds, Receives, Free, sink, consumer, Terminals
<1>2. /\ ended' # None
      /\ Facts(answer["work"], ended') => phase'["work"] = Closing(phase["work"])
      /\ ~Facts(answer["work"], ended') => phase'["work"] = phase["work"]
  BY <1>0, <1>1 DEF PeerEnds, BridgeTypeOK, Calls, Terminals
<1>3. OnceCalls' /\ Idle'
  BY <1>1, <1>2 DEF OnceCalls, Idle, Closing
<1>4. Proofs'
  BY <1>1, <1>2 DEF Proofs, Proven, Facts, Channel, MayEnd, Closing
<1>5. Boxes'
  BY <1>1, <1>2 DEF Boxes, Whole, Gone
<1>6. Promise
  BY <1>1, <1>2 DEF Promise, Proven, Facts, Channel, Doubtful, Owned, Held, End, Closing
<1> QED
  BY <1>3, <1>4, <1>5, <1>6

LEMMA HandlerSteps ==
  ASSUME Typed, Streaming, AdmitTerminal \/ SendTerminal
  PROVE  Streaming' /\ Promise
<1> USE DEF Streaming
<1>0. BridgeTypeOK /\ Sending
  BY DEF Typed, FamilyTypeOK
<1>1. /\ UNCHANGED <<plan, connected, phase, answer, reply, fate, sent, ended, at, term, replied,
                     out, final, lost>>
      /\ ended \in Terminals
  BY <1>0 DEF AdmitTerminal, SendTerminal, Sending, calls, peer, consumer, BridgeTypeOK
<1>2. OnceCalls' /\ Idle' /\ Proofs'
  BY <1>1 DEF OnceCalls, Idle, Proofs, Proven, Facts, Channel, MayEnd
<1>3. ASSUME AdmitTerminal
      PROVE  Boxes'
  <2>1. dispatch = "admit" /\ mailbox' = mailbox
    BY <1>3 DEF AdmitTerminal
  <2>2. CASE seen = TRUE
    BY <1>1, <1>3, <2>1, <2>2 DEF AdmitTerminal, Boxes, Whole, Gone
  <2>3. CASE seen = FALSE
    <3>1. \A i \in DOMAIN mailbox : mailbox[i] \notin Terminals
      BY <2>3 DEF Boxes
    <3>2. dispatch' = "send" /\ seen' = TRUE
      BY <1>3, <2>3 DEF AdmitTerminal
    <3> QED
      BY <1>1, <2>1, <2>3, <3>1, <3>2 DEF Boxes, Whole, Gone
  <2> QED
    BY <1>0, <2>2, <2>3 DEF BridgeTypeOK
<1>4. ASSUME SendTerminal
      PROVE  Boxes'
  <2>1. dispatch = "send" /\ dispatch' = "free" /\ seen' = seen /\ (Gone \/ Whole)
        /\ (\A i \in DOMAIN mailbox : mailbox[i] \notin Terminals) /\ seen
    BY <1>4 DEF SendTerminal, Boxes
  <2>2. CASE Gone /\ UNCHANGED <<kept, mailbox>>
    BY <1>1, <2>1, <2>2 DEF Boxes, Whole, Gone
  <2>3. CASE ~Gone /\ mailbox' = Append(mailbox, ended) /\ kept' = None
    <3>1. /\ Chunks(mailbox') = Chunks(mailbox)
          /\ \A i \in DOMAIN mailbox' :
               \/ i \in DOMAIN mailbox /\ mailbox'[i] = mailbox[i]
               \/ i = Len(mailbox') /\ mailbox'[i] = ended
      BY <1>0, <1>1, <2>3, AppendEffect DEF Items, Terminals
    <3>2. \A i \in DOMAIN mailbox' : mailbox'[i] \in Terminals => i = Len(mailbox')
      BY <2>1, <3>1
    <3> QED
      BY <1>1, <2>1, <2>3, <3>1, <3>2 DEF Boxes, Whole, Gone, Terminals
  <2>4. CASE kept' = "failed" /\ UNCHANGED mailbox
    BY <1>1, <2>1, <2>4 DEF Boxes, Whole, Gone, Terminals
  <2> QED
    BY <1>4, <2>2, <2>3, <2>4 DEF SendTerminal
<1>5. Promise
  BY <1>1 DEF Promise, Proven, Facts, Channel, Doubtful, Owned, Held, End
<1> QED
  BY <1>2, <1>3, <1>4, <1>5

\* The answer to "work".
LEMMA WorkAnswered ==
  ASSUME Typed, Streaming, NEW a \in Answers, AnswerStep("work", a)
  PROVE  Streaming' /\ Promise
<1> USE DEF Streaming, Calls
<1>0. BridgeTypeOK /\ Answer("work", a)
  BY DEF Typed, FamilyTypeOK, AnswerStep
<1>1. /\ UNCHANGED <<plan, connected, sent, ended, dispatch, at, term, replied, out, final, lost>>
      /\ phase["work"] = "open" /\ answer["work"] = None /\ reply["work"] = None
      /\ a # "result" /\ dispatch = "free"
      /\ UNCHANGED <<seen, kept, mailbox>> \/ Terminate("failed")
  BY <1>0 DEF Answer, Free, CanAnswer, peer, sink, consumer
<1>2. /\ answer'["work"] = a /\ reply'["work"] = Told("work", a)
      /\ phase'["work"] = AfterAnswer("work", a)
  BY <1>0 DEF Answer, BridgeTypeOK
<1>3. /\ Unknown(a) => fate'["work"] \in {"named", "anonymous"} /\ Told("work", a) = fate'["work"]
      /\ ~Unknown(a) => fate'["work"] = fate["work"]
      /\ fate["work"] # None => fate'["work"] # None
  BY <1>0, <1>1, ObserveKeeps DEF Answer, Observe, Observed, Told, BridgeTypeOK
<1>4. Told("work", a) # None
  BY <1>3 DEF Told
<1>5. /\ Facts(a, ended) => phase'["work"] \in {"closed", "committed"}
      /\ phase'["work"] \in {"open", "returned", "closed", "committed"}
      /\ phase'["work"] = "committed" => a \in {"error", "gone"} \/ Facts(a, ended)
      /\ phase'["work"] = "closed" => Facts(a, ended)
      /\ phase'["work"] = "returned" => Channel
      /\ Channel /\ phase'["work"] = "open" => fate'["work"] # None
  BY <1>1, <1>2 DEF AfterAnswer, ClosedBy, Definite
<1>6. phase'["work"] = "open" /\ Told("work", a) = "error" => fate'["work"] # None
  <2>1. CASE Channel
    BY <1>5, <2>1
  <2>2. CASE ~Channel
    BY <1>1, <1>2, <1>3, <2>2 DEF Told, AfterAnswer, ClosedBy, Definite, Unknown, Answers
  <2> QED
    BY <2>1, <2>2
<1>7. OnceCalls' /\ Idle'
  BY <1>1, <1>5 DEF OnceCalls, Idle
<1>8. Proofs'
  <2>1. Facts(answer'["work"], ended') => phase'["work"] \in {"committed", "closed"}
    BY <1>1, <1>2, <1>5
  <2>2. phase'["work"] = "committed" => Proven'
    BY <1>1, <1>2, <1>5 DEF Proven
  <2>3. phase'["work"] = "open" /\ reply'["work"] = "error" => fate'["work"] # None
    BY <1>2, <1>6
  <2>4. Channel' /\ phase'["work"] = "open" /\ reply'["work"] # None => fate'["work"] # None
    BY <1>1, <1>5 DEF Channel
  <2>5. replied' => reply'["work"] # None
    BY <1>2, <1>4
  <2>6. at # "final"
    BY <1>1 DEF Proofs, MayEnd
  <2> QED
    BY <1>1, <2>1, <2>2, <2>3, <2>4, <2>5, <2>6 DEF Proofs
<1>9. Boxes'
  <2>1. CASE UNCHANGED <<seen, kept, mailbox>>
    BY <1>1, <2>1 DEF Boxes, Whole, Gone
  <2> QED
    BY <1>1, <2>1, TerminateKeepsBoxes
<1>10. Promise
  <2>1. Proven => Proven'
    BY <1>1 DEF Proven, Facts, Answered
  <2>2. Doubtful => Doubtful'
    BY <1>1, <1>3 DEF Doubtful, Channel
  <2>3. \/ Owned' = Owned
        \/ Owned = "held" /\ Owned' = "free" /\ (Proven' \/ ~connected')
    BY <1>1, <1>2, <1>5 DEF Owned, Held, Proven, Channel, OnceCalls, Answers
  <2>4. End' = End
    BY <1>1 DEF End
  <2> QED
    BY <1>1, <2>1, <2>2, <2>3, <2>4, PromiseOfCall
<1> QED
  BY <1>7, <1>8, <1>9, <1>10

\* Its loss, and the second half of its closure.
LEMMA WorkLost ==
  ASSUME Typed, Streaming, LoseStep("work")
  PROVE  Streaming' /\ Promise
<1> USE DEF Streaming, Calls
<1>0. BridgeTypeOK /\ Lose("work")
  BY DEF Typed, FamilyTypeOK, LoseStep
<1>1. /\ UNCHANGED <<plan, connected, answer, sent, ended, dispatch, seen, kept, mailbox, at, term,
                     replied, out, final, lost>>
      /\ phase["work"] = "open" /\ ~connected
  BY <1>0 DEF Lose, peer, sink, consumer
<1>2. /\ reply'["work"] # None
      /\ reply["work"] # None => reply'["work"] = reply["work"]
      /\ reply["work"] = None => reply'["work"] \in {"gone", "lost"}
      /\ fate["work"] # None => fate'["work"] # None
      /\ phase'["work"] = IF Channel /\ fate["work"] = None THEN "returned" ELSE "open"
  BY <1>0, <1>1, ObserveKeeps DEF Lose, BridgeTypeOK, Answers
<1>3. ~Channel => fate'["work"] # None
  BY <1>0, <1>1 DEF Lose, Observe, Observed, BridgeTypeOK
<1>4. OnceCalls' /\ Idle'
  BY <1>1, <1>2 DEF OnceCalls, Idle
<1>5. Proofs'
  BY <1>1, <1>2, <1>3 DEF Proofs, Proven, Facts, Channel, MayEnd
<1>6. Boxes'
  BY <1>1 DEF Boxes, Whole, Gone
<1>7. Promise
  BY <1>1, <1>2 DEF Promise, Proven, Facts, Channel, Doubtful, Owned, Held, End, OnceCalls
<1> QED
  BY <1>4, <1>5, <1>6, <1>7

LEMMA WorkReleased ==
  ASSUME Typed, Streaming, ReleaseStep("work")
  PROVE  Streaming' /\ Promise
<1> USE DEF Streaming, Calls
<1>1. /\ UNCHANGED <<plan, connected, answer, reply, fate, sent, ended, dispatch, seen, kept,
                     mailbox, at, term, replied, out, final, lost>>
      /\ phase["work"] = "committed" /\ phase'["work"] = "closed"
  BY DEF Typed, FamilyTypeOK, BridgeTypeOK, ReleaseStep, Release, peer, sink, consumer
<1>2. OnceCalls' /\ Idle'
  BY <1>1 DEF OnceCalls, Idle
<1>3. Proofs'
  BY <1>1 DEF Proofs, Proven, Facts, Channel, MayEnd
<1>4. Boxes'
  BY <1>1 DEF Boxes, Whole, Gone
<1>5. Promise
  BY <1>1 DEF Promise, Proofs, Proven, Facts, Channel, Doubtful, Owned, Held, End, OnceCalls
<1> QED
  BY <1>2, <1>3, <1>4, <1>5

\* The future of a call without an owner.
LEMMA BareSteps ==
  ASSUME Typed, Streaming, BareStep \/ BareDrop
  PROVE  Streaming' /\ Promise
<1> USE DEF Streaming, Calls
<1>0. BridgeTypeOK
  BY DEF Typed, FamilyTypeOK
<1>1. /\ UNCHANGED <<plan, connected, reply, sent, ended, dispatch, seen, kept, mailbox, term,
                     replied, out, lost>>
      /\ at \in {"wait", "hidden"} /\ plan = "once"
  BY DEF BareStep, BareDrop, BareAnswered, BareInterrupted, BareDropped, BareRest, Bare, peer, sink,
     OnceCalls
<1>2. /\ at' \in {"hidden", "end", "dropped"}
      /\ phase'["work"] \in {"bare", "closed"}
      /\ answer["work"] # None => answer'["work"] = answer["work"]
      /\ fate["work"] # None => fate'["work"] # None
  <2>1. ASSUME NEW a \in Answers, BareAnswered(a)
        PROVE  /\ at' \in {"hidden", "end", "dropped"}
               /\ phase'["work"] \in {"bare", "closed"}
               /\ answer["work"] # None => answer'["work"] = answer["work"]
               /\ fate["work"] # None => fate'["work"] # None
    <3>1. /\ at' \in {"hidden", "end"} /\ phase'["work"] \in {"bare", "closed"}
          /\ answer["work"] = None
      BY <1>0, <2>1 DEF BareAnswered, Bare, GivesBack, KeepsLease, BridgeTypeOK, OnceCalls
    <3>2. fate["work"] # None => fate'["work"] # None
      BY <1>0, <2>1, ObserveKeeps DEF BareAnswered
    <3> QED
      BY <3>1, <3>2
  <2>2. CASE BareInterrupted
    BY <1>0, <2>2 DEF BareInterrupted, Bare, GivesBack, BridgeTypeOK
  <2>3. CASE BareDropped
    BY <1>0, <1>1, <2>3 DEF BareDropped, GivesBack, KeepsLease, BridgeTypeOK, OnceCalls
  <2> QED
    BY <2>1, <2>2, <2>3 DEF BareStep, BareDrop
<1>3. OnceCalls' /\ Idle'
  BY <1>1, <1>2 DEF OnceCalls, Idle
<1>4. Proofs'
  BY <1>1, <1>2 DEF Proofs, Proven, Facts, Channel, MayEnd, OnceCalls
<1>5. Boxes'
  BY <1>1, <1>2 DEF Boxes, Whole, Gone
<1>6. Promise
  BY <1>1, <1>2 DEF Promise, Proven, Facts, Answered, Channel, Doubtful, Owned, Held, End, OnceCalls
<1> QED
  BY <1>3, <1>4, <1>5, <1>6

\* The call is made, or refused.
LEMMA WorkIsMade ==
  ASSUME Typed, Streaming, Work
  PROVE  Streaming' /\ Promise
<1> USE DEF Streaming, Calls
<1>0. BridgeTypeOK
  BY DEF Typed, FamilyTypeOK
<1>1. /\ UNCHANGED <<plan, connected, sent, ended, dispatch, seen, kept, mailbox, term, replied,
                     out, final, lost>>
      /\ plan = "factory" /\ phase["work"] = "idle" /\ at = "none"
      /\ answer["work"] = None /\ reply["work"] = None /\ fate["work"] = None
      /\ ended = None /\ final = None
  BY DEF Work, peer, sink, Idle
<1>2. /\ answer'["work"] = None /\ reply'["work"] = None /\ fate'["work"] = None
      /\ \/ phase'["work"] = "open" /\ at' = "poll"
         \/ phase'["work"] = "idle" /\ at' = "end"
  BY <1>0, <1>1 DEF Work, Submit, calls, BridgeTypeOK
<1>3. OnceCalls' /\ Idle'
  BY <1>1, <1>2 DEF OnceCalls, Idle
<1>4. Proofs'
  BY <1>1, <1>2 DEF Proofs, Proven, Facts, Answered, Channel, MayEnd
<1>5. Boxes'
  BY <1>1, <1>2 DEF Boxes, Whole, Gone
<1>6. Promise
  BY <1>1, <1>2 DEF Promise, Proven, Facts, Answered, Channel, Doubtful, Owned, Held, End
<1> QED
  BY <1>3, <1>4, <1>5, <1>6

\* The consumer of the stream.
LEMMA ConsumerFrame ==
  ASSUME Typed, Streaming,
         \/ TakeRefusal \/ TakeEvent \/ TakeReply \/ Finish \/ YieldFinal \/ FindEmpty
         \/ TakeTerminal \/ DropStream
  PROVE  /\ UNCHANGED <<plan, connected, phase, answer, reply, sent, ended, dispatch, seen>>
         /\ at \in {"poll", "take", "final"} /\ plan # "once" /\ phase["work"] \notin {"idle", "bare"}
         /\ fate["work"] # None => fate'["work"] # None
<1>0. BridgeTypeOK
  BY DEF Typed, FamilyTypeOK
<1>1. /\ UNCHANGED <<plan, connected, phase, answer, reply, sent, ended, dispatch, seen>>
      /\ at \in {"poll", "take", "final"}
  BY DEF TakeRefusal, TakeEvent, TakeReply, Finish, YieldFinal, FindEmpty, TakeTerminal, DropStream,
         Consuming, Polling, peer
<1>2. fate["work"] # None => fate'["work"] # None
  BY <1>0, ObserveKeeps DEF TakeRefusal, TakeEvent, TakeReply, Finish, YieldFinal, FindEmpty,
     TakeTerminal, DropStream, Answers
<1> QED
  BY <1>1, <1>2 DEF Streaming, OnceCalls, Idle

\* It goes on, or leaves with an error, or at its end.
LEMMA ConsumerKeeps ==
  ASSUME Typed, Streaming,
         UNCHANGED <<plan, connected, phase, answer, reply, sent, ended, dispatch, seen>>,
         at \in {"poll", "take", "final"}, plan # "once", phase["work"] \notin {"idle", "bare"},
         fate["work"] # None => fate'["work"] # None,
         at' \in {"poll", "take", "final", "end", "dropped"},
         replied' => reply["work"] # None,
         at' = "final" => MayEnd'
  PROVE  OnceCalls' /\ Idle' /\ Proofs'
<1>1. OnceCalls' /\ Idle'
  BY DEF Streaming, OnceCalls, Idle
<1> QED
  BY <1>1 DEF Streaming, Proofs, Proven, Facts, Channel

LEMMA ConsumerPromise ==
  ASSUME UNCHANGED <<plan, connected, phase, answer, reply, sent, ended>>,
         fate["work"] # None => fate'["work"] # None,
         at \in {"poll", "take", "final"},
         lost > 0 => lost' > 0,
         out' = out \/ (out < sent /\ out' = out + 1),
         \/ at' \in {"poll", "take", "final", "dropped"}
         \/ /\ Owned # "held" \/ Doubtful
            /\ final' = "complete" => out = sent \/ lost > 0
  PROVE  Promise
BY DEF Promise, Proven, Facts, Channel, Doubtful, Owned, Held, End

\* Who leaves has emptied the mailbox.
LEMMA LeaveBoxes ==
  ASSUME Typed, Boxes, Leave, UNCHANGED <<sent, ended, dispatch, seen, out, kept, lost>>, Gone'
  PROVE  Boxes'
<1>1. Chunks(mailbox) \in Nat /\ out \in Nat /\ sent \in Nat
  BY ChunksOfBox DEF Typed, FamilyTypeOK, BridgeTypeOK
<1>2. mailbox' = <<>> /\ Chunks(mailbox') = 0 /\ term' = None
  <2>1. mailbox' = <<>> /\ term' = None
    BY DEF Leave
  <2> QED
    BY <2>1, ChunksBounds
<1> QED
  BY <1>1, <1>2 DEF Boxes

LEMMA EventIsTaken ==
  ASSUME Typed, Boxes, TakeEvent
  PROVE  Boxes' /\ (out' = out \/ (out < sent /\ out' = out + 1))
<1> DEFINE what == Head(mailbox)
<1>0. BridgeTypeOK
  BY DEF Typed, FamilyTypeOK
<1>1. /\ UNCHANGED <<sent, ended, dispatch, seen, kept, lost>>
      /\ ~Gone /\ term = None /\ mailbox # <<>> /\ at' = "poll" /\ mailbox' = Tail(mailbox)
      /\ out' = IF what = "chunk" THEN out + 1 ELSE out
      /\ term' = IF what \in Terminals THEN what ELSE None
  BY DEF TakeEvent, Consuming, Polling, Gone, peer
<1>2. mailbox \in Seq(Items) /\ out \in Nat /\ sent \in Nat /\ lost \in Nat
  BY <1>0 DEF BridgeTypeOK, Items
<1>3. /\ DOMAIN mailbox = 1 .. Len(mailbox) /\ Len(mailbox) \in Nat \ {0} /\ what = mailbox[1]
      /\ Tail(mailbox) \in Seq(Items) /\ DOMAIN Tail(mailbox) = 1 .. Len(mailbox) - 1
      /\ Len(Tail(mailbox)) = Len(mailbox) - 1
      /\ \A i \in 1 .. Len(mailbox) - 1 : Tail(mailbox)[i] = mailbox[i + 1]
  BY <1>1, <1>2
<1>4. Chunks(mailbox) \in Nat /\ Chunks(Tail(mailbox)) \in Nat
  BY <1>2, <1>3, ChunksBounds
<1>5. Chunks(mailbox) = IF what = "chunk" THEN Chunks(Tail(mailbox)) + 1 ELSE Chunks(Tail(mailbox))
  BY <1>1, <1>2, ChunksTail
<1> HIDE DEF what
<1>6. lost = 0
  BY <1>1, <1>2 DEF Boxes
<1>7. out' + Chunks(mailbox') = out + Chunks(mailbox)
  BY <1>1, <1>2, <1>4, <1>5
<1>8. out + Chunks(mailbox) <= sent
  BY DEF Boxes
<1>9. out' = out \/ (out < sent /\ out' = out + 1)
  BY <1>1, <1>2, <1>4, <1>5, <1>8
<1>10. \A i \in DOMAIN mailbox' :
         mailbox'[i] \in Terminals => i = Len(mailbox') /\ seen' /\ dispatch' # "send"
  <2> SUFFICES ASSUME NEW i \in DOMAIN mailbox', mailbox'[i] \in Terminals
               PROVE  i = Len(mailbox') /\ seen' /\ dispatch' # "send"
    OBVIOUS
  <2>1. i \in Nat /\ i + 1 \in DOMAIN mailbox /\ mailbox[i + 1] \in Terminals
    BY <1>1, <1>3
  <2>2. i + 1 = Len(mailbox) /\ seen /\ dispatch # "send"
    BY <2>1 DEF Boxes
  <2> QED
    BY <1>1, <1>3, <2>1, <2>2
<1>11. (\E i \in DOMAIN mailbox' : mailbox'[i] = "complete") => Whole' /\ ended' # None
  <2> SUFFICES ASSUME NEW i \in DOMAIN mailbox', mailbox'[i] = "complete"
               PROVE  Whole' /\ ended' # None
    OBVIOUS
  <2>1. i + 1 \in DOMAIN mailbox /\ mailbox[i + 1] = "complete"
    BY <1>1, <1>3
  <2> QED
    BY <1>1, <1>7, <2>1 DEF Boxes, Whole
<1>12. term' = "complete" => Whole' /\ ended' # None /\ Chunks(mailbox') = 0
  <2> SUFFICES ASSUME term' = "complete"
               PROVE  Whole' /\ ended' # None /\ Chunks(mailbox') = 0
    OBVIOUS
  <2>1. what = "complete" /\ 1 \in DOMAIN mailbox /\ what \in Terminals
    BY <1>1, <1>3, BridgeAssumption DEF Terminals
  <2>2. Whole /\ ended # None /\ Len(mailbox) = 1
    BY <1>3, <2>1 DEF Boxes
  <2>3. mailbox' = <<>>
    BY <1>1, <1>3, <2>2
  <2> QED
    BY <1>1, <1>7, <2>2, <2>3, ChunksBounds DEF Whole
<1>13. Boxes'
  BY <1>1, <1>6, <1>7, <1>8, <1>10, <1>11, <1>12 DEF Boxes, Whole, Gone
<1> QED
  BY <1>9, <1>13

LEMMA ConsumerSteps ==
  ASSUME Typed, Streaming,
         \/ TakeRefusal \/ TakeEvent \/ TakeReply \/ Finish \/ YieldFinal \/ FindEmpty
         \/ TakeTerminal \/ DropStream
  PROVE  Streaming' /\ Promise
<1>0. BridgeTypeOK
  BY DEF Typed, FamilyTypeOK
<1>1. /\ UNCHANGED <<plan, connected, phase, answer, reply, sent, ended, dispatch, seen>>
      /\ at \in {"poll", "take", "final"} /\ plan # "once" /\ phase["work"] \notin {"idle", "bare"}
      /\ fate["work"] # None => fate'["work"] # None
  BY ConsumerFrame
<1>2. Boxes /\ Proofs
  BY DEF Streaming
<1>3. CASE TakeRefusal
  <2>1. /\ UNCHANGED <<kept, mailbox, term, replied, out, final, lost>> /\ at' = "poll" /\ ~Gone
    BY <1>3 DEF TakeRefusal, Polling, Gone
  <2>2. Boxes'
    BY <1>1, <1>2, <2>1, BoxesKept
  <2>3. OnceCalls' /\ Idle' /\ Proofs'
    BY <1>1, <1>2, <2>1, ConsumerKeeps DEF Proofs
  <2>4. Promise
    BY <1>1, <2>1, ConsumerPromise
  <2> QED
    BY <2>2, <2>3, <2>4 DEF Streaming
<1>4. CASE TakeEvent
  <2>1. UNCHANGED <<replied, lost>> /\ at' = "poll"
    BY <1>4 DEF TakeEvent
  <2>2. Boxes' /\ (out' = out \/ (out < sent /\ out' = out + 1))
    BY <1>2, <1>4, EventIsTaken
  <2>3. OnceCalls' /\ Idle' /\ Proofs'
    BY <1>1, <1>2, <2>1, ConsumerKeeps DEF Proofs
  <2>4. Promise
    BY <1>1, <2>1, <2>2, ConsumerPromise
  <2> QED
    BY <2>2, <2>3, <2>4 DEF Streaming
<1>5. CASE TakeReply
  <2>1. /\ UNCHANGED <<kept, out, lost>> /\ ~Gone /\ reply["work"] # None
        /\ phase["work"] # "committed"
    BY <1>5 DEF TakeReply, HasReply, Polling, Gone
  <2>2. CASE reply["work"] = "error"
    <3>1. at' = "end" /\ final' = "error" /\ Leave /\ fate' = fate /\ ~replied'
      BY <1>5, <2>2 DEF TakeReply, Leave
    <3>2. Boxes'
      BY <1>1, <1>2, <2>1, <3>1, LeaveBoxes DEF Gone
    <3>3. OnceCalls' /\ Idle' /\ Proofs'
      BY <1>1, <3>1, ConsumerKeeps
    <3>4. Owned # "held" \/ Doubtful
      BY <1>0, <1>1, <1>2, <2>1, <2>2 DEF Owned, Held, Doubtful, Proofs
    <3>5. Promise
      BY <1>1, <2>1, <3>1, <3>4, ConsumerPromise
    <3> QED
      BY <3>2, <3>3, <3>5 DEF Streaming
  <2>3. CASE reply["work"] # "error"
    <3>1. at' = "poll" /\ UNCHANGED <<mailbox, term, final>>
      BY <1>5, <2>3 DEF TakeReply
    <3>2. Boxes'
      BY <1>1, <1>2, <2>1, <3>1, BoxesKept
    <3>3. OnceCalls' /\ Idle' /\ Proofs'
      BY <1>1, <2>1, <3>1, ConsumerKeeps
    <3>4. Promise
      BY <1>1, <2>1, <3>1, ConsumerPromise
    <3> QED
      BY <3>2, <3>3, <3>4 DEF Streaming
  <2> QED
    BY <2>2, <2>3
<1>6. CASE Finish
  <2>1. /\ UNCHANGED <<kept, mailbox, term, replied, out, final, lost>> /\ at' = "final" /\ ~Gone
        /\ MayEnd
    BY <1>6 DEF Finish, Polling, Gone
  <2>2. Boxes'
    BY <1>1, <1>2, <2>1, BoxesKept
  <2>3. MayEnd'
    BY <1>1, <2>1 DEF MayEnd, Facts, Channel
  <2>4. OnceCalls' /\ Idle' /\ Proofs'
    BY <1>1, <1>2, <2>1, <2>3, ConsumerKeeps DEF Proofs
  <2>5. Promise
    BY <1>1, <2>1, ConsumerPromise
  <2> QED
    BY <2>2, <2>4, <2>5 DEF Streaming
<1>7. CASE YieldFinal
  <2>1. /\ UNCHANGED <<kept, out, lost>> /\ at' = "end" /\ Leave /\ ~replied'
        /\ MayEnd /\ phase["work"] # "committed"
        /\ final' \in {"stop", term}
    BY <1>2, <1>7 DEF YieldFinal, Leave, Proofs
  <2>2. Boxes'
    BY <1>1, <1>2, <2>1, LeaveBoxes DEF Gone
  <2>3. OnceCalls' /\ Idle' /\ Proofs'
    BY <1>1, <2>1, ConsumerKeeps
  <2>4. Owned # "held" \/ Doubtful
    BY <1>1, <1>2, <2>1 DEF Owned, Held, Doubtful, Proofs, MayEnd
  <2>5. final' = "complete" => out = sent \/ lost > 0
    BY <1>0, <1>2, <2>1, ChunksOfBox DEF Boxes, Whole, BridgeTypeOK
  <2>6. Promise
    BY <1>1, <2>1, <2>4, <2>5, ConsumerPromise
  <2> QED
    BY <2>2, <2>3, <2>6 DEF Streaming
<1>8. CASE FindEmpty
  <2>1. /\ UNCHANGED <<kept, mailbox, term, replied, out, final, lost>> /\ at' = "take"
        /\ term = None /\ ~Gone
    BY <1>8 DEF FindEmpty, Gone
  <2>2. Boxes'
    BY <1>1, <1>2, <2>1, BoxesKept
  <2>3. OnceCalls' /\ Idle' /\ Proofs'
    BY <1>1, <1>2, <2>1, ConsumerKeeps DEF Proofs
  <2>4. Promise
    BY <1>1, <2>1, ConsumerPromise
  <2> QED
    BY <2>2, <2>3, <2>4 DEF Streaming
<1>9. CASE TakeTerminal
  <2>1. /\ UNCHANGED <<mailbox, replied, out, final>> /\ at = "take" /\ at' = "poll" /\ ~Gone
        /\ term' = kept /\ kept # None /\ kept' = None /\ lost' = Chunks(mailbox)
    BY <1>9 DEF TakeTerminal, Gone
  <2>2. ~(lost > 0) /\ Chunks(mailbox) \in Nat
    BY <1>0, <1>2, <2>1, ChunksOfBox DEF Boxes
  <2>3. kept = "complete" => Whole /\ ended # None
    <3>1. Sending
      BY DEF Typed
    <3> QED
      BY <1>2, <2>1, <3>1 DEF Boxes, Sending, Terminals
  <2>4. Boxes'
    BY <1>1, <1>2, <2>1, <2>2, <2>3 DEF Boxes, Whole, Gone
  <2>5. OnceCalls' /\ Idle' /\ Proofs'
    BY <1>1, <1>2, <2>1, ConsumerKeeps DEF Proofs
  <2>6. Promise
    BY <1>1, <2>1, <2>2, ConsumerPromise
  <2> QED
    BY <2>4, <2>5, <2>6 DEF Streaming
<1>10. CASE DropStream
  <2>1. UNCHANGED <<kept, out, final, lost>> /\ at' = "dropped" /\ Leave /\ ~replied'
    BY <1>10 DEF DropStream, Leave
  <2>2. Boxes'
    BY <1>1, <1>2, <2>1, LeaveBoxes DEF Gone
  <2>3. OnceCalls' /\ Idle' /\ Proofs'
    BY <1>1, <2>1, ConsumerKeeps
  <2>4. Promise
    BY <1>1, <2>1, ConsumerPromise
  <2> QED
    BY <2>2, <2>3, <2>4 DEF Streaming
<1> QED
  BY <1>3, <1>4, <1>5, <1>6, <1>7, <1>8, <1>9, <1>10

LEMMA StreamStep ==
  ASSUME Typed, Streaming, Next
  PROVE  Streaming' /\ Promise
<1>1. CASE PeerStep
  <2>1. CASE PeerChunk \/ PeerHint \/ PeerBad \/ PeerEnds \/ AdmitTerminal \/ SendTerminal
    BY <2>1, PeerItems, PeerFaults, PeerTerminal, HandlerSteps
  <2>2. CASE Cancel \/ Watch("work") \/ Watch("create") \/ Watch("close")
    BY <2>2, AsideCalls, AsideKeeps DEF Calls
  <2> QED
    BY <1>1, <2>1, <2>2 DEF PeerStep
<1>2. ASSUME NEW c \in Calls, LoseStep(c) \/ ReleaseStep(c) \/ \E a \in Answers : AnswerStep(c, a)
      PROVE  Streaming' /\ Promise
  <2>1. CASE c = "work"
    BY <1>2, <2>1, WorkLost, WorkReleased, WorkAnswered
  <2>2. CASE c \in {"create", "close"}
    BY <1>2, <2>2, AsideCalls, AsideKeeps
  <2> QED
    BY <2>1, <2>2 DEF Calls
<1>3. CASE DisconnectStep
  BY <1>3, AsideCalls, AsideKeeps
<1>4. CASE ConsumerStep \/ DropWorkStream
  BY <1>4, ConsumerSteps DEF ConsumerStep, DropWorkStream
<1>5. CASE BareStep \/ BareDrop
  BY <1>5, BareSteps
<1>6. CASE Work
  BY <1>6, WorkIsMade
<1>7. CASE \/ Reserve \/ Create \/ Created \/ Commit \/ DropCreator \/ DropProxy \/ DropClose
           \/ \E k \in Closers : Start(k) \/ Look(k) \/ Once(k) \/ Acknowledged(k) \/ Sent(k)
           \/ DirectClose \/ DirectClosed
           \/ DropLease \/ CleanupTries \/ CleanupAnswered \/ CleanupRetries
           \/ UnregisterParent \/ UnregisterChild \/ TearDown
  BY <1>7, AsideFamily, AsideKeeps
<1> QED
  BY <1>1, <1>2, <1>3, <1>4, <1>5, <1>6, <1>7 DEF Next

\* AgentClose is sent by who holds the lease, for a child nobody else is at.
LEMMA CloseIsOwed ==
  ASSUME Typed, Family, Next, closes' # closes
  PROVE  ~peerClosed /\ ~Held("work") /\ ~Held("create")
<1> USE DEF Family
<1>1. ASSUME NEW k \in Closers, Start(k) \/ Look(k) \/ Once(k) \/ Acknowledged(k) \/ Sent(k)
      PROVE  ~peerClosed /\ ~Held("work") /\ ~Held("create")
  <2>1. Acknowledged(k) /\ ~acked /\ Admits("close")
    BY <1>1 DEF Start, Look, Once, Acknowledged, Sent, closing
  <2>2. /\ cl[k] \in Active /\ cl[k] = "ack" /\ lease = "live"
        /\ ~(source /\ phase["close"] \in {"open", "committed"})
    BY <2>1, CloserHoldsLease DEF Acknowledged, ClosersStand, Active
  <2>3. ~peerClosed
    BY <2>1, <2>2 DEF PeerHasClosed, Leases, Admits
  <2>4. creator = "close" \/ wrapper \/ proxy = "held"
    BY <2>2 DEF ClosersStand, Closers
  <2>5. ~Held("create")
    BY <2>4 DEF Construction, Kinds
  <2> QED
    BY <2>1, <2>3, <2>5 DEF Admits
<1>2. ASSUME DirectClose \/ DirectClosed
      PROVE  ~peerClosed /\ ~Held("work") /\ ~Held("create")
  <2>1. lease = "none" /\ Admits("close")
    BY <1>2 DEF DirectClose, DirectClosed, closing
  <2> QED
    BY <2>1 DEF Kinds, Held, Admits
<1>3. ASSUME CleanupTries
      PROVE  ~peerClosed /\ ~Held("work") /\ ~Held("create")
  <2>1. cleanup = "try" /\ lease = "dropped" /\ ~Owners /\ Admits("close")
    BY <1>3 DEF CleanupTries, Leases
  <2> QED
    BY <2>1 DEF PeerHasClosed, Construction, Owners, Leases, Admits, Calls
<1>4. ~(\E c \in Calls : LoseStep(c) \/ ReleaseStep(c) \/ \E a \in Answers : AnswerStep(c, a))
  BY DEF LoseStep, ReleaseStep, AnswerStep, FamilyKept, closing
<1>5. ~(PeerStep \/ DisconnectStep \/ ConsumerStep \/ DropWorkStream \/ BareStep \/ BareDrop \/ Work)
  BY DEF PeerStep, DisconnectStep, ConsumerStep, DropWorkStream, BareStep, BareDrop, Work, FamilyKept,
         closing, family
<1>6. ~(Reserve \/ Create \/ Created \/ Commit \/ DropCreator \/ DropProxy \/ DropClose)
  BY DEF Reserve, Create, Created, Commit, DropCreator, DropProxy, DropClose, Creating, closing
<1>7. ~(DropLease \/ CleanupAnswered \/ CleanupRetries \/ UnregisterParent \/ UnregisterChild \/ TearDown)
  BY DEF DropLease, CleanupAnswered, CleanupRetries, UnregisterParent, UnregisterChild, TearDown,
         closing
<1> QED
  BY <1>1, <1>2, <1>3, <1>4, <1>5, <1>6, <1>7 DEF Next

\* The inductive invariant of a callback and its family.
ChildInv == Typed /\ Family /\ Streaming

LEMMA ChildInvHolds == Spec => []ChildInv
<1>1. Init => ChildInv
  BY TypedInit, FamilyInit, StreamInit DEF ChildInv
<1>2. ChildInv /\ [Next]_vars => ChildInv'
  <2> SUFFICES ASSUME ChildInv, [Next]_vars
               PROVE  ChildInv'
    OBVIOUS
  <2> USE DEF ChildInv
  <2>1. Typed'
    BY TypedStep
  <2>2. CASE Next
    BY <2>1, <2>2, FamilyStep, StreamStep DEF Streaming
  <2>3. CASE UNCHANGED vars
    <3>1. UNCHANGED <<bridge, registry, creator, ownership, closing, torn>>
      BY <2>3 DEF vars, family
    <3> USE DEF bridge, calls, peer, sink, consumer, registry, ownership, closing
    <3>2. Family'
      BY <3>1 DEF Family, Kinds, Registration, Registered, Leases, Owners, ClosersStand, Replies,
         Construction, Held, PeerHasClosed
    <3>3. Streaming'
      BY <3>1, AsideKeeps, BridgeKeptIsAside
    <3> QED
      BY <2>1, <3>2, <3>3
  <2> QED
    BY <2>2, <2>3
<1> QED
  BY <1>1, <1>2, PTL DEF Spec

\* A registered child of a factory has its factory and someone who answers for
\* it, and its peer is asked to close once, after constructor and stream, and
\* never again after it has acknowledged.
THEOREM ChildOwned == Spec => ChildIsOwned
<1> DEFINE Attended == Registered /\ plan = "factory" /\ connected =>
                          /\ parent = "open"
                          /\ lease = "live" \/ cleanup \in {"try", "sent", "backoff"}
           Closed == closes' # closes => ~peerClosed /\ ~Held("work") /\ ~Held("create")
<1>1. ChildInv => Attended
  <2> SUFFICES ASSUME ChildInv, Registered, plan = "factory", connected
               PROVE  parent = "open" /\ (lease = "live" \/ cleanup \in {"try", "sent", "backoff"})
    OBVIOUS
  <2> QED
    BY DEF ChildInv, Typed, FamilyTypeOK, Family, Kinds, Registration, Leases, Registered
<1>2. ChildInv /\ [Next]_vars => [Closed]_vars
  BY CloseIsOwed DEF ChildInv
<1> QED
  BY <1>1, <1>2, ChildInvHolds, PTL DEF Spec, ChildIsOwned

\* A streaming callback keeps the promise of its contract: every step of the
\* bridge is a step of CallbackContract or leaves what the contract sees alone.
THEOREM ContractKept == Spec => ImplementsContract
<1>1. Init => Contract!Init
  BY StreamInit
<1>2. ChildInv /\ [Next]_vars => [Contract!Next]_Contract!vars
  <2>1. ASSUME ChildInv, Next
        PROVE  Contract!Next
    BY <2>1, StreamStep, PromiseImplements DEF ChildInv
  <2>2. UNCHANGED vars => UNCHANGED Contract!vars
    BY DEF vars, bridge, calls, peer, consumer, Contract!vars, Facts, Channel, Held
  <2> QED
    BY <2>1, <2>2
<1> QED
  BY <1>1, <1>2, ChildInvHolds, PTL DEF Spec, ImplementsContract, Contract!Spec
=============================================================================
