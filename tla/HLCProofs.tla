----------------------------- MODULE HLCProofs -----------------------------
(***************************************************************************)
(* The clocks of HLC, for any nodes, threads and limits: types, the lock,  *)
(* what readers see, the refinement of StampClock and what a merge leaves. *)
(***************************************************************************)
EXTENDS HLC, TLAPS

Inside == {"locked", "nanos", "logical"}

LocksAreLocal == \A n \in Nodes : lock[n] # NoOwner => NodeOf[lock[n]] = n

(* What a thread that is inside a call has found and will write.           *)
Working(t) ==
    LET s == thread[t]
        c == clock[NodeOf[t]]
    IN  /\ s.at \in {"locked", "nanos"} => s.start = c
        /\ s.at = "logical" => c.nanos = s.next.nanos
        /\ s.at \in {"nanos", "logical"} =>
             /\ Later(s.next, s.start)
             /\ s.message # None => Later(s.next, Received(s.message))

(* What is read from a message, next to what its sender had read.          *)
Truthful(m) ==
    IF m.form = "text" THEN Received(m) = m.sent
    ELSE m.sent.nanos <= Limit - Milli => Received(m).nanos >= m.sent.nanos - Slack

Delivered(t) == thread[t].at \in Inside /\ thread[t].message # None => Truthful(thread[t].message)

Inv ==
    /\ TypeOK
    /\ HeldFromInside
    /\ LocksAreLocal
    /\ NanosWereReached
    /\ \A t \in Threads : Working(t)
    /\ \A m \in wire : Truthful(m)
    /\ \A t \in Threads : Delivered(t)

-----------------------------------------------------------------------------
(* Numbers.                                                                *)

LEMMA ProductIsNatural ==
    ASSUME NEW x \in Nat, NEW y \in Nat
    PROVE  x * y \in Nat
  OBVIOUS

LEMMA Divided ==
    ASSUME NEW x \in Nat, NEW d \in Nat \ {0}
    PROVE  /\ x \div d \in Nat
           /\ x % d \in 0..(d - 1)
           /\ (x \div d) * d + (x % d) = x
  OBVIOUS

LEMMA SmallIsItsRemainder ==
    ASSUME NEW d \in Nat \ {0}, NEW x \in 0..(d - 1)
    PROVE  x % d = x
  OBVIOUS

LEMMA FewerFactors ==
    ASSUME NEW x \in Nat, NEW y \in Nat, NEW d \in Nat \ {0}, x * d < y * d
    PROVE  x < y
  OBVIOUS

LEMMA ProductIsPositive ==
    ASSUME NEW x \in Nat \ {0}, NEW y \in Nat \ {0}
    PROVE  x * y \in Nat \ {0}
  OBVIOUS

LEMMA LimitType == Limit \in Nat \ {0}
  BY HLCAssumption, ProductIsPositive DEF Limit

LEMMA OneMore ==
    ASSUME NEW x \in Nat, NEW d \in Nat
    PROVE  (x + 1) * d = x * d + d
  OBVIOUS

LEMMA NoneIsNoMessage == None \notin Messages
  BY DEF None, Messages, Text, Bytes

(* The three kinds of thread, told apart by where they are.                *)
LEMMA Kinds ==
    ASSUME TypeOK, NEW t \in Threads
    PROVE  /\ thread[t].at \in Inside <=> thread[t] \in Busy
           /\ thread[t].at = "read" <=> thread[t] \in Reading
           /\ thread[t].at = "idle" <=> thread[t] = Idle
           /\ thread[t].at \in Inside \cup {"read", "idle"}
  BY DEF TypeOK, Busy, Reading, Idle, Inside

LEMMA ReceivedType ==
    ASSUME NEW m \in Messages
    PROVE  Received(m) \in [nanos : Nat, logical : 0..(MaxLogical - 1)]
<1>1. CASE m \in Text
  <2>1. m.seconds * Second \in Nat
    BY <1>1, HLCAssumption, ProductIsNatural DEF Text
  <2> QED  BY <1>1, <2>1, HLCAssumption DEF Text, Received
<1>2. CASE m \in Bytes
  <2>1. m.millis % MaxMillis \in Nat
    <3>1. m.millis \in Nat /\ MaxMillis \in Nat \ {0}
      BY <1>2, HLCAssumption DEF Bytes
    <3>2. m.millis % MaxMillis \in 0..(MaxMillis - 1)
      BY <3>1, Divided
    <3> QED  BY <3>1, <3>2
  <2>2. (m.millis % MaxMillis) * Milli \in Nat
    BY <2>1, HLCAssumption, ProductIsNatural
  <2> QED  BY <1>2, <2>2, HLCAssumption DEF Bytes, Received
<1> QED  BY <1>1, <1>2 DEF Messages

-----------------------------------------------------------------------------
(* The messages that a reader may send.                                    *)

LEMMA TextIsTruthful ==
    ASSUME NEW s \in Stamp
    PROVE  ToText(s) \in Messages /\ Truthful(ToText(s))
<1>1. s.nanos \in Nat /\ s.logical \in 0..(MaxLogical - 1)
  BY LimitType DEF Stamp
<1>2. /\ s.nanos \div Second \in Nat
      /\ s.nanos % Second \in 0..(Second - 1)
      /\ (s.nanos \div Second) * Second + (s.nanos % Second) = s.nanos
  BY <1>1, HLCAssumption, Divided
<1>3. Received(ToText(s)) = [nanos |-> s.nanos, logical |-> s.logical]
  BY <1>2 DEF Received, ToText
<1>4. s = [nanos |-> s.nanos, logical |-> s.logical]
  BY DEF Stamp
<1> QED  BY <1>1, <1>2, <1>3, <1>4 DEF ToText, Messages, Text, Truthful

(* The bytes of a time stamp lose at most Slack nanoseconds, unless it     *)
(* lies in the last millisecond.                                           *)
LEMMA BytesAreTruthful ==
    ASSUME NEW s \in Stamp, NEW m \in ToBytes(s)
    PROVE  m \in Messages /\ Truthful(m)
<1>1. s.nanos \in Nat /\ s.nanos < Limit /\ s.logical \in 0..(MaxLogical - 1)
  BY LimitType DEF Stamp
<1> DEFINE k == m.millis
<1>2. PICK j \in ToMillis(s.nanos) :
        m = [form |-> "bytes", millis |-> j, logical |-> s.logical, sent |-> s]
  BY DEF ToBytes
<1>3. k = j
  BY <1>2
<1>4. s.nanos \div Milli \in Nat
  BY <1>1, HLCAssumption, Divided
<1>5. k \in Nat /\ k * Milli >= s.nanos - Slack /\ k * Milli < s.nanos + Milli
  BY <1>3, <1>4 DEF ToMillis
<1>6. k * Milli \in Nat /\ MaxMillis * Milli \in Nat /\ (MaxMillis + 1) * Milli \in Nat
  BY <1>5, HLCAssumption, ProductIsNatural
<1>7. k * Milli < (MaxMillis + 1) * Milli
  BY <1>1, <1>5, <1>6, HLCAssumption, OneMore DEF Limit
<1>8. k < MaxMillis + 1
  BY <1>5, <1>7, HLCAssumption, FewerFactors
<1>9. m \in Bytes
  BY <1>1, <1>2, <1>3, <1>5, <1>8, HLCAssumption DEF Bytes
<1>10. ASSUME s.nanos <= Limit - Milli
       PROVE  Received(m).nanos >= s.nanos - Slack
  <2>1. k * Milli < MaxMillis * Milli
    BY <1>5, <1>6, <1>10, <1>1, HLCAssumption DEF Limit
  <2>2. k < MaxMillis
    BY <1>5, <2>1, HLCAssumption, FewerFactors
  <2>3. k % MaxMillis = k
    BY <1>5, <2>2, HLCAssumption, SmallIsItsRemainder
  <2> QED  BY <1>2, <1>5, <2>3 DEF Received
<1> QED  BY <1>2, <1>9, <1>10 DEF Messages, Truthful

-----------------------------------------------------------------------------
(* What sync() and merge() set is later than the clock, and than the       *)
(* message.                                                                *)

LEMMA SyncIsLater ==
    ASSUME NEW c \in Stamp, NEW wall \in Nat
    PROVE  /\ SyncTo(c, wall) \in [nanos : Nat, logical : Nat]
           /\ Later(SyncTo(c, wall), c)
  BY LimitType, HLCAssumption DEF Stamp, SyncTo, Later

LEMMA MergeIsLater ==
    ASSUME NEW c \in Stamp, NEW e \in [nanos : Nat, logical : 0..(MaxLogical - 1)],
           NEW wall \in Nat
    PROVE  /\ MergeTo(c, e, wall) \in [nanos : Nat, logical : Nat]
           /\ Later(MergeTo(c, e, wall), c)
           /\ Later(MergeTo(c, e, wall), e)
  BY LimitType, HLCAssumption DEF Stamp, MergeTo, Larger, Later

LEMMA FitsIsAStamp ==
    ASSUME NEW s \in [nanos : Nat, logical : Nat], Fits(s)
    PROVE  s \in Stamp
  BY LimitType, HLCAssumption DEF Fits, Stamp

LEMMA TargetIsLater ==
    ASSUME TypeOK, NEW t \in Threads, thread[t].at = "locked",
           NEW wall \in Walls, Fits(Target(t, wall))
    PROVE  /\ Target(t, wall) \in Stamp
           /\ Later(Target(t, wall), clock[NodeOf[t]])
           /\ thread[t].message # None => Later(Target(t, wall), Received(thread[t].message))
<1>1. clock[NodeOf[t]] \in Stamp /\ wall \in Nat
  BY HLCAssumption DEF TypeOK
<1>2. thread[t] \in Busy
  BY Kinds DEF Inside
<1>3. CASE thread[t].message = None
  <2>1. Target(t, wall) = SyncTo(clock[NodeOf[t]], wall)
    BY <1>3 DEF Target
  <2> QED  BY <1>1, <1>3, <2>1, SyncIsLater, FitsIsAStamp
<1>4. CASE thread[t].message \in Messages
  <2>1. Received(thread[t].message) \in [nanos : Nat, logical : 0..(MaxLogical - 1)]
    BY <1>4, ReceivedType
  <2>2. Target(t, wall) = MergeTo(clock[NodeOf[t]], Received(thread[t].message), wall)
    BY <1>4, NoneIsNoMessage DEF Target
  <2>3. /\ Target(t, wall) \in [nanos : Nat, logical : Nat]
        /\ Later(Target(t, wall), clock[NodeOf[t]])
        /\ Later(Target(t, wall), Received(thread[t].message))
    BY <1>1, <2>1, <2>2, MergeIsLater
  <2> QED  BY <2>3, FitsIsAStamp
<1> QED  BY <1>2, <1>3, <1>4 DEF Busy

-----------------------------------------------------------------------------
(* The steps.                                                              *)

LEMMA InitInv == Init => Inv
<1> SUFFICES ASSUME Init PROVE Inv
  OBVIOUS
<1>1. Zero \in Stamp
  BY LimitType, HLCAssumption DEF Zero, Stamp
<1>2. TypeOK
  BY <1>1 DEF Init, TypeOK
<1>3. \A t \in Threads : thread[t] = Idle /\ thread[t].at = "idle" /\ lock[NodeOf[t]] = NoOwner
  BY HLCAssumption DEF Init, Idle
<1>4. HeldFromInside /\ LocksAreLocal /\ NanosWereReached
  BY <1>3, HLCAssumption DEF Init, HeldFromInside, LocksAreLocal, NanosWereReached
<1>5. \A t \in Threads : Working(t) /\ Delivered(t)
  BY <1>3 DEF Working, Delivered, Inside
<1> QED  BY <1>2, <1>4, <1>5 DEF Init, Inv

LEMMA EnterInv ==
    ASSUME Inv, NEW t \in Threads, NEW m, m = None \/ m \in wire, Enter(t, m)
    PROVE  Inv'
<1> DEFINE state == [at |-> "locked", message |-> m, start |-> clock[NodeOf[t]], next |-> Zero]
<1>1. /\ NodeOf[t] \in Nodes /\ clock[NodeOf[t]] \in Stamp /\ Zero \in Stamp
      /\ m \in Messages \cup {None}
  BY LimitType, HLCAssumption DEF Inv, TypeOK, Zero, Stamp
<1>2. state \in Busy
  BY <1>1 DEF Busy
<1>3. /\ thread' = [thread EXCEPT ![t] = state] /\ clock' = clock /\ wire' = wire
      /\ thread[t] = Idle /\ lock[NodeOf[t]] = NoOwner
      /\ lock' = [lock EXCEPT ![NodeOf[t]] = t]
  BY DEF Enter, Goes
<1>4. thread'[t] = state /\ \A u \in Threads \ {t} : thread'[u] = thread[u]
  BY <1>3 DEF Inv, TypeOK
<1>5. TypeOK'
  BY <1>1, <1>2, <1>3 DEF Inv, TypeOK
<1>6. HeldFromInside'
  BY <1>1, <1>3, <1>4, HLCAssumption DEF Inv, TypeOK, HeldFromInside, Idle
<1>7. LocksAreLocal'
  BY <1>1, <1>3 DEF Inv, TypeOK, LocksAreLocal
<1>8. NanosWereReached'
  BY <1>3, <1>4 DEF Inv, NanosWereReached
<1>9. \A u \in Threads : Working(u)'
  BY <1>3, <1>4 DEF Inv, Working
<1>10. \A x \in wire' : Truthful(x)'
  BY <1>3 DEF Inv, Truthful, Received
<1>11. \A u \in Threads : Delivered(u)'
  BY <1>3, <1>4 DEF Inv, Delivered, Truthful, Received, Inside
<1> QED  BY <1>5, <1>6, <1>7, <1>8, <1>9, <1>10, <1>11 DEF Inv

LEMMA ComputeInv ==
    ASSUME Inv, NEW t \in Threads, NEW wall \in Walls, Compute(t, wall)
    PROVE  Inv'
<1> DEFINE target == Target(t, wall)
           state == [thread[t] EXCEPT !.at = "nanos", !.next = target]
<1>1. /\ thread[t].at = "locked" /\ thread[t] \in Busy
      /\ target \in Stamp /\ Later(target, clock[NodeOf[t]])
      /\ thread[t].message # None => Later(target, Received(thread[t].message))
  BY TargetIsLater, Kinds DEF Inv, Compute, Inside
<1>2. /\ state \in Busy /\ state.at = "nanos" /\ state.next = target
      /\ state.message = thread[t].message /\ state.start = thread[t].start
  BY <1>1 DEF Busy
<1>3. /\ thread' = [thread EXCEPT ![t] = state] /\ clock' = clock /\ wire' = wire
      /\ lock' = lock
  BY DEF Compute, Goes
<1>4. thread'[t] = state /\ \A u \in Threads \ {t} : thread'[u] = thread[u]
  BY <1>3 DEF Inv, TypeOK
<1> HIDE DEF state, target
<1>5. TypeOK'
  BY <1>2, <1>3 DEF Inv, TypeOK
<1>6. HeldFromInside'
  BY <1>1, <1>2, <1>3, <1>4 DEF Inv, HeldFromInside
<1>7. LocksAreLocal'
  BY <1>3 DEF Inv, LocksAreLocal
<1>8. NanosWereReached'
  BY <1>2, <1>3, <1>4 DEF Inv, NanosWereReached
<1>9. \A u \in Threads : Working(u)'
  <2>1. Working(t)'
    BY <1>1, <1>2, <1>3, <1>4 DEF Inv, Working, Later, Received
  <2> QED  BY <2>1, <1>3, <1>4 DEF Inv, Working, Later, Received
<1>10. \A x \in wire' : Truthful(x)'
  BY <1>3 DEF Inv, Truthful, Received
<1>11. \A u \in Threads : Delivered(u)'
  BY <1>1, <1>2, <1>3, <1>4 DEF Inv, Delivered, Truthful, Received, Inside
<1> QED  BY <1>5, <1>6, <1>7, <1>8, <1>9, <1>10, <1>11 DEF Inv

LEMMA RaiseInv ==
    ASSUME Inv, NEW t \in Threads, NEW wall, Raise(t, wall)
    PROVE  Inv'
<1>1. /\ thread[t].at = "locked" /\ lock[NodeOf[t]] = t /\ NodeOf[t] \in Nodes
      /\ thread' = [thread EXCEPT ![t] = Idle] /\ clock' = clock /\ wire' = wire
      /\ lock' = [lock EXCEPT ![NodeOf[t]] = NoOwner]
  BY HLCAssumption DEF Raise, Goes, Inv, HeldFromInside
<1>2. thread'[t] = Idle /\ \A u \in Threads \ {t} : thread'[u] = thread[u]
  BY <1>1 DEF Inv, TypeOK
<1>3. TypeOK'
  BY <1>1 DEF Inv, TypeOK
<1>4. HeldFromInside'
  BY <1>1, <1>2, HLCAssumption DEF Inv, TypeOK, HeldFromInside, Idle
<1>5. LocksAreLocal'
  BY <1>1 DEF Inv, TypeOK, LocksAreLocal
<1>6. NanosWereReached'
  BY <1>1, <1>2 DEF Inv, NanosWereReached, Idle
<1>7. \A u \in Threads : Working(u)'
  BY <1>1, <1>2 DEF Inv, Working, Idle, Later, Received
<1>8. \A x \in wire' : Truthful(x)'
  BY <1>1 DEF Inv, Truthful, Received
<1>9. \A u \in Threads : Delivered(u)'
  BY <1>1, <1>2 DEF Inv, Delivered, Truthful, Received, Inside, Idle
<1> QED  BY <1>3, <1>4, <1>5, <1>6, <1>7, <1>8, <1>9 DEF Inv

(* A thread inside a call is alone there: the others of its node are not.  *)
LEMMA AloneInside ==
    ASSUME Inv, NEW t \in Threads, thread[t].at \in Inside,
           NEW u \in Threads \ {t}, NodeOf[u] = NodeOf[t]
    PROVE  thread[u].at \notin Inside
  BY DEF Inv, HeldFromInside, Inside

LEMMA SetNanosInv ==
    ASSUME Inv, NEW t \in Threads, SetNanos(t)
    PROVE  Inv'
<1> DEFINE n == NodeOf[t]
           state == [thread[t] EXCEPT !.at = "logical"]
<1>1. /\ thread[t].at = "nanos" /\ thread[t] \in Busy /\ n \in Nodes
      /\ thread[t].next \in Stamp /\ clock[n] \in Stamp
      /\ Later(thread[t].next, clock[n]) /\ thread[t].at \in Inside
  BY Kinds, HLCAssumption DEF Inv, SetNanos, Inside, Busy, Working, TypeOK
<1>2. /\ state \in Busy /\ state.at = "logical" /\ state.next = thread[t].next
      /\ state.message = thread[t].message /\ state.start = thread[t].start
  BY <1>1 DEF Busy
<1>3. /\ thread' = [thread EXCEPT ![t] = state] /\ wire' = wire /\ lock' = lock
      /\ clock' = [clock EXCEPT ![n] = [clock[n] EXCEPT !.nanos = thread[t].next.nanos]]
  BY <1>1 DEF SetNanos, Goes, Inv, TypeOK
<1>4. /\ thread'[t] = state /\ \A u \in Threads \ {t} : thread'[u] = thread[u]
      /\ clock'[n] = [clock[n] EXCEPT !.nanos = thread[t].next.nanos]
      /\ \A x \in Nodes \ {n} : clock'[x] = clock[x]
  BY <1>1, <1>3 DEF Inv, TypeOK
<1>5. /\ clock'[n] \in Stamp /\ clock'[n].nanos = thread[t].next.nanos
      /\ clock'[n].nanos >= clock[n].nanos
  BY <1>1, <1>4, LimitType DEF Stamp, Later
<1> HIDE DEF state, n
<1>6. TypeOK'
  BY <1>1, <1>2, <1>3, <1>4, <1>5 DEF Inv, TypeOK
<1>7. HeldFromInside'
  BY <1>1, <1>2, <1>3, <1>4 DEF Inv, HeldFromInside
<1>8. LocksAreLocal'
  BY <1>3 DEF Inv, LocksAreLocal
<1>9. NanosWereReached'
  <2> SUFFICES ASSUME NEW u \in Threads, thread'[u].at = "read"
               PROVE  thread'[u].next.nanos <= clock'[NodeOf[u]].nanos
    BY DEF NanosWereReached
  <2>1. u # t /\ thread'[u] = thread[u] /\ thread[u] \in Reading /\ NodeOf[u] \in Nodes
    BY <1>2, <1>4, Kinds, HLCAssumption DEF Inv
  <2>2. /\ thread[u].next.nanos \in Int /\ clock[NodeOf[u]].nanos \in Int
        /\ thread[u].next.nanos <= clock[NodeOf[u]].nanos
    BY <2>1, LimitType DEF Inv, NanosWereReached, TypeOK, Stamp, Reading
  <2>3. clock'[NodeOf[u]].nanos \in Int /\ clock'[NodeOf[u]].nanos >= clock[NodeOf[u]].nanos
    BY <1>4, <1>5, <2>1, <2>2, LimitType DEF Stamp
  <2> QED  BY <2>1, <2>2, <2>3
<1>10. \A u \in Threads : Working(u)'
  <2>1. Working(t)'
    BY <1>1, <1>2, <1>3, <1>4, <1>5 DEF Inv, Working, Later, Received, n
  <2>2. ASSUME NEW u \in Threads \ {t}, thread[u].at \in Inside
        PROVE  Working(u)'
    <3>1. NodeOf[u] # n /\ NodeOf[u] \in Nodes
      BY <1>1, <2>2, AloneInside, HLCAssumption DEF n
    <3> QED  BY <1>3, <1>4, <3>1 DEF Inv, Working, Later, Received
  <2>3. ASSUME NEW u \in Threads \ {t}, thread[u].at \notin Inside
        PROVE  Working(u)'
    BY <1>4, <2>3 DEF Working, Inside
  <2> QED  BY <2>1, <2>2, <2>3
<1>11. \A x \in wire' : Truthful(x)'
  BY <1>3 DEF Inv, Truthful, Received
<1>12. \A u \in Threads : Delivered(u)'
  BY <1>1, <1>2, <1>4 DEF Inv, Delivered, Truthful, Received, Inside
<1> QED  BY <1>6, <1>7, <1>8, <1>9, <1>10, <1>11, <1>12 DEF Inv

LEMMA SetLogicalInv ==
    ASSUME Inv, NEW t \in Threads, SetLogical(t)
    PROVE  Inv'
<1> DEFINE n == NodeOf[t]
<1>1. /\ thread[t].at = "logical" /\ n \in Nodes /\ lock[n] = t
      /\ thread[t].next \in Stamp /\ clock[n] \in Stamp /\ thread[t].at \in Inside
  BY Kinds, HLCAssumption DEF Inv, SetLogical, Inside, Busy, TypeOK, HeldFromInside
<1>2. /\ thread' = [thread EXCEPT ![t] = Idle] /\ wire' = wire
      /\ lock' = [lock EXCEPT ![n] = NoOwner]
      /\ clock' = [clock EXCEPT ![n] = [clock[n] EXCEPT !.logical = thread[t].next.logical]]
  BY <1>1 DEF SetLogical, Goes, Inv, TypeOK
<1>3. /\ thread'[t] = Idle /\ \A u \in Threads \ {t} : thread'[u] = thread[u]
      /\ clock'[n] = [clock[n] EXCEPT !.logical = thread[t].next.logical]
      /\ \A x \in Nodes \ {n} : clock'[x] = clock[x] /\ lock'[x] = lock[x]
      /\ lock'[n] = NoOwner
  BY <1>1, <1>2 DEF Inv, TypeOK
<1>4. clock'[n] \in Stamp /\ clock'[n].nanos = clock[n].nanos
  BY <1>1, <1>3 DEF Stamp
<1> HIDE DEF n
<1>5. TypeOK'
  BY <1>1, <1>2, <1>3, <1>4 DEF Inv, TypeOK
<1>6. HeldFromInside'
  BY <1>1, <1>2, <1>3, HLCAssumption DEF Inv, TypeOK, HeldFromInside, Idle, n
<1>7. LocksAreLocal'
  BY <1>1, <1>2 DEF Inv, TypeOK, LocksAreLocal
<1>8. NanosWereReached'
  <2> SUFFICES ASSUME NEW u \in Threads, thread'[u].at = "read"
               PROVE  thread'[u].next.nanos <= clock'[NodeOf[u]].nanos
    BY DEF NanosWereReached
  <2>1. thread'[u] = thread[u] /\ NodeOf[u] \in Nodes
    BY <1>3, HLCAssumption DEF Idle
  <2>2. clock'[NodeOf[u]].nanos = clock[NodeOf[u]].nanos
    BY <1>3, <1>4, <2>1
  <2> QED  BY <2>1, <2>2 DEF Inv, NanosWereReached
<1>9. \A u \in Threads : Working(u)'
  <2>1. ASSUME NEW u \in Threads \ {t}, thread[u].at \in Inside
        PROVE  Working(u)'
    <3>1. NodeOf[u] # n /\ NodeOf[u] \in Nodes
      BY <1>1, <2>1, AloneInside, HLCAssumption DEF n
    <3> QED  BY <1>2, <1>3, <3>1 DEF Inv, Working, Later, Received
  <2>2. ASSUME NEW u \in Threads, u = t \/ thread[u].at \notin Inside
        PROVE  Working(u)'
    BY <1>3, <2>2 DEF Working, Inside, Idle
  <2> QED  BY <2>1, <2>2
<1>10. \A x \in wire' : Truthful(x)'
  BY <1>2 DEF Inv, Truthful, Received
<1>11. \A u \in Threads : Delivered(u)'
  BY <1>3 DEF Inv, Delivered, Truthful, Received, Inside, Idle
<1> QED  BY <1>5, <1>6, <1>7, <1>8, <1>9, <1>10, <1>11 DEF Inv

LEMMA ReadNanosInv ==
    ASSUME Inv, NEW t \in Threads, ReadNanos(t)
    PROVE  Inv'
<1> DEFINE n == NodeOf[t]
           state == [at |-> "read", next |-> [nanos |-> clock[n].nanos, logical |-> 0]]
<1>1. n \in Nodes /\ clock[n] \in Stamp /\ thread[t].at = "idle" /\ lock[n] # t
  BY HLCAssumption DEF Inv, TypeOK, HeldFromInside, ReadNanos, Idle
<1>2. state \in Reading /\ state.at = "read" /\ state.next.nanos = clock[n].nanos
  BY <1>1, HLCAssumption DEF Reading, Stamp
<1>3. /\ thread' = [thread EXCEPT ![t] = state] /\ UNCHANGED <<clock, lock, wire>>
      /\ thread'[t] = state /\ \A u \in Threads \ {t} : thread'[u] = thread[u]
  BY DEF ReadNanos, Goes, Inv, TypeOK
<1> HIDE DEF state
<1>4. TypeOK'
  BY <1>2, <1>3 DEF Inv, TypeOK
<1>5. HeldFromInside'
  BY <1>1, <1>2, <1>3 DEF Inv, HeldFromInside
<1>6. LocksAreLocal'
  BY <1>3 DEF Inv, LocksAreLocal
<1>7. NanosWereReached'
  BY <1>1, <1>2, <1>3, LimitType DEF Inv, NanosWereReached, Stamp
<1>8. \A u \in Threads : Working(u)'
  BY <1>2, <1>3 DEF Inv, Working, Later, Received
<1>9. \A x \in wire' : Truthful(x)'
  BY <1>3 DEF Inv, Truthful, Received
<1>10. \A u \in Threads : Delivered(u)'
  BY <1>2, <1>3 DEF Inv, Delivered, Truthful, Received, Inside
<1> QED  BY <1>4, <1>5, <1>6, <1>7, <1>8, <1>9, <1>10 DEF Inv

LEMMA ReadLogicalInv ==
    ASSUME Inv, NEW t \in Threads, ReadLogical(t)
    PROVE  Inv'
<1> DEFINE n == NodeOf[t]
           read == [nanos |-> thread[t].next.nanos, logical |-> clock[n].logical]
<1>1. /\ thread[t].at = "read" /\ UNCHANGED <<clock, lock>>
      /\ thread' = [thread EXCEPT ![t] = Idle]
      /\ wire' = wire \/ \E m \in {ToText(read)} \cup ToBytes(read) : wire' = wire \cup {m}
  BY DEF ReadLogical, Goes
<1>2. n \in Nodes /\ clock[n] \in Stamp /\ thread[t].next \in Stamp /\ lock[n] # t
  BY <1>1, Kinds, HLCAssumption DEF Inv, TypeOK, Reading, HeldFromInside
<1>3. read \in Stamp
  BY <1>2 DEF Stamp
<1>4. thread'[t] = Idle /\ \A u \in Threads \ {t} : thread'[u] = thread[u]
  BY <1>1 DEF Inv, TypeOK
<1> HIDE DEF read
<1>5. \A m \in {ToText(read)} \cup ToBytes(read) : m \in Messages /\ Truthful(m)
  BY <1>3, TextIsTruthful, BytesAreTruthful
<1>6. \A x \in wire' : x \in Messages /\ Truthful(x)
  BY <1>1, <1>5 DEF Inv, TypeOK
<1>7. TypeOK'
  BY <1>1, <1>6 DEF Inv, TypeOK
<1>8. HeldFromInside'
  BY <1>1, <1>2, <1>4 DEF Inv, HeldFromInside, Idle
<1>9. LocksAreLocal'
  BY <1>1 DEF Inv, LocksAreLocal
<1>10. NanosWereReached'
  BY <1>1, <1>4 DEF Inv, NanosWereReached, Idle
<1>11. \A u \in Threads : Working(u)'
  BY <1>1, <1>4 DEF Inv, Working, Later, Received, Idle
<1>12. \A x \in wire' : Truthful(x)'
  BY <1>6 DEF Truthful, Received
<1>13. \A u \in Threads : Delivered(u)'
  BY <1>4 DEF Inv, Delivered, Truthful, Received, Inside, Idle
<1> QED  BY <1>7, <1>8, <1>9, <1>10, <1>11, <1>12, <1>13 DEF Inv

LEMMA UnmovedInv ==
    ASSUME Inv, UNCHANGED <<clock, lock, thread>>, wire' \subseteq wire
    PROVE  Inv'
<1>1. TypeOK' /\ HeldFromInside' /\ LocksAreLocal' /\ NanosWereReached'
  BY DEF Inv, TypeOK, HeldFromInside, LocksAreLocal, NanosWereReached
<1>2. \A u \in Threads : Working(u)' /\ Delivered(u)'
  BY DEF Inv, Working, Delivered, Truthful, Later, Received, Inside
<1>3. \A x \in wire' : Truthful(x)'
  BY DEF Inv, Truthful, Received
<1> QED  BY <1>1, <1>2, <1>3 DEF Inv

LEMMA NextInv ==
    ASSUME Inv, [Next]_vars
    PROVE  Inv'
<1>1. ASSUME NEW t \in Threads, Enter(t, None)  PROVE Inv'
  BY <1>1, EnterInv
<1>2. ASSUME NEW t \in Threads, NEW m \in wire, Enter(t, m)  PROVE Inv'
  BY <1>2, EnterInv
<1>3. ASSUME NEW t \in Threads, NEW wall \in Walls, Compute(t, wall)  PROVE Inv'
  BY <1>3, ComputeInv
<1>4. ASSUME NEW t \in Threads, NEW wall \in Walls, Raise(t, wall)  PROVE Inv'
  BY <1>4, RaiseInv
<1>5. ASSUME NEW t \in Threads, SetNanos(t)  PROVE Inv'
  BY <1>5, SetNanosInv
<1>6. ASSUME NEW t \in Threads, SetLogical(t)  PROVE Inv'
  BY <1>6, SetLogicalInv
<1>7. ASSUME NEW t \in Threads, ReadNanos(t)  PROVE Inv'
  BY <1>7, ReadNanosInv
<1>8. ASSUME NEW t \in Threads, ReadLogical(t)  PROVE Inv'
  BY <1>8, ReadLogicalInv
<1>9. ASSUME NEW m \in wire, Lose(m)  PROVE Inv'
  BY <1>9, UnmovedInv DEF Lose
<1>10. CASE UNCHANGED vars
  BY <1>10, UnmovedInv DEF vars
<1> QED  BY <1>1, <1>2, <1>3, <1>4, <1>5, <1>6, <1>7, <1>8, <1>9, <1>10 DEF Next

LEMMA SpecInv == Spec => []Inv
  BY InitInv, NextInv, PTL DEF Spec

(* Types; the lock of a node is held by exactly the thread that is inside  *)
(* sync() or merge() on its clock, whatever raised before; and a reader    *)
(* without the lock saw only nanoseconds that its clock had reached.       *)
THEOREM ClocksAreLocked == Spec => []HLCInv
<1>1. Inv => HLCInv
  BY DEF Inv, HLCInv
<1> QED  BY <1>1, SpecInv, PTL

-----------------------------------------------------------------------------
(* Text carries a time stamp whole; bytes bring back its milliseconds.     *)
LEMMA MergeStep ==
    ASSUME Inv, [Next]_vars, NEW t \in Threads,
           thread[t].at = "logical", thread[t].message # None, thread'[t] = Idle
    PROVE  /\ clock'[NodeOf[t]] = thread[t].next
           /\ Later(thread[t].next, Received(thread[t].message))
           /\ Truthful(thread[t].message)
<1>1. thread[t] # Idle /\ thread[t].at # "idle" /\ thread' # thread
  BY DEF Idle
<1>2. ASSUME NEW u \in Threads, NEW state, Goes(u, state)
      PROVE  u = t /\ state = Idle
  BY <1>1, <1>2 DEF Inv, TypeOK, Goes
<1>3. ASSUME NEW u \in Threads, NEW m, Enter(u, m)  PROVE FALSE
  BY <1>1, <1>2, <1>3 DEF Enter
<1>4. ASSUME NEW u \in Threads, NEW wall, Compute(u, wall) \/ Raise(u, wall)  PROVE FALSE
  <2>1. thread[u].at = "locked" /\ \E state : Goes(u, state)
    BY <1>4 DEF Compute, Raise
  <2> QED  BY <1>2, <2>1
<1>5. ASSUME NEW u \in Threads, SetNanos(u) \/ ReadNanos(u) \/ ReadLogical(u)  PROVE FALSE
  BY <1>1, <1>2, <1>5 DEF SetNanos, ReadNanos, ReadLogical
<1>6. ASSUME NEW u \in Threads, SetLogical(u)  PROVE u = t
  BY <1>2, <1>6 DEF SetLogical
<1>7. SetLogical(t)
  BY <1>1, <1>3, <1>4, <1>5, <1>6 DEF Next, vars, Lose
<1>8. /\ NodeOf[t] \in Nodes /\ clock[NodeOf[t]] \in Stamp /\ thread[t].next \in Stamp
      /\ clock[NodeOf[t]].nanos = thread[t].next.nanos
  BY Kinds, HLCAssumption DEF Inv, TypeOK, Inside, Busy, Working
<1>9. clock'[NodeOf[t]] = thread[t].next
  BY <1>7, <1>8 DEF SetLogical, Inv, TypeOK, Stamp
<1> QED  BY <1>9 DEF Inv, Working, Delivered, Inside

(* merge() leaves the clock later than the time stamp that was sent, for   *)
(* any limits, however often the message was repeated or overtaken.        *)
THEOREM MergesAreLater == Spec => MergedIsLater
<1>1. ASSUME Inv, [Next]_vars, NEW t \in Threads,
             thread[t].at = "logical", thread[t].message # None, thread'[t] = Idle
      PROVE  LET m == thread[t].message
                 merged == clock'[NodeOf[t]]
             IN  IF m.form = "text" THEN Later(merged, m.sent)
                 ELSE m.sent.nanos <= Limit - Milli => merged.nanos >= m.sent.nanos - Slack
  <2> DEFINE m == thread[t].message
  <2>1. /\ clock'[NodeOf[t]] = thread[t].next
        /\ Later(thread[t].next, Received(m))
        /\ Truthful(m)
    BY <1>1, MergeStep
  <2>2. thread[t].next \in Stamp /\ m \in Messages
    BY <1>1, Kinds DEF Inv, Inside, Busy
  <2>3. Received(m).nanos \in Nat /\ thread[t].next.nanos \in Nat
    BY <2>2, ReceivedType, LimitType DEF Stamp
  <2>4. m.sent \in Stamp /\ m.sent.nanos \in Nat /\ Slack \in Nat /\ Milli \in Nat
    BY <2>2, LimitType, HLCAssumption DEF Messages, Text, Bytes, Stamp
  <2>5. CASE m.form = "text"
    BY <2>1, <2>5 DEF Truthful
  <2>6. CASE m.form # "text"
    BY <2>1, <2>3, <2>4, <2>6, LimitType DEF Truthful, Later
  <2> QED  BY <2>5, <2>6
<1>2. Inv /\ [Next]_vars =>
        [\A t \in Threads :
           LET m == thread[t].message
               merged == clock'[NodeOf[t]]
           IN  thread[t].at = "logical" /\ m # None /\ thread'[t] = Idle =>
                 IF m.form = "text" THEN Later(merged, m.sent)
                 ELSE m.sent.nanos <= Limit - Milli => merged.nanos >= m.sent.nanos - Slack]_vars
  BY <1>1
<1> QED  BY <1>2, SpecInv, PTL DEF Spec, MergedIsLater

-----------------------------------------------------------------------------
(* Whoever takes the lock, or comes without it, sees the clock move only   *)
(* when SetLogical ends a call, and only forward.                          *)

LEMMA EnterShows ==
    ASSUME Inv, NEW t \in Threads, NEW m, m = None \/ m \in wire, Enter(t, m)
    PROVE  UNCHANGED Shown
<1>1. /\ NodeOf[t] \in Nodes /\ clock' = clock /\ thread[t] = Idle
      /\ lock[NodeOf[t]] = NoOwner /\ lock' = [lock EXCEPT ![NodeOf[t]] = t]
      /\ thread'[t].start = clock[NodeOf[t]]
      /\ \A u \in Threads \ {t} : thread'[u] = thread[u]
  BY HLCAssumption DEF Inv, TypeOK, Enter, Goes
<1>2. \A n \in Nodes : lock[n] # NoOwner => lock[n] \in Threads \ {t}
  BY <1>1 DEF Inv, TypeOK, LocksAreLocal
<1> QED  BY <1>1, <1>2, HLCAssumption DEF Inv, TypeOK, Shown

(* Inside a call, what was found there is what is shown.                   *)
LEMMA InsideShows ==
    ASSUME Inv, UNCHANGED lock, NEW t \in Threads,
           thread'[t].start = thread[t].start,
           \A u \in Threads \ {t} : thread'[u] = thread[u],
           \A n \in Nodes : lock[n] = NoOwner => clock'[n] = clock[n]
    PROVE  UNCHANGED Shown
<1>1. \A n \in Nodes : lock[n] # NoOwner => thread'[lock[n]].start = thread[lock[n]].start
  BY DEF Inv, TypeOK
<1> QED  BY <1>1 DEF Shown

LEMMA ComputeShows ==
    ASSUME Inv, NEW t \in Threads, NEW wall \in Walls, Compute(t, wall)
    PROVE  UNCHANGED Shown
<1>1. /\ thread[t] \in Busy /\ UNCHANGED <<clock, lock>>
      /\ thread'[t] = [thread[t] EXCEPT !.at = "nanos", !.next = Target(t, wall)]
      /\ \A u \in Threads \ {t} : thread'[u] = thread[u]
  BY Kinds DEF Inv, TypeOK, Compute, Goes, Inside
<1>2. thread'[t].start = thread[t].start
  BY <1>1 DEF Busy
<1> QED  BY <1>1, <1>2, InsideShows

LEMMA SetNanosShows ==
    ASSUME Inv, NEW t \in Threads, SetNanos(t)
    PROVE  UNCHANGED Shown
<1>1. /\ thread[t] \in Busy /\ UNCHANGED lock /\ lock[NodeOf[t]] = t
      /\ thread'[t] = [thread[t] EXCEPT !.at = "logical"]
      /\ \A u \in Threads \ {t} : thread'[u] = thread[u]
      /\ \A n \in Nodes \ {NodeOf[t]} : clock'[n] = clock[n]
  BY Kinds DEF Inv, TypeOK, HeldFromInside, SetNanos, Goes, Inside
<1>2. thread'[t].start = thread[t].start
  BY <1>1 DEF Busy
<1> QED  BY <1>1, <1>2, InsideShows, HLCAssumption

(* A reader holds no lock.                                                 *)
LEMMA ReaderShows ==
    ASSUME Inv, UNCHANGED <<clock, lock>>, NEW t \in Threads, thread[t].at \notin Inside,
           \A u \in Threads \ {t} : thread'[u] = thread[u]
    PROVE  UNCHANGED Shown
<1>1. \A n \in Nodes : lock[n] # NoOwner => lock[n] \in Threads \ {t}
  BY DEF Inv, TypeOK, LocksAreLocal, HeldFromInside, Inside
<1> QED  BY <1>1 DEF Shown

(* A call that returns or raises: only the clock of its node may change.   *)
LEMMA ReleaseShows ==
    ASSUME Inv, NEW t \in Threads, lock[NodeOf[t]] = t,
           lock' = [lock EXCEPT ![NodeOf[t]] = NoOwner],
           \A u \in Threads \ {t} : thread'[u] = thread[u],
           \A n \in Nodes \ {NodeOf[t]} : clock'[n] = clock[n]
    PROVE  /\ Shown[NodeOf[t]] = thread[t].start
           /\ Shown' = [Shown EXCEPT ![NodeOf[t]] = clock'[NodeOf[t]]]
<1>1. NodeOf[t] \in Nodes /\ t # NoOwner
  BY HLCAssumption
<1>2. \A n \in Nodes \ {NodeOf[t]} :
        /\ lock'[n] = lock[n]
        /\ lock[n] # NoOwner => lock[n] \in Threads \ {t}
  BY <1>1 DEF Inv, TypeOK, LocksAreLocal
<1>3. \A n \in Nodes \ {NodeOf[t]} : Shown'[n] = Shown[n]
  BY <1>2 DEF Shown
<1>4. Shown'[NodeOf[t]] = clock'[NodeOf[t]] /\ Shown[NodeOf[t]] = thread[t].start
  BY <1>1 DEF Shown, Inv, TypeOK
<1> QED  BY <1>1, <1>3, <1>4 DEF Shown

LEMMA RaiseShows ==
    ASSUME Inv, NEW t \in Threads, NEW wall, Raise(t, wall)
    PROVE  UNCHANGED Shown
<1>1. /\ lock[NodeOf[t]] = t /\ lock' = [lock EXCEPT ![NodeOf[t]] = NoOwner]
      /\ UNCHANGED clock /\ thread[t].start = clock[NodeOf[t]]
      /\ \A u \in Threads \ {t} : thread'[u] = thread[u]
  BY DEF Inv, TypeOK, HeldFromInside, Working, Raise, Goes
<1>2. /\ Shown[NodeOf[t]] = thread[t].start
      /\ Shown' = [Shown EXCEPT ![NodeOf[t]] = clock'[NodeOf[t]]]
  BY <1>1, ReleaseShows
<1> QED  BY <1>1, <1>2 DEF Shown

LEMMA SetLogicalTicks ==
    ASSUME Inv, NEW t \in Threads, SetLogical(t)
    PROVE  C!Tick
<1> DEFINE n == NodeOf[t]
<1>1. /\ n \in Nodes /\ thread[t] \in Busy /\ clock[n] \in Stamp
      /\ lock[n] = t /\ lock' = [lock EXCEPT ![n] = NoOwner]
      /\ clock' = [clock EXCEPT ![n].logical = thread[t].next.logical]
      /\ \A u \in Threads \ {t} : thread'[u] = thread[u]
      /\ clock[n].nanos = thread[t].next.nanos
      /\ Later(thread[t].next, thread[t].start)
  BY Kinds, HLCAssumption DEF Inv, TypeOK, HeldFromInside, Working, SetLogical, Goes, Inside
<1>2. /\ Shown[n] = thread[t].start
      /\ Shown' = [Shown EXCEPT ![n] = clock'[n]]
  BY <1>1, ReleaseShows DEF Inv, TypeOK
<1>3. clock'[n] = thread[t].next
  BY <1>1 DEF Inv, TypeOK, Busy, Stamp
<1>4. Shown'[n] = thread[t].next
  BY <1>1, <1>2, <1>3 DEF Shown
<1> QED  BY <1>1, <1>2, <1>3, <1>4 DEF C!Tick, C!Later, Later

(* Every call that returns moves the clock of its node forward, and nothing *)
(* else moves one: the fields written one by one, the lock and the readers  *)
(* without it implement the clock that ticks at once.                       *)
THEOREM ClocksTick == Spec => ImplementsStampClock
<1>1. Init => C!ClockInit
  BY HLCAssumption DEF Init, C!ClockInit, Shown, Zero
<1>2. Inv /\ [Next]_vars => [C!Tick]_Shown
  <2> SUFFICES ASSUME Inv, [Next]_vars PROVE C!Tick \/ UNCHANGED Shown
    OBVIOUS
  <2>1. ASSUME NEW t \in Threads, Enter(t, None)  PROVE UNCHANGED Shown
    BY <2>1, EnterShows
  <2>2. ASSUME NEW t \in Threads, NEW m \in wire, Enter(t, m)  PROVE UNCHANGED Shown
    BY <2>2, EnterShows
  <2>3. ASSUME NEW t \in Threads, NEW wall \in Walls, Compute(t, wall) \/ Raise(t, wall)
        PROVE  UNCHANGED Shown
    BY <2>3, ComputeShows, RaiseShows
  <2>4. ASSUME NEW t \in Threads, SetNanos(t)  PROVE UNCHANGED Shown
    BY <2>4, SetNanosShows
  <2>5. ASSUME NEW t \in Threads, SetLogical(t)  PROVE C!Tick
    BY <2>5, SetLogicalTicks
  <2>6. ASSUME NEW t \in Threads, ReadNanos(t) \/ ReadLogical(t)  PROVE UNCHANGED Shown
    <3>1. /\ thread[t].at \notin Inside /\ UNCHANGED <<clock, lock>>
          /\ \E state : Goes(t, state)
      BY <2>6 DEF ReadNanos, ReadLogical, Idle, Inside
    <3>2. \A u \in Threads \ {t} : thread'[u] = thread[u]
      BY <3>1 DEF Goes, Inv, TypeOK
    <3> QED  BY <3>1, <3>2, ReaderShows
  <2>7. ASSUME NEW m \in wire, Lose(m)  PROVE UNCHANGED Shown
    BY <2>7 DEF Lose, Shown
  <2>8. CASE UNCHANGED vars
    BY <2>8 DEF vars, Shown
  <2> QED  BY <2>1, <2>2, <2>3, <2>4, <2>5, <2>6, <2>7, <2>8 DEF Next
<1> QED  BY <1>1, <1>2, SpecInv, PTL DEF Spec, ImplementsStampClock, C!ClockSpec
=============================================================================
