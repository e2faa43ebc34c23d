-------------------------------- MODULE HLC --------------------------------
(***************************************************************************)
(* The hybrid logical clocks of contracting/hlcpy: one object for each     *)
(* node, which its threads sync() and merge() under a lock and read        *)
(* without it, and the two forms in which time stamps travel: the text of  *)
(* __str__() and the eight bytes of to_bytes().  Messages may be lost,     *)
(* repeated and reordered, and the wall clock may jump either way.         *)
(***************************************************************************)
EXTENDS Integers, FiniteSets

CONSTANTS
    Nodes,
    Threads,
    NodeOf,         \* the node of a thread
    Mergers,        \* the threads that receive messages
    Senders,        \* the threads that send what they read
    NoOwner,        \* nobody holds the lock
    MaxMillis,      \* 2^43: milliseconds from here on are refused
    MaxLogical,     \* 2^16: logical counters from here on are refused
    Milli,          \* 10^6, the nanoseconds of a millisecond,
    Second,         \* and 10^9, those of a second
    Slack,          \* nanoseconds that a 64-bit float loses of a time: 128
    Walls,          \* what time.time() may show, in nanoseconds
    MaxSent         \* bound on the messages under way

ASSUME HLCAssumption ==
    /\ NodeOf \in [Threads -> Nodes]
    /\ Mergers \subseteq Threads
    /\ Senders \subseteq Threads
    /\ NoOwner \notin Threads
    /\ {MaxMillis, MaxLogical, Milli, Second} \subseteq Nat \ {0}
    /\ Slack \in 0..(Milli - 1)
    /\ Walls \subseteq Nat
    /\ MaxSent \in Nat

VARIABLES
    clock,      \* _nanos and _logical of each node's HLC
    lock,       \* the thread that holds its lock
    thread,     \* the method that each thread executes
    wire        \* the messages under way

vars == <<clock, lock, thread, wire>>

Limit == MaxMillis * Milli

Stamp == [nanos : 0..(Limit - 1), logical : 0..(MaxLogical - 1)]

Zero == [nanos |-> 0, logical |-> 0]

Later(s, t) == s.nanos > t.nanos \/ (s.nanos = t.nanos /\ s.logical > t.logical)

(* sent is history: the time stamp that the sender had read.               *)
Text == [form : {"text"}, seconds : Nat, decimals : 0..(Second - 1),
         logical : 0..(MaxLogical - 1), sent : Stamp]
Bytes == [form : {"bytes"}, millis : 0..MaxMillis, logical : 0..(MaxLogical - 1), sent : Stamp]
Messages == Text \cup Bytes

(* message: what merge() was called with, or none for sync(); start is     *)
(* history: the clock when the lock was taken; next: what is to be written *)
(* or, for a reader, what was read so far.                                 *)
None == [form |-> "none"]
Idle == [at |-> "idle"]
Busy == [at : {"locked", "nanos", "logical"}, message : Messages \cup {None},
         start : Stamp, next : Stamp]
Reading == [at : {"read"}, next : Stamp]

TypeOK ==
    /\ clock \in [Nodes -> Stamp]
    /\ lock \in [Nodes -> Threads \cup {NoOwner}]
    /\ thread \in [Threads -> Busy \cup Reading \cup {Idle}]
    /\ wire \subseteq Messages

Init ==
    /\ clock = [n \in Nodes |-> Zero]
    /\ lock = [n \in Nodes |-> NoOwner]
    /\ thread = [t \in Threads |-> Idle]
    /\ wire = {}

-----------------------------------------------------------------------------
(* The two forms of a time stamp, and what is read from them.              *)

(* nanos_to_iso8601 and __str__                                            *)
ToText(s) ==
    [form |-> "text", seconds |-> s.nanos \div Second, decimals |-> s.nanos % Second,
     logical |-> s.logical, sent |-> s]

(* Mutant: the milliseconds are rounded down.                              *)
RoundedDown(nanos) == {nanos \div Milli}

(* math.ceil(nanos / 1e6), where the division forgets the last nanoseconds *)
(* of a number as large as a date.                                         *)
ToMillis(nanos) ==
    {m \in {nanos \div Milli, nanos \div Milli + 1} :
       m * Milli >= nanos - Slack /\ (m * Milli < nanos + Milli)}

ToBytes(s) ==
    {[form |-> "bytes", millis |-> m, logical |-> s.logical, sent |-> s] :
       m \in ToMillis(s.nanos)}

(* iso8601_to_nanos, from_str, from_bytes.  The 44th bit that MaxMillis    *)
(* needs is one of the five that are set anyway and masked out here.       *)
Received(m) ==
    [nanos |-> IF m.form = "text" THEN m.seconds * Second + m.decimals
               ELSE (m.millis % MaxMillis) * Milli,
     logical |-> m.logical]

-----------------------------------------------------------------------------
Larger(x, y) == IF x >= y THEN x ELSE y

(* Mutant: a wall clock that stands still resets the logical counter.      *)
SyncResetting(c, wall) ==
    IF c.nanos > wall THEN [nanos |-> c.nanos, logical |-> c.logical + 1]
    ELSE [nanos |-> wall, logical |-> 0]

(* Mutant: the clock follows the wall clock backwards.                     *)
SyncToWall(c, wall) == [nanos |-> wall, logical |-> 0]

(* What sync() sets, given the clock and the wall clock.                   *)
SyncTo(c, wall) ==
    IF c.nanos >= wall THEN [nanos |-> c.nanos, logical |-> c.logical + 1]
    ELSE [nanos |-> wall, logical |-> 0]

(* What merge() sets.                                                      *)
MergeTo(c, e, wall) ==
    LET nanos == Larger(Larger(c.nanos, e.nanos), wall)
        logical == IF nanos = e.nanos /\ nanos = c.nanos THEN Larger(c.logical, e.logical) + 1
                   ELSE IF nanos = c.nanos THEN c.logical + 1
                   ELSE IF nanos = e.nanos THEN e.logical + 1
                   ELSE 0
    IN  [nanos |-> nanos, logical |-> logical]

(* Mutant: the logical counter is not limited.                             *)
FitsMillis(s) == s.nanos < Limit

(* _set and the constructor raise ValueError for anything else.            *)
Fits(s) == s.nanos < Limit /\ s.logical < MaxLogical

-----------------------------------------------------------------------------
Goes(t, state) == thread' = [thread EXCEPT ![t] = state]

(* `with self.lock:` around sync(), or around merge() with a message.  The *)
(* message stays under way: it may be delivered again.                     *)
Enter(t, m) ==
    /\ thread[t] = Idle /\ lock[NodeOf[t]] = NoOwner
    /\ lock' = [lock EXCEPT ![NodeOf[t]] = t]
    /\ Goes(t, [at |-> "locked", message |-> m, start |-> clock[NodeOf[t]], next |-> Zero])
    /\ UNCHANGED <<clock, wire>>

Target(t, wall) ==
    LET c == clock[NodeOf[t]]
    IN  IF thread[t].message = None THEN SyncTo(c, wall)
        ELSE MergeTo(c, Received(thread[t].message), wall)

(* The wall clock is read, and _set checks its arguments.                  *)
Compute(t, wall) ==
    /\ thread[t].at = "locked"
    /\ wall < Limit /\ Fits(Target(t, wall))
    /\ Goes(t, [thread[t] EXCEPT !.at = "nanos", !.next = Target(t, wall)])
    /\ UNCHANGED <<clock, lock, wire>>

(* Mutant: the lock is released only when nothing was raised.              *)
RaiseHolding(t, wall) ==
    /\ thread[t].at = "locked"
    /\ wall >= Limit \/ ~Fits(Target(t, wall))
    /\ Goes(t, Idle)
    /\ UNCHANGED <<clock, lock, wire>>

(* ValueError, for the wall clock or for what would be set.                *)
Raise(t, wall) ==
    /\ thread[t].at = "locked"
    /\ wall >= Limit \/ ~Fits(Target(t, wall))
    /\ lock' = [lock EXCEPT ![NodeOf[t]] = NoOwner]
    /\ Goes(t, Idle)
    /\ UNCHANGED <<clock, wire>>

SetNanos(t) ==
    /\ thread[t].at = "nanos"
    /\ clock' = [clock EXCEPT ![NodeOf[t]].nanos = thread[t].next.nanos]
    /\ Goes(t, [thread[t] EXCEPT !.at = "logical"])
    /\ UNCHANGED <<lock, wire>>

SetLogical(t) ==
    /\ thread[t].at = "logical"
    /\ clock' = [clock EXCEPT ![NodeOf[t]].logical = thread[t].next.logical]
    /\ lock' = [lock EXCEPT ![NodeOf[t]] = NoOwner]
    /\ Goes(t, Idle)
    /\ UNCHANGED wire

-----------------------------------------------------------------------------
(* tuple(), __str__() and to_bytes() take no lock, and read _nanos first.  *)
ReadNanos(t) ==
    /\ thread[t] = Idle
    /\ Goes(t, [at |-> "read", next |-> [nanos |-> clock[NodeOf[t]].nanos, logical |-> 0]])
    /\ UNCHANGED <<clock, lock, wire>>

(* The time stamp that was read may be sent, in one of the forms.          *)
ReadLogical(t) ==
    LET read == [nanos |-> thread[t].next.nanos, logical |-> clock[NodeOf[t]].logical]
    IN  /\ thread[t].at = "read"
        /\ \/ wire' = wire
           \/ /\ t \in Senders /\ Cardinality(wire) < MaxSent
              /\ \E m \in {ToText(read)} \cup ToBytes(read) : wire' = wire \cup {m}
        /\ Goes(t, Idle)
        /\ UNCHANGED <<clock, lock>>

(* A message is lost, or was delivered for the last time.                  *)
Lose(m) ==
    /\ m \in wire
    /\ wire' = wire \ {m}
    /\ UNCHANGED <<clock, lock, thread>>

Next ==
    \/ \E t \in Threads :
         \/ Enter(t, None)
         \/ \E m \in wire : t \in Mergers /\ Enter(t, m)
         \/ \E wall \in Walls : Compute(t, wall) \/ Raise(t, wall)
         \/ SetNanos(t)
         \/ SetLogical(t)
         \/ ReadNanos(t)
         \/ ReadLogical(t)
    \/ \E m \in wire : Lose(m)

Spec == Init /\ [][Next]_vars
-----------------------------------------------------------------------------
(* To whoever comes after it, each call that returns has moved the clock   *)
(* of its node forward and no call was lost, however threads interleave    *)
(* and wherever the wall clock jumps.  A clock in use shows what it showed *)
(* when it was locked.                                                     *)
Shown == [n \in Nodes |-> IF lock[n] = NoOwner THEN clock[n] ELSE thread[lock[n]].start]

C == INSTANCE StampClock WITH now <- Shown

ImplementsStampClock == C!ClockSpec

(* After merge() the clock is later than the time stamp that the message   *)
(* was sent with.  As bytes only its nanoseconds count, and only as far as *)
(* floats are exact; in the last millisecond before the limit the bytes    *)
(* wrap around to 1970.                                                    *)
MergedIsLater ==
    [][\A t \in Threads :
         LET m == thread[t].message
             merged == clock'[NodeOf[t]]
         IN  thread[t].at = "logical" /\ m # None /\ thread'[t] = Idle =>
               IF m.form = "text" THEN Later(merged, m.sent)
               ELSE m.sent.nanos <= Limit - Milli => merged.nanos >= m.sent.nanos - Slack]_vars

(* A reader may see the nanoseconds of one moment and the logical counter  *)
(* of another, but never nanoseconds that its node has not reached, and no *)
(* write takes back nanoseconds that somebody saw.                         *)
NanosWereReached ==
    \A t \in Threads :
      thread[t].at = "read" => thread[t].next.nanos <= clock[NodeOf[t]].nanos

(* The lock is held by exactly the threads that are inside sync() and      *)
(* merge(), one for each node: nobody keeps it after a call that raised    *)
(* because the counter or the wall clock is at its limit, and no two calls *)
(* work on the same clock.                                                 *)
HeldFromInside ==
    \A t \in Threads :
      thread[t].at \in {"locked", "nanos", "logical"} <=> lock[NodeOf[t]] = t

(* Whatever the threads of a node do, raise included, its lock is free when *)
(* nobody is inside, and no reader was shown a time never reached.         *)
HLCInv == TypeOK /\ HeldFromInside /\ NanosWereReached
=============================================================================
