------------------------------ MODULE Executor ------------------------------
(***************************************************************************)
(* Executor.execute() of contracting/execution/executor.py, as a client    *)
(* calls it: the stamps of the sender are checked, the contract runs over  *)
(* the CacheDriver while the tracer counts, its writes are committed or    *)
(* dropped, and the stamps that were used are taken from the sender.  One  *)
(* process executes one transaction after the other, and Runtime, Seeded   *)
(* and the tracer are there only once.                                     *)
(***************************************************************************)
EXTENDS CacheDriver, Tracer

CONSTANTS
    Senders,        \* the accounts that sign transactions
    BalanceOf,      \* the key of a sender's balance
    Stamps,         \* the stamps that a transaction may supply
    Modes,          \* the values of auto_commit in use
    Metering,       \* the values of metering in use
    Environment,    \* what an environment may hold: block_num, block_hash...
    ReadCost,       \* what reading a value costs
    WriteCost,      \* what writing a value costs
    WriteMax,       \* WRITE_MAX, in values written
    MaxPeak         \* bound on the memory of the process

(* Amounts are counted in stamps: balance * stamp_cost.  A fee may leave   *)
(* any amount below the balance, and a process uses some memory anyway.    *)
ASSUME ExecutorAssumption ==
    /\ Values \subseteq Nat /\ 0 \in Values /\ \A v \in Values : 0..v \subseteq Values
    /\ Senders # {}
    /\ BalanceOf \in [Senders -> Keys]
    /\ Stamps \subseteq Nat
    /\ Modes \subseteq BOOLEAN
    /\ Metering \subseteq BOOLEAN
    /\ {ReadCost, WriteCost, WriteMax} \subseteq Nat /\ MaxPeak \in Nat \ {0}

VARIABLES
    phase,      \* where execute() is
    tx,         \* its arguments, and whether the balance was enough
    status,     \* status_code
    tracer,     \* rt.tracer
    written,    \* rt.writes
    env,        \* rt.env, but for __Driver
    seeded,     \* Seeded.s
    bypass,     \* bypass_privates
    peak,       \* ru_maxrss of the process
    before,     \* history: what each key read as when the transaction came,
    spent,      \* whether the contract wrote the sender's balance,
    base,       \* the peak at the contract's first line, or 0,
    drawable,   \* whether the random generator is seeded from its env,
    raised      \* and whether the last run_private_function() raised

caches == <<pending_writes, pending_reads, cache, driver, pending_deltas>>
runtime == <<written, env, seeded>>
caller == <<tx, bypass, raised>>
history == <<before, spent, base, drawable>>
evars == <<caches, runtime, caller, history, phase, status, tracer, peak>>

(* call: by Executor.execute() itself, or by run_private_function().       *)
TxType == [sender : Senders, stamps : Stamps \cup {0}, auto : BOOLEAN, meter : BOOLEAN,
           environment : SUBSET Environment, private : BOOLEAN,
           call : {"execute", "private"}, enough : BOOLEAN]

NoTx == [sender |-> CHOOSE s \in Senders : TRUE, stamps |-> 0, auto |-> FALSE,
         meter |-> FALSE, environment |-> {}, private |-> FALSE, call |-> "execute",
         enough |-> FALSE]

ExecutorInit ==
    /\ Init
    /\ phase = "idle"
    /\ tx = NoTx
    /\ status = 0
    /\ tracer = NewTracer
    /\ written = 0 /\ env = {} /\ seeded = FALSE
    /\ bypass = FALSE /\ raised = FALSE
    /\ peak = 1
    /\ before = [k \in Keys |-> Find(k)]
    /\ spent = FALSE /\ base = 0 /\ drawable = FALSE

-----------------------------------------------------------------------------
Amount(k) == IF Find(k) = None THEN 0 ELSE Find(k)

(* rt.set_up                                                               *)
SetUp(n, meter) == IF meter THEN Start(SetStamp(tracer, n * Factor)) ELSE tracer

(* Mutant: the balance is not compared with the stamps.                    *)
EnoughUnchecked(t) == TRUE

Enough(t) == t.meter => Amount(BalanceOf[t.sender]) >= t.stamps

(* The balance is read before the tracer starts, and costs nothing.        *)
Begin(t) ==
    /\ phase = "idle"
    /\ IF t.meter THEN Get(BalanceOf[t.sender]) ELSE UNCHANGED caches
    /\ tx' = [t EXCEPT !.enough = Enough(t)]
    /\ IF Enough(t)
       THEN phase' = "running" /\ env' = env \cup t.environment
            /\ tracer' = SetUp(t.stamps, t.meter)
       ELSE phase' = "failed" /\ UNCHANGED <<env, tracer>>
    /\ before' = [k \in Keys |-> Find(k)]
    /\ spent' = FALSE /\ base' = 0 /\ drawable' = FALSE
    /\ UNCHANGED <<status, written, seeded, peak>>

(* Mutant: names that begin with __ are not refused.                       *)
RefusedNever(t) == FALSE

(* The assertion of execute() leaves everything as it was.                 *)
Refused(t) == t.private /\ ~bypass

Execute(t) == t.call = "execute" /\ ~Refused(t) /\ Begin(t) /\ UNCHANGED <<bypass, raised>>

(* The name of the function is given the prefix of private ones.           *)
RunPrivateFunction(t) == t.call = "private" /\ t.private /\ Begin(t) /\ bypass' = TRUE /\ UNCHANGED raised

-----------------------------------------------------------------------------
(* The contract runs.  An exception ends it: contracts cannot catch one.   *)

Continue == phase' = phase
Fail == phase' = "failed"

(* deduct_read and the second half of deduct_write.                        *)
Deduct(c) ==
    IF ~tracer.started THEN Continue /\ UNCHANGED tracer
    ELSE /\ tracer' = AddCost(tracer, c)
         /\ IF AddCostRaises(tracer, c) THEN Fail ELSE Continue

(* A line of the contract, after which the process may have grown.         *)
Line(c, memory) ==
    /\ phase = "running" /\ tracer.started /\ memory >= peak
    /\ IF LineRaises(tracer, c, memory) THEN Fail ELSE Continue
    /\ tracer' = TraceLine(tracer, c, memory)
    /\ peak' = memory
    /\ base' = IF base = 0 THEN memory ELSE base
    /\ UNCHANGED <<caches, runtime, caller, before, spent, drawable, status>>

(* Also the owner and the code of a contract, read to check and import it. *)
Read(k) ==
    /\ phase = "running"
    /\ Get(k)
    /\ Deduct(IF Find(k) = None THEN 0 ELSE ReadCost)
    /\ UNCHANGED <<runtime, caller, history, status, peak>>

(* deduct_write counts and may raise, then the old value is read, which    *)
(* may raise too, and then the new one is set.                             *)
ReadFirst(k) ==
    IF Lookup(pending_reads, k) = None /\ Find(k) # None THEN ReadCost ELSE 0

Write(k, v) ==
    /\ phase = "running"
    /\ written' = IF tracer.started THEN written + 1 ELSE written
    /\ IF tracer.started /\ written + 1 >= WriteMax
       THEN Fail /\ UNCHANGED <<caches, tracer, spent>>
       ELSE IF tracer.started /\ AddCostRaises(tracer, WriteCost)
       THEN Deduct(WriteCost) /\ UNCHANGED <<caches, spent>>
       ELSE /\ Deduct(WriteCost + ReadFirst(k))
            /\ IF tracer.started /\ AddCostRaises(tracer, WriteCost + ReadFirst(k))
               THEN Get(k) /\ UNCHANGED spent
               ELSE Set(k, v) /\ spent' = (spent \/ k = BalanceOf[tx.sender])
    /\ UNCHANGED <<env, seeded, caller, before, base, drawable, status, peak>>

(* seed() of contracting/stdlib/bridge/random.py, from the environment.    *)
Seed ==
    /\ phase = "running"
    /\ seeded' = TRUE /\ drawable' = (env = tx.environment)
    /\ UNCHANGED <<caches, written, env, caller, before, spent, base, phase, status, tracer, peak>>

(* Any of its other functions asserts that it was called.                  *)
Draw ==
    /\ phase = "running"
    /\ IF seeded THEN Continue ELSE Fail
    /\ UNCHANGED <<caches, runtime, caller, history, status, tracer, peak>>

(* An assertion of the contract, the wrong owner, a missing function...    *)
Raise ==
    /\ phase = "running"
    /\ Fail
    /\ UNCHANGED <<caches, runtime, caller, history, status, tracer, peak>>

-----------------------------------------------------------------------------
(* The contract returned: the writes are committed, the tracer stopped.    *)
Succeed ==
    /\ phase = "running"
    /\ IF tx.auto THEN Commit ELSE UNCHANGED caches
    /\ phase' = "charging" /\ tracer' = Stop(tracer) /\ status' = 0
    /\ UNCHANGED <<runtime, caller, history, peak>>

(* Mutant: the writes of a failed transaction are committed.               *)
FailCommitting ==
    /\ phase = "failed"
    /\ IF tx.auto THEN Commit ELSE UNCHANGED caches
    /\ phase' = "charging" /\ tracer' = Stop(tracer) /\ status' = 1
    /\ UNCHANGED <<runtime, caller, history, peak>>

(* except Exception: clear_pending_state.                                  *)
HandleException ==
    /\ phase = "failed"
    /\ IF tx.auto THEN RollbackAll ELSE UNCHANGED caches
    /\ phase' = "charging" /\ tracer' = Stop(tracer) /\ status' = 1
    /\ UNCHANGED <<runtime, caller, history, peak>>

(* Mutant: the stamps supplied do not limit the stamps charged.            *)
StampsUnlimited == StampUsed(tracer) \div Factor + 1

StampsUsed ==
    LET used == StampUsed(tracer) \div Factor + 1
    IN  IF used > tx.stamps THEN tx.stamps ELSE used

(* Mutant: without max(..., 0) the balance becomes negative.               *)
ChargeUnfloored ==
    LET k == BalanceOf[tx.sender]
    IN  /\ phase = "charging"
        /\ IF tx.meter THEN Set(k, Amount(k) - StampsUsed) ELSE UNCHANGED caches
        /\ phase' = "settling"
        /\ UNCHANGED <<runtime, caller, history, status, tracer, peak>>

(* The fee goes through the driver like a write of the transaction.        *)
Charge ==
    LET k == BalanceOf[tx.sender]
        rest == Amount(k) - StampsUsed
    IN  /\ phase = "charging"
        /\ IF tx.meter THEN Set(k, IF rest > 0 THEN rest ELSE 0) ELSE UNCHANGED caches
        /\ phase' = "settling"
        /\ UNCHANGED <<runtime, caller, history, status, tracer, peak>>

(* Mutant: the random generator stays usable.                              *)
CleanUpSeeded ==
    /\ tracer' = Reset(Stop(tracer))
    /\ written' = 0 /\ env' = {} /\ UNCHANGED seeded

(* Seeded.s = False, and rt.clean_up.                                      *)
CleanUp ==
    /\ tracer' = Reset(Stop(tracer))
    /\ written' = 0 /\ env' = {} /\ seeded' = FALSE

(* Mutant: the fee is left to the commit of the next transaction.          *)
SettledLater == UNCHANGED caches

Settled == IF tx.meter /\ tx.auto THEN Commit ELSE UNCHANGED caches

(* run_private_function() raises what the transaction raised, and goes     *)
(* back to the restricted mode only if there was nothing to raise.         *)
Finish ==
    /\ phase = "settling"
    /\ Settled
    /\ CleanUp
    /\ bypass' = (bypass /\ ~(tx.call = "private" /\ status = 0))
    /\ raised' = IF tx.call = "private" THEN status = 1 ELSE raised
    /\ phase' = "idle"
    /\ spent' = FALSE /\ base' = 0 /\ drawable' = FALSE
    /\ UNCHANGED <<tx, status, before, peak>>

ExecutorNext ==
    \/ \E t \in {u \in TxType : u.stamps \in Stamps /\ u.auto \in Modes /\ u.meter \in Metering
                                  /\ ~u.enough} :
         Execute(t) \/ RunPrivateFunction(t)
    \/ \E c \in CuCosts, memory \in 1..MaxPeak : Line(c, memory)
    \/ \E k \in Keys : Read(k)
    \/ \E k \in Keys, v \in MaybeValue : Write(k, v)
    \/ Seed
    \/ Draw
    \/ Raise
    \/ Succeed
    \/ HandleException
    \/ Charge
    \/ Finish

ExecutorSpec == ExecutorInit /\ [][ExecutorNext]_evars
-----------------------------------------------------------------------------
Balance == BalanceOf[tx.sender]

ExecutorTypeOK ==
    /\ TypeOK
    /\ phase \in {"idle", "running", "failed", "charging", "settling"}
    /\ tx \in TxType
    /\ status \in {0, 1}
    /\ tracer \in TracerType
    /\ written \in Nat
    /\ env \subseteq Environment
    /\ {seeded, bypass, spent, drawable, raised} \subseteq BOOLEAN
    /\ peak \in 1..MaxPeak /\ base \in 0..peak
    /\ before \in [Keys -> MaybeValue]

(* A transaction that failed, wherever and for whatever reason, leaves     *)
(* nothing behind but the fee.                                             *)
FailedTxReverts ==
    phase = "idle" /\ status = 1 =>
      \A k \in Keys \ {Balance} : Find(k) = before[k]

(* The sender pays exactly the stamps used, unless the contract itself     *)
(* changed the balance and succeeded: a failure undoes even that.          *)
FeeIsExact ==
    phase = "settling" /\ tx.meter /\ tx.enough /\ (status = 1 \/ ~spent) =>
      Amount(Balance) = (IF before[Balance] = None THEN 0 ELSE before[Balance]) - StampsUsed

(* Who runs out of stamps pays all that were supplied, and nobody more.    *)
OutOfStampsPaysAll ==
    phase = "charging" /\ tx.meter /\ tx.enough /\ tracer.cost > tracer.supplied =>
      StampsUsed = tx.stamps

(* With auto_commit a transaction leaves nothing in the caches that the    *)
(* next one, or a rollback of the next one, could see or drop.             *)
NothingPending ==
    phase = "idle" => pending_writes = EmptyDict /\ pending_reads = EmptyDict /\ cache = EmptyDict

(* What a transaction that succeeds uses beyond the stamps supplied is     *)
(* less than its last line: every other line and call finds the overdraft. *)
OverdrawnByALineAtMost ==
    phase = "charging" /\ tx.meter /\ status = 0 =>
      \E c \in CuCosts : tracer.cost <= tracer.supplied + c

(* The memory that counts for a transaction is what the process has grown  *)
(* by since its own first line, and it is never more than the maximum      *)
(* after a line that did not raise.                                        *)
MemoryIsItsOwn ==
    phase \in {"running", "charging"} /\ tx.meter /\ tx.enough =>
      /\ tracer.total = IF base = 0 THEN 0 ELSE tracer.last - base
      /\ phase = "running" \/ status = 0 => tracer.total <= MaxMemory

(* A contract sees the environment of its own transaction alone, and the   *)
(* random generator answers only after it was seeded from that.            *)
RuntimeIsItsOwn ==
    phase = "running" => env = tx.environment /\ (seeded => drawable)

(* A private function is only executed by run_private_function(), or while *)
(* the last one of those raised: a call that succeeds restores the check.  *)
PrivatesNeedABypass ==
    [][phase = "idle" /\ phase' # "idle" /\ tx'.private => tx'.call = "private" \/ raised]_evars

(* Between transactions the driver holds nothing of them.                  *)
ExecutorInv == ExecutorTypeOK /\ NothingPending

(* What is paid is what was used, all of it where stamps ran out, and what *)
(* was used but not supplied is less than a line.                          *)
StampsAreAccounted == FeeIsExact /\ OutOfStampsPaysAll /\ OverdrawnByALineAtMost

(* Neither the memory nor the environment nor the seed of a transaction    *)
(* reaches the next one, after whatever exceptions.                        *)
NothingIsInherited == MemoryIsItsOwn /\ RuntimeIsItsOwn
=============================================================================
