------------------------------ MODULE H5Store ------------------------------
(***************************************************************************)
(* FSDriver at the grain of its processes: each h5c call of                *)
(* contracting/db/hdf5/h5c.c takes the lock directory of a file, works on  *)
(* the attributes of one group of it and removes the directory, and        *)
(* safe_set() is two such calls.  A process may die between any two steps, *)
(* and HDF5 may fail in any of them: h5c drops what it returns.            *)
(***************************************************************************)
EXTENDS RawStore, Dicts

CONSTANTS
    Procs,      \* processes that share the storage directory
    Files,      \* HDF5 files, one for each contract
    FileOf,     \* the file that holds a key
    Blocks,     \* the block numbers that are used
    WritersOf,  \* the processes that write a key
    Calls,      \* bound on the calls of all processes
    Crashes,    \* bound on the deaths of all processes
    Faults      \* bound on the failures of HDF5

ASSUME H5Assumption ==
    /\ FileOf \in [Keys -> Files]
    /\ Blocks \subseteq Nat
    /\ WritersOf \in [Keys -> SUBSET Procs]
    /\ Calls \in Nat
    /\ Crashes \in Nat
    /\ Faults \in Nat

VARIABLES
    disk,       \* the attributes of each group
    locks,      \* the files whose lock directory exists
    proc,       \* the call that each process executes
    left,       \* calls that may still be made
    deaths,     \* deaths that may still happen
    faults,     \* failures of HDF5 that may still happen
    torn,       \* history: what half-written groups held before
    leaked      \* history: the files whose holder died

vars == <<disk, locks, proc, left, deaths, faults, torn, leaked>>

(* A safe_set() is first a check, which is the h5c call of get_block, and  *)
(* then, once it has seen no newer block, a write.                         *)
Ops == {"get", "set", "check", "safe_set", "delete"}

Entry == [value : MaybeValue, block : Blocks \cup {NoBlock}]

(* failed says that HDF5 has failed since FSDriver was called.             *)
Call == [op : Ops, key : Keys, entry : Entry, seen : Blocks \cup {NoBlock},
         at : {"spin", "open", "half", "close"}, failed : BOOLEAN]

Idle == [op |-> "none"]

TypeOK ==
    /\ disk \in [Keys -> Entry]
    /\ locks \subseteq Files
    /\ proc \in [Procs -> Call \cup {Idle}]
    /\ left \in 0..Calls
    /\ deaths \in 0..Crashes
    /\ faults \in 0..Faults
    /\ torn \in Dict(Keys, Entry)
    /\ leaked \subseteq Files

Init ==
    /\ disk = [k \in Keys |-> NoEntry]
    /\ locks = {}
    /\ proc = [p \in Procs |-> Idle]
    /\ left = Calls
    /\ deaths = Crashes
    /\ faults = Faults
    /\ torn = EmptyDict
    /\ leaked = {}

-----------------------------------------------------------------------------
At(p, places) == proc[p] # Idle /\ proc[p].at \in places
Holding == {"open", "half", "close"}
File(p) == FileOf[proc[p].key]
Reads(p) == proc[p].op \in {"get", "check"}

(* FSDriver is called.  A call with a key too long for a file name returns *)
(* at once, and so leaves no trace here.                                   *)
Begin(p, op, k, entry) ==
    /\ proc[p] = Idle /\ left > 0
    /\ op # "get" => p \in WritersOf[k]
    /\ k \notin LongKeys
    /\ proc' = [proc EXCEPT ![p] =
                  [op |-> op, key |-> k, entry |-> entry, seen |-> NoBlock, at |-> "spin",
                   failed |-> FALSE]]
    /\ left' = left - 1
    /\ UNCHANGED <<disk, locks, deaths, faults, torn, leaked>>

BeginGet(p, k) == Begin(p, "get", k, NoEntry)

BeginDelete(p, k) == Begin(p, "delete", k, NoEntry)

(* set() without a block number.                                           *)
BeginSet(p, k) ==
    \E v \in MaybeValue : Begin(p, "set", k, [value |-> v, block |-> NoBlock])

BeginSafeSet(p, k) ==
    \E v \in MaybeValue, b \in Blocks : Begin(p, "check", k, [value |-> v, block |-> b])

-----------------------------------------------------------------------------
MoveTo(p, place) == proc' = [proc EXCEPT ![p].at = place]

(* Mutant: a lock directory that exists is taken for one just made.        *)
AcquireExisting(p) ==
    /\ At(p, {"spin"})
    /\ locks' = locks \cup {File(p)}
    /\ MoveTo(p, "open")
    /\ UNCHANGED <<disk, left, deaths, faults, torn, leaked>>

(* Mutant: the lock of a process that is dead is taken over.               *)
AcquireLeaked(p) ==
    /\ At(p, {"spin"}) /\ File(p) \notin locks \ leaked
    /\ locks' = locks \cup {File(p)}
    /\ leaked' = leaked \ {File(p)}
    /\ MoveTo(p, "open")
    /\ UNCHANGED <<disk, left, deaths, faults, torn>>

(* lock_acquire: mkdir() is tried until it succeeds.                       *)
Acquire(p) ==
    /\ At(p, {"spin"}) /\ File(p) \notin locks
    /\ locks' = locks \cup {File(p)}
    /\ MoveTo(p, "open")
    /\ UNCHANGED <<disk, left, deaths, faults, torn, leaked>>

(* Mutant: the block of an entry that is deleted is not looked for.        *)
ReadOfDeleted(p) ==
    /\ At(p, {"open"}) /\ Reads(p)
    /\ LET entry == disk[proc[p].key]
       IN  proc' = [proc EXCEPT ![p].at = "close",
                                ![p].seen = IF entry.value = None THEN NoBlock ELSE entry.block]
    /\ UNCHANGED <<disk, locks, left, deaths, faults, torn, leaked>>

(* get_attr                                                                *)
Read(p) ==
    /\ At(p, {"open"}) /\ Reads(p)
    /\ proc' = [proc EXCEPT ![p].at = "close", ![p].seen = disk[proc[p].key].block]
    /\ UNCHANGED <<disk, locks, left, deaths, faults, torn, leaked>>

(* The file, the attribute or its contents cannot be read.  get_attr then  *)
(* answers None, which safe_set() takes for a key without a block.         *)
ReadFails(p) ==
    /\ At(p, {"open"}) /\ Reads(p)
    /\ faults > 0 /\ faults' = faults - 1
    /\ proc' = [proc EXCEPT ![p].at = "close", ![p].seen = NoBlock, ![p].failed = TRUE]
    /\ UNCHANGED <<disk, locks, left, deaths, torn, leaked>>

PutsValue(p, v) ==
    /\ disk' = [disk EXCEPT ![proc[p].key].value = v]
    /\ torn' = Put(torn, proc[p].key, disk[proc[p].key])

PutsBlock(p, b) ==
    /\ disk' = [disk EXCEPT ![proc[p].key].block = b]
    /\ torn' = Without(torn, {proc[p].key})

FailsAt(p, place) ==
    /\ faults > 0 /\ faults' = faults - 1
    /\ proc' = [proc EXCEPT ![p].at = place, ![p].failed = TRUE]

(* The two write_attr() of the h5c set, or the two H5Adelete() of delete.  *)
WriteValue(p) ==
    /\ At(p, {"open"}) /\ ~Reads(p)
    /\ PutsValue(p, proc[p].entry.value)
    /\ MoveTo(p, "half")
    /\ UNCHANGED <<locks, left, deaths, faults, leaked>>

(* The old attribute cannot be deleted, or the new one not be created or   *)
(* written (one without contents reads as None).  Nobody is told.          *)
WriteValueFails(p) ==
    /\ At(p, {"open"}) /\ ~Reads(p)
    /\ \E v \in {disk[proc[p].key].value, None} : PutsValue(p, v)
    /\ FailsAt(p, "half")
    /\ UNCHANGED <<locks, left, deaths, leaked>>

(* Mutant: without a block number the text 'None' is stored, as str() does.*)
WriteBlockText(p) ==
    /\ At(p, {"half"})
    /\ disk' = [disk EXCEPT ![proc[p].key].block =
                  IF proc[p].op = "set" THEN None ELSE proc[p].entry.block]
    /\ torn' = Without(torn, {proc[p].key})
    /\ MoveTo(p, "close")
    /\ UNCHANGED <<locks, left, deaths, faults, leaked>>

WriteBlock(p) ==
    /\ At(p, {"half"})
    /\ PutsBlock(p, proc[p].entry.block)
    /\ MoveTo(p, "close")
    /\ UNCHANGED <<locks, left, deaths, faults, leaked>>

WriteBlockFails(p) ==
    /\ At(p, {"half"})
    /\ \E b \in {disk[proc[p].key].block, NoBlock} : PutsBlock(p, b)
    /\ FailsAt(p, "close")
    /\ UNCHANGED <<locks, left, deaths, leaked>>

(* Mutant: the error path does not release the lock.                       *)
OpenFailsHolding(p) ==
    /\ At(p, {"open"}) /\ proc[p].op \in {"set", "safe_set"}
    /\ proc' = [proc EXCEPT ![p] = Idle]
    /\ UNCHANGED <<disk, locks, left, deaths, faults, torn, leaked>>

(* The file can be neither opened nor created: the set raises OSError.     *)
OpenFails(p) ==
    /\ At(p, {"open"}) /\ proc[p].op \in {"set", "safe_set"}
    /\ locks' = locks \ {File(p)}
    /\ proc' = [proc EXCEPT ![p] = Idle]
    /\ UNCHANGED <<disk, left, deaths, faults, torn, leaked>>

(* Mutant: the number that was read is not compared.                       *)
ReturnedUnchecked(p) ==
    IF proc[p].op = "check"
    THEN [proc[p] EXCEPT !.op = "safe_set", !.at = "spin"] ELSE Idle

(* What the process does when an h5c call returns.                         *)
Returned(p) ==
    IF proc[p].op = "check" /\ proc[p].entry.block >= proc[p].seen
    THEN [proc[p] EXCEPT !.op = "safe_set", !.at = "spin"] ELSE Idle

(* lock_release                                                            *)
Release(p) ==
    /\ At(p, {"close"})
    /\ locks' = locks \ {File(p)}
    /\ proc' = [proc EXCEPT ![p] = Returned(p)]
    /\ UNCHANGED <<disk, left, deaths, faults, torn, leaked>>

(* The process dies and is started again.  Nobody removes its lock.        *)
Crash(p) ==
    /\ deaths > 0 /\ proc[p] # Idle
    /\ deaths' = deaths - 1
    /\ leaked' = IF At(p, Holding) THEN leaked \cup {File(p)} ELSE leaked
    /\ proc' = [proc EXCEPT ![p] = Idle]
    /\ UNCHANGED <<disk, locks, left, faults, torn>>

Step(p) ==
    \/ Acquire(p)
    \/ Read(p)
    \/ WriteValue(p)
    \/ WriteBlock(p)
    \/ Release(p)

Next ==
    \E p \in Procs :
      \/ \E k \in Keys : BeginGet(p, k) \/ BeginDelete(p, k) \/ BeginSet(p, k) \/ BeginSafeSet(p, k)
      \/ Step(p)
      \/ OpenFails(p)
      \/ ReadFails(p) \/ WriteValueFails(p) \/ WriteBlockFails(p)
      \/ Crash(p)

Spec == Init /\ [][Next]_vars

(* A running process goes on.  The others make finitely many calls, so one *)
(* that spins needs no more luck with mkdir() than this.                   *)
FairSpec == Spec /\ \A p \in Procs : WF_vars(Step(p))

-----------------------------------------------------------------------------
(* At most one process works on a file, and only where a lock directory    *)
(* says so; the directory of a dead process keeps everybody out.           *)
Exclusive ==
    \A p \in Procs : At(p, Holding) =>
      /\ File(p) \in locks \ leaked
      /\ \A q \in Procs : At(q, Holding) /\ File(q) = File(p) => q = p

(* Nobody opens the file of a half-written group, not even after its       *)
(* writer died between the two attributes.                                 *)
TornIsShut ==
    \A k \in DOMAIN torn :
      /\ FileOf[k] \in locks
      /\ \A p \in Procs : At(p, Holding) /\ File(p) = FileOf[k]
           => proc[p].key = k /\ At(p, {"half"})

(* What the readers of a key may see: a half-written group is shut.        *)
Stored == [k \in Keys |-> IF k \in DOMAIN torn THEN torn[k] ELSE disk[k]]

(* safe_set() is about to write by a check that is no longer true.         *)
Overtaken(p) ==
    /\ \/ proc[p].op = "check" /\ At(p, {"close"})
       \/ proc[p].op = "safe_set" /\ At(p, {"spin", "open", "half"})
    /\ proc[p].seen # Stored[proc[p].key].block

(* The keys of calls in which HDF5 failed or whose check is not true.      *)
InDoubt ==
    {k \in Keys : \E p \in Procs :
       proc[p] # Idle /\ proc[p].key = k /\ (proc[p].failed \/ Overtaken(p))}

(* The calls of FSDriver look atomic to everybody, and a write cut short   *)
(* by a crash never happened; on a key in doubt a write may be no more     *)
(* than some of its attributes, over whatever block.                       *)
A == INSTANCE AtomicStore WITH store <- Stored, doubted <- InDoubt

ImplementsAtomicStore == A!AtomicSpec

(* The two calls of safe_set() agree on what is stored, whatever lies      *)
(* between them, unless HDF5 has failed or the key has another writer.     *)
DoubtHasACause ==
    \A p \in Procs : proc[p] # Idle /\ Overtaken(p) =>
      proc[p].failed \/ \E q \in WritersOf[proc[p].key] : q # p

(* Every call returns, or its file is one that a dead process left locked: *)
(* neither errors nor crashes in other files keep a process spinning.      *)
CallsReturn ==
    \A p \in Procs, f \in Files :
      proc[p] # Idle /\ File(p) = f ~> proc[p] = Idle \/ f \in leaked

(* Locks protect groups and processes from each other, and from the dead;  *)
(* and a check that no lock protects is overtaken for a cause only.        *)
H5Inv == TypeOK /\ Exclusive /\ TornIsShut /\ DoubtHasACause
=============================================================================
