# TLA+ models of Contracting

Contracting runs smart contracts written in a subset of Python. A transaction
calls one exported function; the function reads and writes a key-value state
through a stack of caches, pays for what it does in stamps, and calls other
contracts. A node executes transactions speculatively, one time stamp after the
other, makes them durable later (*hard apply*) or takes them back (*rollback*).
This directory holds TLA+ modules of the parts that keep state, the TLC
configurations that check them and TLAPS proofs of the main results. Paths below
are relative to the repository; every definition that models code is listed with
its lines in `PROJECT.json`.

## 1. Inventory

| Part | Code | State | Operations |
|---|---|---|---|
| CacheDriver | `contracting/db/driver.py` 401-604 | `pending_writes`, `pending_reads`, `cache`, `pending_deltas`, the raw driver | get, set, delete, soft_apply, soft_apply_rewards, hard_apply, hard_apply_one, bust_cache, reset_cache, commit, rollback |
| ContractDriver, Hash | `driver.py` 607-739, `db/orm.py` | that of CacheDriver | items, keys, values, get/set_var, set_contract, delete_contract, flush; Hash.all, Hash.clear |
| FSDriver and h5c | `driver.py` 240-382, `db/hdf5/h5c.c` | HDF5 files with a group per key, attributes `value` and `block`; lock directories | get, get_block, set, safe_set, delete, iter, keys, flush |
| InMemDriver, Driver, AsyncDriver | `driver.py` 37-238 | a dict, MongoDB | as FSDriver, but safe_set and flush_file |
| WebDriver, BlockserviceDriver, AsyncContractDriver | `driver.py` 384-399, 742-849 | a web service | get |
| Executor | `execution/executor.py` | `runtime.rt` (environment, tracer, writes), `Seeded.s`, `bypass_privates` | execute |
| Tracer | `execution/metering/tracer.c` | started, cost, stamp_supplied, the memory of the process | start, stop, reset, set_stamp, add_cost, a line event |
| Context and `@export` | `execution/runtime.py` 8-67, `stdlib/bridge/access.py` | a base frame and a stack of frames | call, return, raise |
| Module loader, submission | `execution/module.py`, `db/contract.py`, `contracts/submission.s.py` | MODULE_CACHE, sys.modules, rt.loaded_modules, builtins.__import__ | import, importlib, submit_contract, change_developer, clean_up |
| Client | `client.py` | the submission contract | set_submission_contract, flush, quick_read, quick_write, run_private_function |
| Hybrid logical clock | `hlcpy/__init__.py` | nanoseconds, logical counter, lock | sync, merge, tuple, text, bytes |
| Compiler, linter | `compilation/` | the linter's violations, names, arguments and types; a compiler's alerts and names | check, parse, compile, parse_to_code |
| Parser, importlib | `compilation/parser.py`, `stdlib/bridge/imports.py` | none | what a contract offers: two listings, enforce_interface |
| Encoder, decimal and time bridges | `db/encoder.py`, `stdlib/bridge/decimal.py`, `time.py` | none | encode, decode, arithmetic, comparisons |
| Random, hashing, crypto, config | `stdlib/bridge/`, `config.py` | the seed of random | seed, draws, hashes |

How they meet: `Client` and a node call `Executor.execute()`; it puts the driver
into `rt.env`, starts the tracer, sets the base frame of the context and imports
the contract through the module loader, which reads its code from the driver.
Contracts reach the driver through `Variable` and `Hash`, whose reads and writes
call back into the runtime to be charged. `@export` reads the owner of a contract
from the driver. The node, which is not in this repository, calls soft_apply,
hard_apply and rollback. Several processes may use one storage directory: only
h5c's lock directories are between them.

What is hard in it:

- a read is answered by the first of three layers, each of which may be stale,
  emptied or changed by an operation on deltas that were written long before;
- `None` is a deleted value, an absent value and "not recorded" at once;
- the pre-images for rollback are taken when a transaction first touches a key,
  and used after other transactions were hard applied, busted or rolled back;
- processes may die holding a lock directory, between two attributes of a group,
  or between the check and the write of safe_set, and what HDF5 fails to do nobody is told;
- a transaction may raise anywhere, out of stamps included, and every structure
  outside the driver (frames, modules, tracer, caches) must survive that;
- code run by a submission may submit, import and fail in its turn;
- one linter serves every compiler, a client's compiler serves every contract, and
  either may be left half-way by an exception;
- values live twice, as Python objects in the cache and as JSON on disk, and numbers
  are rounded on the way, keys become texts and tuples lists;
- a key is a text in the caches and a path of groups on disk, where not every text has one of
  its own;
- nodes agree on time stamps that travel as texts or bytes, over clocks that jump, with
  counters of limited width, written by several threads and read by others without a lock.

What makes each part correct:

- CacheDriver: reads return the newest write; soft and hard apply, bust and commit
  are invisible to readers; rollback restores exactly; newer durable values win.
- FSDriver: its calls look atomic to other processes, unless HDF5 fails or a key has two
  writers; half-written groups are never read; calls return.
- The drivers: a node may exchange one for another; later blocks win; a listing finds
  what a read finds.
- Encoder and bridges: a value read from disk is the value that was set, but for what JSON and
  the rounding change, and that changes once; no sequence of operations makes money.
- Clocks: every call moves a clock forward; after merge() it is later than the message.
- Executor: a failed transaction leaves its fee and nothing else; the fee is exact; no
  transaction inherits memory, environment, seed or privileges of an earlier one.
- Context: contract code sees its own frame; an owned contract runs for its owner.
- ContractDriver: a listing finds what a read finds; what is cleared is gone; the items
  of a hash are apart.
- Loader: nothing outlives a transaction; code and owner of a contract never change; a commit
  that a crash cut short does not leave a contract that can be imported open to another
  submission, and leaves no developer to one that is not whole.
- Compiler: a verdict and a compilation depend on their contract alone; renaming keeps
  the meaning of every name; parser and importlib tell what the source offers.

## 2. Modules

`Dicts` has the operations on Python dicts; a dict is a function on the keys it
holds. `RawStore` has the calls of FSDriver as functions of a store. Operators whose
comment begins with "Mutant" are plausible bugs; `PROJECT.json` says which definition
each stands in for and which property then fails.

**CacheDriver** (`driver.py` 401-604) has one variable per attribute and one
action per method. Keys and values are atoms. A time stamp (HLC string) is an
atom with two attributes: `Rank`, its place in the order of strings, which
`sorted()` and `<` use, and `Nanos`, what get_nanos parses from it. hard_apply and
rollback are written in closed form, "for each key the last writer decides" and
"the oldest image decides"; `ClosedFormsAreTheLoops` compares them with the loops of
the code, turn by turn in the order of sorted() (`StoredBelow`, `UndoneFromTop`). `Guarded = FALSE` models time stamps that
are not HLC strings: get_nanos raises, and the code falls back to a plain set.

**LedgerClient** uses CacheDriver as its tests and a node do: soft apply in the
order of time, hard apply from the oldest, commit and reset_cache when nothing is
pending. Each guard that keeps out what the code does not survive can be lifted by
a member of `Liberties` ("rewrite", "delete"). **Ledger** is the abstract
specification: a base, sealed transactions and an open one; reading takes the newest
write. LedgerClient implements it with `base` the durable values, `txs` the second
halves of the deltas, and `open` the pending writes: the cache is not in the mapping
at all.

**H5Store** models the processes that share a storage directory: an h5c call is
spin on mkdir, open, two attribute writes, rmdir; safe_set is two such calls.
`Crash` may end a process anywhere; `torn` and `leaked` are history variables. HDF5 may fail
without anybody being told: `ReadFails` answers None, which safe_set takes for no block;
`WriteValueFails` and `WriteBlockFails` leave an attribute as it was or without contents.
**AtomicStore** is what CacheDriver assumes: each call in one step, by the
operators of RawStore, but on keys in doubt, where a write may leave some of the old and some
of the new attributes, over whatever block (`Blend`). H5Store implements it for any
writers; under the mapping, a group that is half written holds what it held before, and a key is
in doubt (`InDoubt`) while a call on it has seen HDF5 fail, or is a safe_set whose check is no
longer true (`Overtaken`). `DoubtHasACause` says that the latter needs a failure or
another writer.

**Groups** says where FSDriver keeps a key and what it lists it as: `CellOf` splits a text at its
first dot and makes a path of the rest, in which HDF5 takes no notice of empty parts and
of lone dots; `KeyOf` makes a key of a group again. `Ordinary` keys come back as they were
spelled.

**Drivers** gives the same calls to FSDriver, InMemDriver and Driver over MongoDB, side
by side in the variables `fs`, `files`, `mem` and `db`. Keys are sequences of characters
here, because FSDriver splits and sorts them, and MongoDB takes a prefix for a pattern. Its
calls of FSDriver are those of RawStore, with a group of a file for a key: several keys may share
one, and `Apart` are the ordinary keys that share theirs with no other.

**Executor** extends CacheDriver with `execute()`, statement group by statement
group: `Execute` (balance check, set_up), the contract's `Line`, `Read`, `Write`,
`Seed`, `Draw` and `Raise`, then `Succeed` or `HandleException`, `Charge` and `Finish`;
`RunPrivateFunction` is the client's wrapper. A balance counts stamps, so
balance * stamp_cost is the balance. **Tracer** is tracer.c as functions of a record
(`started`, `cost`, `supplied` and the two counters of memory); `Factor` stands for the
1000 by which stamps are multiplied. `before`, `spent`, `base`, `drawable` and `raised`
are history.

**Context** models `ctx`: `base`, `stack`, and, as a ghost of the Python stack,
`calls` and `raised`. A refused call leaves its frame behind while the exception is
on its way up, as in the code. With `SelfCalls` exported functions call each other
within a contract.

**Storage** extends CacheDriver with ContractDriver's listing, storing, deleting and
flushing, with `Hash.all` and `Hash.clear`, and with the client's start,
set_submission_contract, get_contract, quick_read and quick_write. **HashKeys** makes keys
of contracts, variables and indices, as sequences of characters, and refuses the indices
that `_validate_key` refuses; keys are atoms in Storage again, each with its `Text`, the
`Place` on disk where Groups says that it is, and the `Spelling` that a listing gives of it.

**Loader** models MODULE_CACHE, sys.modules, the import hook and submissions. `active` is
the Python stack, as far as it has modules and constructors on it. `state` is what the
transaction reads of a contract (code, compiled code, owner, developer), `durable` what is on
disk; `CommitCode`, `CommitCompiled`, `CommitOwner` and `CommitDeveloper` are the commit, which
writes the keys of a contract one after the other, with `Crash` between any two. Only execute()
asks for the owner, of the contract that it calls.

**Compiler** models Linter and ContractingCompiler: a contract is a sequence of
statements, each a record of what the two visitors look at, and `LintStatement` and
`VisitStatement` visit one at a time, so that an exception leaves the attributes of both
as they are half-way. `linter` is the one Linter, `compilers` holds the client's compiler
and the one a submission makes; `Compiled` is the end of parse(), which forgets the names
only on success. What one expression decides by itself (a name that begins with `_`, a
class, a builtin) is given with the statement, in `flaws`. `Gathered` says what the first
n statements should have given, all at once. The parser's two listings and importlib's
enforce_interface are functions of the code that was compiled.

**HLC** models the clocks of several nodes, their threads and the network. sync() and
merge() are `Enter` (the lock), `Compute` or `Raise`, `SetNanos`, `SetLogical`; readers take
`ReadNanos` and `ReadLogical` without the lock and may send what they read, as text or as
bytes. `wire` loses, repeats and reorders. **StampClock** is the abstract clock: one step,
forward. HLC implements it with `Shown`: the clock, or, while it is locked, what it was.

**Values** is one variable of a contract: `held` is the Python object in the cache, `text`
what `encode()` made of it. A contract computes with what it holds; `Reload` replaces that by
what `decode()` makes of the text. **Encoder** (encode, decode, convert_dict), **Decimals**
(ContractingDecimal over a model of Python's decimal with `Upper` and `Lower` digits) and
**Times** (Datetime, Timedelta) are functions. A value of any depth, and a text too, is a tree:
a function that gives each path of keys and indices the node found there, so that encode()
and decode(), which recurse in the code, say what they make of each node. A dict says which of
its keys are no strings, and a list is told from a tuple: json.dumps makes texts of the one and
lists of the other (`Default`), and encode() does not look into tuples (`Reached`). `ValuesAssumption`
bounds the exponents only by what fix_precision() may give and its context may reach. Numbers carry their Python type, because
division returns a plain Decimal, whose operations are not the wrapped ones.

## 3. Runs

All runs finish in four minutes or less. A property whose name ends in `Inv` and some others
are conjunctions of named parts, each explained where it is defined. Passing runs:

| Run | Instance | States | Shows |
|---|---|---|---|
| cache_driver | 1 key, 2 values, 2 time stamps, one of 0 ns; every call in any order | 16,179 | types, the closed forms, bust_cache hides nothing that is pending, newer durable values win, commit makes what is read durable |
| ledger_client | 2 keys, 2 values, 2 time stamps | 15,760 | the inductive invariant, Ledger is implemented, rollback is exact, readers are disturbed by set and rollback only |
| context | 4 contracts, two of them owned, 2 signers, nesting 5 | 278 | frames, owners |
| h5_store | 2 processes, 2 keys in one file, one of them with two writers, 2 blocks, 3 calls, 1 crash, 2 failures of HDF5 | 194,471 | mutual exclusion, torn groups are shut away, AtomicStore is implemented, safe_set is overtaken only after a failure or by another writer, calls return or their file was left locked by a crash |
| storage | a contract's code, the items h[a] and h[a, a] of its hash and the index "a:a", 1 value, 1 time stamp without nanoseconds | 181,974 | a listing finds what a read finds, a clear is complete once committed, items are apart, the submission contract is durable |
| loader | 2 contracts, 2 codes, 2 users, nesting 3, constructors that submit, flushes, process ends | 934,050 | no module and no hook outlives a transaction, code and owner never change, nor the developer but by the developer, and what a cut commit leaves is the beginning of a contract's keys |
| compiler | contracts of up to 3 statements: an ORM definition, a helper or constructor and an exported function, each in sound and faulty forms; client, submissions and lint calls in any order | 64,354 | verdicts do not mix, renaming keeps what names mean, what is not exported is private, ORM objects are stored under their own contract, parser and importlib find the interface |
| hlc | 2 nodes, 3 threads, clocks of 2 ms of 3 ns, counters of 2, wall clocks 0 to 6, 1 message | 157,091 | the lock is free after errors, readers see reached nanoseconds, StampClock is implemented, merges are later |
| drivers | 4 keys (a.x and a.x:a, `__x.a` and `__x.a:`, which share a group in a file of run_state), 1 value, 2 blocks, 4 prefixes, one of which MongoDB takes for a pattern, limits 1, 2 and none | 59,280 | reads agree, later blocks win, listings agree and find what is readable |
| values | numbers of 2 + 2 digits, ints of 3 bits, dates of 30 days, nested dicts, lists and tuples, keys that are no strings; 3 computations | 40,619 | values survive encoding, disk is never more than cache, transfers and shares make no money, dates and spans agree |
| executor | 1 sender, 2 keys, balances 0-2, 1 or 2 stamps, metered or not, private calls | 2,145,448 | failure leaves the fee only, the fee is exact, nothing stays pending, a success overdraws by less than its last line, nothing is inherited, private functions need a bypass |

Why the bounds suffice. CacheDriver treats keys alike and never relates two of
them, but for bust_cache and hard_apply, whose loops run over keys; two keys meet
in ledger_client and storage. Two values tell an old from a new one, and where only
presence matters one is enough. Two time
stamps give a delta below and one at a rollback point; more of them, and keys whose
names are too long, are covered by the proofs for any set (section 4). The run
storage sets `Guarded = FALSE`, so the fallback of hard_apply to a plain set is
exercised there. In H5Store two processes already interleave all their steps, and
two keys in one file share a lock and differ in their group; three calls are a write that
another overtakes and a third that finds what they left, and two failures spoil a read and the
write that follows. In drivers there are two keys of one group, a key and one that starts
with it, and prefixes that some, all and none of the keys start with; bare keys and names too
long for a file are left to the proofs. In Executor, `Factor`,
the costs and `WriteMax` are small numbers chosen so that every comparison comes
out both ways: costs that overdraw 1 and 2 stamps, and a third write that hits
WriteMax. Nesting 3 to 5 has a call below, at and above the interesting one. In Context
`MaxCalls <= MaxLen` stands for Python's recursion limit of 1000, below the 1024 frames
of RECURSION_LIMIT. In Compiler three statements are enough for every pair that the
linter or the renaming relates (two constructors, an argument and an ORM object on either
side of it, a helper and its user), and all contracts follow one another. In HLC every
limit is reached: the counter after one call on a standing wall clock, the milliseconds by
a wall clock of 6. Two threads of one node contend, one of another node sends. In Values two
digits before the point overflow and two behind it round within three computations.
Named bounds: `Calls`, `Crashes`, `Faults` (H5Store), `MaxCalls` (Context), `Depth` (Loader), `MaxSent`, `Walls`
(HLC), `MaxPeak` (Executor), `MaxComputed`, `MinExponent`, `MaxExponent`, `MaxSpan`,
`MaxFactor` (Values).

CHECK_DEADLOCK is off for H5Store only: its processes stop after `Calls` calls, and
one may spin for ever on a lock that a dead process left.

One run ends in a violation: **phantom**. A contract whose submission was reverted can
still be imported, because MODULE_CACHE keeps its code, although a comment says that
imports come from the database. `PROJECT.json` quotes the line.

Fairness is assumed in h5_store alone, for `CallsReturn`: weak fairness of each
process's next h5c step. A process that is not dead is scheduled again. Strong
fairness for mkdir() is not needed, nor assumed, because each process makes finitely
many calls. The other components are synchronous code, which has no liveness beyond
that of Python.

## 4. Proofs

`CacheDriverProofs` (about CacheDriver, LedgerClient and Executor), `StorageProofs`, `DriversProofs`,
`ExecutionProofs` (about Context and Loader), `CompilerProofs`, `HLCProofs`, `H5StoreProofs` and
`ValuesProofs` hold for every value of the constants that satisfies the named assumptions of
the modules.

- `TypeCorrect`: CacheDriver's `TypeOK` is inductive. The step that needs care is
  rollback, whose closed form picks the oldest writer: HlcAssumption gives that one
  exists.
- `LoopsHaveClosedForms`: what the actions say of hard_apply() and rollback() in closed form is
  what their loops do, for any number of deltas. It is induction over the turns: after the
  deltas of the n lowest ranks a key has what its last writer leaves (`StoredBelowLast`), which
  needs that the earlier ones cannot make the driver refuse a later one, because strings never
  sort against their nanoseconds (`EarlierDoNotRefuse`); after those of the n highest, what
  the oldest recorded (`UndoneFromTopIsFirst`). A recursive function is first shown to be
  what its definition says (`StoredBelowIs`), from the one function that obeys it up to each n.
- `CommitIsDurable`, `BustingHidesNothing` and `NewerIsKept` hold with no protocol at all, of
  calls in any order: each is a fact about one step from any state of the right type.
- `LedgerInvariant`: `LedgerInv` is inductive under the protocol (no liberty is taken,
  and strings sort as time does). That reads return the newest write (`FindIsView`) alone
  is not inductive: a read is right
  only if the cache holds the newest sealed value of every key that a delta still
  writes (`CacheIsSealed`), rollback keeps that only if every recorded pre-image is
  the value below its transaction (`ImagesOfSealed`), that holds at soft_apply only if
  the open transaction's reads are the values below it (`ImageOfOpen`), and hard_apply
  moves the base under all of them only if the guard on block numbers refuses nothing
  (`NoneRefused`).
- `ReadsReturnTheNewestWrite`, `ReadsAreStable`, `RollbackIsExact` and
  `CacheDriverImplementsLedger` follow from it, step by step.
- `ContextInvariant`: the frames match the calls (`FramesMatch`), with one frame too
  many while a refused call's exception passes. It assumes `Protocol`: exported
  functions of a contract do not call each other (section 6 says why) and calls
  are not nested deeper than the stack has room. `ContextIsTrue` and
  `OwnersAreRespected` follow.
- `VerdictCorrect`: the linter's verdict on a contract is its own, for any contracts of any
  length. While the linter walks, it holds what `Gathered` says of the statements behind it
  (`Walking`), which `GatheredNext` carries over one statement and `_reset` establishes; the
  alerts of a compiler are those of its job (`Alerted`). That a parse without lint raises no
  old alerts needs a client that compiles only what will compile (`Careful`).
- `CodeIsWellFormed`, `RenamingKeepsBindings` and `InterfaceSurvives`, for contracts of any length,
  from one invariant, `RInv`: while the compiler walks, the statements behind it are transformed,
  the others are as the source has them, and the names that it gathered are those of the
  statements behind it, no more and no fewer (`Rewriting`). That the sets are empty where a
  compilation begins (`NothingLeft`) needs `Careful`. What the renaming then does to one name is
  reasoned about once, for a whole accepted contract.
- `ClocksAreLocked`, `ClocksTick` and `MergesAreLater`, from one invariant, `Inv`. Mutual
  exclusion is `HeldFromInside` with `LocksAreLocal`; that what a thread will write is later
  than what it found, and still found there, is `Working`, which the others of the node
  cannot disturb because they are not inside (`AloneInside`). That a message says of its
  sender's time what the code promises is `Truthful`: kept by the network, because it only
  copies, and true at sending by arithmetic on the limits (`TextIsTruthful`,
  `BytesAreTruthful`), which needs nothing of them but that floats lose less than a
  millisecond. `HLCAssumption` is all that is assumed.
- `LocksExclude` and `CallsAreAtomic`, from `AtomicInv`. Its first part is inductive by itself:
  types, exclusion and `leaked \subseteq locks`, for the directory of a dead process is never
  removed, so that a group that it tore stays shut. The second says what each call asked for
  and saw (`Asked`): a safe_set that goes on has seen no newer block, so it is the step of the
  atomic store if what it saw is still stored, and if not its key is in doubt; so it is after
  a failure, and then a `Blend` is all that a write can leave. The third is `DoubtHasACause`
  (`Caused`): nobody but another writer or a failure makes a check untrue, neither calls on
  other keys nor a crash. No assumption is made on who writes what.

- `NothingStaysPending`, `FailureLeavesTheFee` and `FeesAreExact` assume `AutoCommit`, and amounts
  closed downwards (`ExecutorAssumption`), since a fee may leave any of them. The
  layers are empty where a transaction begins, is charged and ends, but for the one balance
  that the charge writes (`LayersOK`), so what the store holds is what the transaction found
  until its commit (`StoreKept`), and the balance that is charged is the one it found unless the
  contract wrote it and succeeded (`FeeKept`). That a success overdraws by less than a line
  needs that every line before the last found the cost within the stamps (`Metered`), and that
  an overdraft pays everything is arithmetic (`OverdraftRoundsUp`). `TransactionsAreApart`
  (`Memory`, `Surroundings`) and `PrivatesStayPrivate` (`Bypassed`) hold in every mode.

- `NoModuleIsInherited`, `ContractsAreWhole` and `CodeNeverChanges`, with every liberty of
  Loader. A module in sys.modules has finished, so that clean_up will find it, or is still
  executing, so that an exception will take it out (`Modules`). A contract whose code is there
  without the rest is being stored, or its transaction raised, or a commit was cut short; on
  disk, every beginning of its keys may be found, but nothing else (`Entries`). Nothing
  runs between the two halves of `set_contract` (`OneStores`), so the owner and the
  developer that the second half writes replace none.

- `ListingsAreReads` and `ItemsStayApart` are about texts, of keys that FSDriver lists as they
  are spelled, which StorageAssumption asks for: no slash in them and no empty part. Such a key
  has its group to itself (`PlacesAreApart`), and a listing finds the keys that are there
  (`IterIs`). A key is its parts, each ended by a
  colon, without the last one (`EndedIsJoined`), and as no part has a colon in it, one such text
  starts with another only if its parts start with those of the other (`EndedTells`). So a key
  starts with the prefix of a listing exactly if it is that of an item of the same hash whose
  index goes on from the arguments (`KeysTell`), and no two items share a key
  (`KeysAreApart`). This is induction over the number of parts, by the least number for
  which the claim would fail (`Induction`). `OnlyItems` is assumed for the first: what
  has a colon in it is the key of an item. set_var() and quick_write(), which do not look at an
  index, could break it.
- `ClearsAreCompleted` and `SubmissionsAreThere`, from `StorageIInv`. A None is a deleted value, an
  absent one and "not recorded" at once, so a clear is complete, and a contract is there, only
  if no None hides a value that a later call brings back: a None in the cache, among the
  reads or among the recorded images is over a layer that reads None too
  (`Layers`, made of `NoneCached`, `NoneRead` and `NoneBefore`). Then what was cleared is gone,
  or the open transaction has yet to delete it (`StillCleared`), and no call deletes a
  contract's code (`CodeStays`), and between the calls of set_submission_contract() nothing
  else happens to it (`Busy`). Soft applying keeps this only if it is the latest
  (`Latest`), as a node does it. FSDriver writes nothing under a name that is too long, so the
  invariant is about the other keys; `ShortNames`, which `SubmissionsAreThere` assumes, says that
  contracts have such names.

- `LaterBlocksWin`, `PlainKeysReadTheSame` and `ListingsFind`, from `DInv`. First come facts about
  texts: the first dot of a key makes its file and its variable (`DottedIs`), and the group of an
  ordinary key spells its variable, so no two ordinary keys share a group (`CellsAreApart`); of
  the keys that are `Apart` a call changes its own only (`Same`, `Gone`),
  and a prefix with a dot has keys of a single file (`PrefixIsOfOneFile`). That reads agree is not
  enough for listings, because FSDriver names every group that is not empty, in every file that
  there is: a plain key has no block number either (`PlainHaveNoBlock`), and every group has
  its file (`GroupsHaveFiles`). A limit needs that the order of the lists is total
  (`BeforeIsTotal`), so that its first n keys are n at most (`CutIsBounded`); MongoDB's lists
  are compared key by key (`ListingsDoAgree`). `DriversAssumption` leaves out some of what
  section 6 says that the drivers disagree about: the file `__misc` spelled out, slashes in
  names of contracts and block 0. Slashes, empty parts and lone dots behind the first dot are in,
  and what the theorems say is about the other keys.

- `ValuesSurvive`, `DiskHasNoMore`, `MoneyIsNotMade` and `TimesAgree`, for any precision,
  calendar and range of integers, from `IInv`: what is held is made of data that encode() takes, and
  the text, if there is one, is the encoding of what is held or of what it was before it was
  read back (`TextOf`). `Reload` keeps that, and the promises follow, because a decimal is
  changed by the first pass through the disk and by no other (`FixedOnce`), everything else
  comes back as JSON has it (`OtherKept`), and a second pass therefore changes no
  node (`NodeOnce`, `BackIs`), inside lists too, as far as encode() reaches into them
  (`ListsReached`). The second text need not be the first: a big integer in a tuple is written
  raw, and boxed once the tuple has become a list. Decimals of different exponents are compared at any
  common one (`ExceedsIs`); a result fits the digits of its context (`ContextDigits`), whatever
  it was computed from, so fix_precision() drops less than a unit (`LessThanUnit`) and never
  adds (`DecimalFixed`). For money, transfers are sums of whole units (`TransferConserves`) and
  a share is at most what it is a share of (`ShareAtMost`). Powers of ten and numbers of digits
  are recursive functions, unfolded as above (`TenIs`, `DigitsOfIs`). That the span between two
  dates leads back to the later one (`LeadsBack`), and that a span is the parts it names
  (`SpanKept`, `PartsOfAll`), are facts about `\div` and `%`.

Induction over numbers is by the least one for which a claim would fail (`NatInSet`, `Induction`), because the
library's induction theorems take an operator, which no installed prover can instantiate.

Only model-checked: `CallsReturn`, because TLAPS does not reach liveness. Every other property of a
passing run is stated by a theorem.

## 5. What the models leave out

- A value that cannot be encoded raises before anything changes; like a get
  that runs out of stamps it leaves a state that the models reach anyway. The spelling of
  JSON is left out: a text is the JSON value that it denotes.
- Key names: a key whose file name has 255 characters or more is silently not written,
  which `LongKeys` and `LongFiles` model.
- Keys with slashes, empty parts or lone dots in Storage: `StorageAssumption` leaves them out,
  and Drivers has them.
- HDF5 failing in another way than by a value: what it fails to open, create, read or write is
  modelled, a file that it damages is not. That get() takes a failed read for a missing value
  is in the model, but no promise is made of it.
- `set_nanos()` of a clock (`hlcpy/__init__.py` 106) takes no lock and may move the clock back.
  Nothing in the repository calls it; HLC has no such action, and could not implement
  `StampClock` with one.
- CacheDriver's `commit()` and `hard_apply()` write their keys in one step; a crash between
  two keys is modelled in Loader, for the keys of contracts.
- The 'reads' and 'rewards' of a delta, which nothing in the repository reads back.
- Costs per opcode: a line costs any of `CuCosts`, reads and writes one amount each.
- Sandboxing, which is named and not there; which single expressions the linter refuses.
- In Compiler: functions inside functions, which are reported but not visited, the
  rewriting of float literals, and the printing of the tree.
- In Encoder: a dict with two keys of one text, such as 1 and '1', of which JSON keeps both and
  decode() the last.
- In Decimals: powers, divmod, round and conversions to float. A user's dict with a key such
  as `__time__` is decoded as what it looks like, and kept out by the choice of `Inputs`.
- flush() of FSDriver under other processes (`driver.py` 323): it removes their lock
  directories with everything else, so that no property of H5Store can hold over it.
- AsyncDriver is Driver statement for statement with awaits, and nothing runs two of its calls
  at a time; BlockserviceDriver and WebDriver only read, WebDriver never its own writes;
  every call of AsyncContractDriver but its constructor raises AttributeError, for
  self.cache, self.get and self.delimiter, which nothing defines.
- Hashing and crypto bridges (no state), configuration (constants).

## 6. Divergences without a run of their own

Met while modelling; each is kept out of the passing properties by a constant, a guard or a
premise, and changing that shows it.

CacheDriver and its users:

- A key without a value that a transaction touches twice is recorded with the transaction's
  own first write, which rollback restores (`driver.py` 449). `Liberties = {"rewrite"}` in
  LedgerClient violates `LedgerInv`.
- A logical counter of 10 sorts before one of 2, as strings do, so that rollback and hard_apply
  take the wrong deltas (`driver.py` 502). `TenHlcs` with `TenTime`, `TenNanos` and `TenRank` in
  `MCLedgerClient` violate `RollbackRestores`.
- soft_apply_rewards puts its writes into the cache and under 'rewards' in the delta;
  rollback, hard_apply and bust_cache look at 'writes' only (`driver.py` 488). Adding
  `SoftApplyRewards(h)` to `ClientNext` violates `RollbackRestores`.
- delete() writes None, and find() takes None for "not found" and goes on to the cache and
  the store, so a deleted key reads as its durable value until commit (`driver.py` 419),
  although `docs/docs/concepts/storage.md` 381 says of clear() "All entries have been
  deleted". `Liberties = {"delete"}` in LedgerClient violates `LedgerInv`.

Drivers:

- safe_set checks the block number under one lock and writes under another (`driver.py`
  310), and takes a failed read for a key without a block (`h5c.c` 103), so that another writer
  in between, or a failure, lets an older block replace a newer one; and a failed
  write leaves one attribute of two (`h5c.c` 43). AtomicStore allows it on keys in doubt and
  nowhere else.
- After a plain set InMemDriver holds the text 'None' for a block number, and a later numbered
  set of the key raises ValueError; set(None, block) makes it forget the block; the int 0
  counts as no number for FSDriver. `x` is the same key as `__misc.x`, and a prefix without a dot finds nothing there.
  Over MongoDB a prefix is a pattern, and a limit cuts before sorting. A missing key is None
  to `driver[key]` of FSDriver and KeyError to the others.

- A slash in a key comes back from FSDriver as a colon, and HDF5 takes no notice of empty
  parts of a path (`driver.py` 255, 269): `h['a/b']` and `h['a', 'b']` are one item on disk and
  two in the cache, `h['a', '']` is `h['a']`, and `h['']` has the group of the hash itself, although
  `_validate_key` accepts them all (`orm.py` 57-82). `PlainReadsAgree` over all of `Names`
  instead of `Apart` is violated in `MCDrivers.cfg`.

Contracts' storage:

- items() lets the cached value of a key hide the one that the open transaction wrote
  (`driver.py` 625); `ListedIsReadable` excepts keys held in both.
- FSDriver.iter takes a prefix without a dot for a key of `__misc` (`driver.py` 347), so
  delete_contract deletes nothing that is durable and set_submission_contract keeps the
  old code; `StorageInv` therefore promises a contract, not the one it was given.
- `h.clear('')` clears the whole hash, and `h[()]` is `h['']`. get_var, set_var and the quick_
  calls do not validate their arguments, so they reach keys that are no items: `OnlyItems`
  is what the listings need of them.
- A contract whose name makes a file name too long is submitted without an error, and not
  written: `ShortNames` excludes it. get_contracts lists files, so deleted contracts stay listed.
- `rollback_drivers` raises AttributeError over every raw driver.

Execution:

- An exported function that calls another of its own contract loses its frame
  (`access.py` 31). `SelfCalls = TRUE` in Context violates `ContextInv`.
- Without auto_commit a transaction that ran out of stamps keeps its writes pending
  (`executor.py` 133). `Modes = {FALSE}` violates `ExecutorInv`.
- The tracer compares before it adds the cost of a line (`tracer.c` 143), so a
  transaction may succeed at a cost above its stamps, by less than one line:
  `OverdrawnByALineAtMost` says how much.
- A sender whose balance is too small for the stamps is charged all the same, what there is
  and no more than the stamps. The client's default `now` is put into a dict that all calls
  share, so that it stays that of the first (`client.py` 144).
- A module is stale if a contract is submitted with other code after a flush. execute() imports
  the contract that is called with the import hook off. A contract whose commit was cut short
  cannot be submitted again until a flush. After its code alone it cannot be imported either; after
  its compiled code it can, by everybody until its owner is written, and without a
  developer nobody can change that (`driver.py` 563, 678-682).

Compilation:

- A compilation that fails leaves its names in the compiler (`compiler.py` 43), so a client
  that goes on with that compiler gets code in which another contract's names are renamed;
  and a parse without lint raises the alerts of an earlier one (`compiler.py` 30).
  `Liberties = {"careless"}` in Compiler violates `BindingsKept`, with "unlinted" also
  `VerdictIsItsOwn`.
- The linter compares arguments with ORM names only (`linter.py` 262), so an argument with the
  name of a private function is read as that function, though a comment says that only private
  names are renamed (`compiler.py` 33; as an invariant of `MCCompiler.cfg`, `ArgumentsAreRead` is
  violated), and an exported function with that name is called as it; `BindingsKept` excepts both (`HidesArgument`, `HidesExport`).
  The linter does not look at the name of a function
  either, so names of functions that begin with `__` are kept out by CompilerAssumption.
- A ForeignVariable or ForeignHash that is given `contract` or `name` passes the linter and
  gets the keyword twice (`linter.py` 116), though S11 is the overloading of keywords (as an
  invariant of `MCCompiler.cfg`, `NoKeywordTwice` is violated). `StoredUnderOwnName` is about
  Variable and Hash.
- The check of a return annotation looks at the annotation of the last argument
  (`linter.py` 224): S18 is never reported, and without arguments the check raises.
  `LintCrashes` has both.
- variables_for_contract raises AttributeError where a contract assigns the result of a method
  above its first function. enforce_interface accepts for a variable anything that is neither
  a Datum nor a function, such as a name of the standard library, and raises AttributeError
  if a function is asked for under the name of an ORM object.

Time and numbers:

- As bytes a time stamp may come back up to 128 ns earlier, for the division is in floats
  (`Slack`), and in the last millisecond before 2^43 it wraps to 0. tuple() may read the
  nanoseconds of one moment with the counter of another.
- A plain Decimal that a division left may grow beyond the maximum and reads as the maximum
  from disk; numbers as short as 1.5E-31 are not rounded; so a node with a cold cache may
  compute with another number than one with a warm cache. `DiskIsNoMore` says by how much.
- JSON has no tuples and no keys but texts (`encoder.py` 99): a list is read from disk where a
  tuple was set, and '1', 'true' or 'null' where a dict had the key 1, True or None, so that a node
  that still has its cache and one that has not read different values
  (`tests/unit/test_encode.py` 170-177 has such a dict, for convert_dict() alone). `AsJson` says what changes.
- get() returns the list or dict in the cache, which a contract may change without set().

## 7. Plan

Done: the inventory of section 1 but for what section 5 leaves out, its runs, and the proofs of
section 4. What could follow is what section 5 names: costs per opcode, crashes between the keys
of a commit() that is not a submission's, and powers and roundings of decimals.
