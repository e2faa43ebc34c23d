--------------------------- MODULE H5StoreProofs ---------------------------
(***************************************************************************)
(* The lock directories of h5c, for any processes, files, keys and blocks: *)
(* mutual exclusion with processes that die, and calls that are atomic on  *)
(* every key that is not in doubt, with what it takes to put one there.    *)
(***************************************************************************)
EXTENDS H5Store, TLAPS

Inv ==
    /\ TypeOK
    /\ leaked \subseteq locks
    /\ Exclusive
    /\ TornIsShut

-----------------------------------------------------------------------------
(* Calls.                                                                  *)

LEMMA IdleIsNoCall == Idle \notin Call
  BY DEF Idle, Call, Ops

LEMMA Kinds ==
    ASSUME TypeOK, NEW p \in Procs, proc[p] # Idle
    PROVE  proc[p] \in Call /\ File(p) \in Files
  BY H5Assumption DEF TypeOK, Call, File

(* Where a step of an h5c call leaves its process and all others.          *)
Goes(p, place) ==
    /\ proc' \in [Procs -> Call \cup {Idle}]
    /\ proc'[p] # Idle /\ proc'[p] \in Call /\ proc'[p].at = place
    /\ proc'[p].key = proc[p].key /\ proc'[p].op = proc[p].op
    /\ proc'[p].entry = proc[p].entry
    /\ proc[p].failed => proc'[p].failed
    /\ \A q \in Procs \ {p} : proc'[q] = proc[q]

LEMMA Changed ==
    ASSUME TypeOK, NEW p \in Procs, proc[p] # Idle, NEW call \in Call,
           NEW place \in {"spin", "open", "half", "close"},
           call.at = place, call.key = proc[p].key, call.op = proc[p].op,
           call.entry = proc[p].entry, proc[p].failed => call.failed,
           proc' = [proc EXCEPT ![p] = call]
    PROVE  Goes(p, place) /\ proc'[p] = call
<1>1. proc'[p] = call /\ call # Idle /\ \A q \in Procs \ {p} : proc'[q] = proc[q]
  BY IdleIsNoCall DEF TypeOK
<1>2. proc' \in [Procs -> Call \cup {Idle}]
  BY DEF TypeOK
<1> QED  BY <1>1, <1>2 DEF Goes

LEMMA Moved ==
    ASSUME TypeOK, NEW p \in Procs, proc[p] # Idle,
           NEW place \in {"spin", "open", "half", "close"}, MoveTo(p, place)
    PROVE  /\ Goes(p, place)
           /\ proc'[p].seen = proc[p].seen /\ proc'[p].failed = proc[p].failed
<1>1. proc[p] \in Call
  BY Kinds
<1>2. PICK call : call = [proc[p] EXCEPT !.at = place]
  OBVIOUS
<1>3. /\ call \in Call /\ call.at = place /\ call.key = proc[p].key
      /\ call.op = proc[p].op /\ call.entry = proc[p].entry
      /\ call.seen = proc[p].seen /\ call.failed = proc[p].failed
  BY <1>1, <1>2 DEF Call, Ops
<1>4. proc' = [proc EXCEPT ![p] = call]
  BY <1>2 DEF MoveTo, TypeOK
<1>5. Goes(p, place) /\ proc'[p] = call
  BY <1>3, <1>4, Changed
<1> QED  BY <1>3, <1>5

LEMMA Failed ==
    ASSUME TypeOK, NEW p \in Procs, proc[p] # Idle,
           NEW place \in {"spin", "open", "half", "close"}, FailsAt(p, place)
    PROVE  Goes(p, place) /\ proc'[p].failed /\ faults' \in 0..Faults
<1>1. proc[p] \in Call
  BY Kinds
<1>2. PICK call : call = [proc[p] EXCEPT !.at = place, !.failed = TRUE]
  OBVIOUS
<1>3. /\ call \in Call /\ call.at = place /\ call.key = proc[p].key
      /\ call.op = proc[p].op /\ call.entry = proc[p].entry /\ call.failed
  BY <1>1, <1>2 DEF Call, Ops
<1>4. proc' = [proc EXCEPT ![p] = call]
  BY <1>2 DEF FailsAt, TypeOK
<1>5. Goes(p, place) /\ proc'[p] = call
  BY <1>3, <1>4, Changed
<1>6. faults' \in 0..Faults
  BY H5Assumption DEF FailsAt, TypeOK
<1> QED  BY <1>3, <1>5, <1>6

LEMMA PutIsDict ==
    ASSUME NEW D, NEW R, NEW d \in Dict(D, R), NEW k \in D, NEW v \in R
    PROVE  Put(d, k, v) \in Dict(D, R)
<1>1. PICK S \in SUBSET D : d \in [S -> R]
  BY DEF Dict
<1>2. Put(d, k, v) \in [S \cup {k} -> R] /\ S \cup {k} \in SUBSET D
  BY <1>1 DEF Put
<1> QED  BY <1>2 DEF Dict

LEMMA WithoutIsDict ==
    ASSUME NEW D, NEW R, NEW d \in Dict(D, R), NEW T
    PROVE  Without(d, T) \in Dict(D, R)
<1>1. PICK S \in SUBSET D : d \in [S -> R]
  BY DEF Dict
<1>2. Without(d, T) \in [S \ T -> R] /\ S \ T \in SUBSET D
  BY <1>1 DEF Without
<1> QED  BY <1>2 DEF Dict

LEMMA DictDomain ==
    ASSUME NEW D, NEW R, NEW d \in Dict(D, R)
    PROVE  DOMAIN d \subseteq D /\ \A k \in DOMAIN d : d[k] \in R
  BY DEF Dict

-----------------------------------------------------------------------------
(* The steps.                                                              *)

LEMMA InitInv == Init => Inv
<1> SUFFICES ASSUME Init PROVE Inv
  OBVIOUS
<1>1. NoEntry \in Entry
  BY DEF NoEntry, Entry, MaybeValue
<1>2. EmptyDict \in Dict(Keys, Entry) /\ DOMAIN EmptyDict = {}
  BY DEF EmptyDict, Dict
<1>3. TypeOK
  BY <1>1, <1>2, H5Assumption DEF Init, TypeOK
<1> QED  BY <1>2, <1>3 DEF Init, Inv, Exclusive, TornIsShut, At

LEMMA BeginInv ==
    ASSUME Inv, NEW p \in Procs, NEW op \in Ops, NEW k \in Keys, NEW entry \in Entry,
           Begin(p, op, k, entry)
    PROVE  Inv'
<1> DEFINE call == [op |-> op, key |-> k, entry |-> entry, seen |-> NoBlock, at |-> "spin",
                    failed |-> FALSE]
<1>1. call \in Call /\ call.at = "spin"
  BY DEF Call
<1>2. /\ proc' = [proc EXCEPT ![p] = call] /\ left' \in 0..Calls
      /\ UNCHANGED <<disk, locks, deaths, faults, torn, leaked>>
      /\ proc'[p] = call /\ \A q \in Procs \ {p} : proc'[q] = proc[q]
  BY H5Assumption DEF Begin, Inv, TypeOK
<1> HIDE DEF call
<1>3. TypeOK'
  BY <1>1, <1>2, H5Assumption DEF Inv, TypeOK
<1>4. Exclusive' /\ TornIsShut'
  BY <1>1, <1>2 DEF Inv, Exclusive, TornIsShut, At, Holding, File
<1> QED  BY <1>2, <1>3, <1>4 DEF Inv

LEMMA AcquireInv ==
    ASSUME Inv, NEW p \in Procs, Acquire(p)
    PROVE  Inv'
<1>1. /\ proc[p] # Idle /\ proc[p].at = "spin" /\ File(p) \notin locks
      /\ locks' = locks \cup {File(p)} /\ UNCHANGED <<disk, left, deaths, faults, torn, leaked>>
      /\ MoveTo(p, "open")
  BY DEF Acquire, At
<1>2. proc[p] \in Call /\ File(p) \in Files
  BY <1>1, Kinds DEF Inv
<1>3. Goes(p, "open")
  BY <1>1, Moved DEF Inv
<1>4. TypeOK' /\ leaked' \subseteq locks'
  BY <1>1, <1>2, <1>3 DEF Inv, TypeOK, Goes
<1>5. Exclusive'
  BY <1>1, <1>3 DEF Inv, Exclusive, At, Holding, File, Goes
<1>6. TornIsShut'
  BY <1>1, <1>3 DEF Inv, TornIsShut, At, Holding, File, Goes
<1> QED  BY <1>4, <1>5, <1>6 DEF Inv

(* get_attr, failed or not.                                                *)
LEMMA AfterRead ==
    ASSUME TypeOK, NEW p \in Procs, Read(p) \/ ReadFails(p)
    PROVE  /\ proc[p] # Idle /\ proc[p].at = "open" /\ Reads(p)
           /\ Goes(p, "close") /\ faults' \in 0..Faults
           /\ proc'[p].failed \/ proc'[p].seen = disk[proc[p].key].block
           /\ UNCHANGED <<disk, locks, left, deaths, torn, leaked>>
<1>1. /\ proc[p] # Idle /\ proc[p].at = "open" /\ Reads(p)
      /\ UNCHANGED <<disk, locks, left, deaths, torn, leaked>>
      /\ faults' \in 0..Faults
  BY H5Assumption DEF Read, ReadFails, At, TypeOK
<1>2. proc[p] \in Call
  BY <1>1, Kinds
<1>3. CASE Read(p)
  <2>1. PICK call : call = [proc[p] EXCEPT !.at = "close", !.seen = disk[proc[p].key].block]
    OBVIOUS
  <2>2. disk[proc[p].key].block \in Blocks \cup {NoBlock}
    BY <1>2 DEF TypeOK, Call, Entry
  <2>3. /\ call \in Call /\ call.at = "close" /\ call.key = proc[p].key
        /\ call.op = proc[p].op /\ call.entry = proc[p].entry
        /\ call.failed = proc[p].failed /\ call.seen = disk[proc[p].key].block
    BY <1>2, <2>1, <2>2 DEF Call, Ops
  <2>4. proc' = [proc EXCEPT ![p] = call]
    BY <1>3, <2>1 DEF Read, TypeOK
  <2> QED  BY <1>1, <2>3, <2>4, Changed
<1>4. CASE ReadFails(p)
  <2>1. PICK call : call = [proc[p] EXCEPT !.at = "close", !.seen = NoBlock, !.failed = TRUE]
    OBVIOUS
  <2>2. /\ call \in Call /\ call.at = "close" /\ call.key = proc[p].key
        /\ call.op = proc[p].op /\ call.entry = proc[p].entry /\ call.failed
    BY <1>2, <2>1 DEF Call, Ops
  <2>3. proc' = [proc EXCEPT ![p] = call]
    BY <1>4, <2>1 DEF ReadFails, TypeOK
  <2> QED  BY <1>1, <2>2, <2>3, Changed
<1> QED  BY <1>3, <1>4

LEMMA ReadInv ==
    ASSUME Inv, NEW p \in Procs, Read(p) \/ ReadFails(p)
    PROVE  Inv'
<1>1. /\ proc[p] # Idle /\ proc[p].at = "open" /\ Goes(p, "close") /\ faults' \in 0..Faults
      /\ UNCHANGED <<disk, locks, left, deaths, torn, leaked>>
  BY AfterRead DEF Inv
<1>2. TypeOK'
  BY <1>1 DEF Inv, TypeOK, Goes
<1>3. Exclusive'
  BY <1>1 DEF Inv, Exclusive, At, Holding, File, Goes
<1>4. TornIsShut'
  BY <1>1 DEF Inv, TornIsShut, At, Holding, File, Goes
<1> QED  BY <1>1, <1>2, <1>3, <1>4 DEF Inv

(* The first attribute of a set or delete, written or not.                 *)
LEMMA AfterValue ==
    ASSUME TypeOK, NEW p \in Procs, WriteValue(p) \/ WriteValueFails(p)
    PROVE  /\ proc[p] # Idle /\ proc[p].at = "open" /\ ~Reads(p)
           /\ Goes(p, "half") /\ faults' \in 0..Faults
           /\ UNCHANGED <<locks, left, deaths, leaked>>
           /\ \E v \in MaybeValue :
                /\ PutsValue(p, v)
                /\ v \in {proc[p].entry.value, disk[proc[p].key].value, None}
                /\ proc'[p].failed \/ v = proc[p].entry.value
           /\ proc'[p].failed \/ proc'[p].seen = proc[p].seen
<1>1. /\ proc[p] # Idle /\ proc[p].at = "open" /\ ~Reads(p)
      /\ UNCHANGED <<locks, left, deaths, leaked>>
  BY DEF WriteValue, WriteValueFails, At
<1>2. /\ proc[p] \in Call /\ None \in MaybeValue
      /\ proc[p].entry.value \in MaybeValue /\ disk[proc[p].key].value \in MaybeValue
  BY <1>1, Kinds DEF TypeOK, Call, Entry, MaybeValue
<1>3. CASE WriteValue(p)
  <2>1. MoveTo(p, "half") /\ PutsValue(p, proc[p].entry.value) /\ faults' \in 0..Faults
    BY <1>3 DEF WriteValue, TypeOK
  <2> QED  BY <1>1, <1>2, <2>1, Moved
<1>4. CASE WriteValueFails(p)
  <2>1. PICK v \in {disk[proc[p].key].value, None} : PutsValue(p, v)
    BY <1>4 DEF WriteValueFails
  <2>2. FailsAt(p, "half")
    BY <1>4 DEF WriteValueFails
  <2> QED  BY <1>1, <1>2, <2>1, <2>2, Failed
<1> QED  BY <1>3, <1>4

LEMMA ValueInv ==
    ASSUME Inv, NEW p \in Procs, WriteValue(p) \/ WriteValueFails(p)
    PROVE  Inv' /\ proc[p].key \notin DOMAIN torn
<1> DEFINE k == proc[p].key
<1>1. /\ proc[p] # Idle /\ proc[p].at = "open" /\ UNCHANGED <<locks, left, deaths, leaked>>
      /\ Goes(p, "half") /\ faults' \in 0..Faults
  BY AfterValue DEF Inv
<1>2. PICK v \in MaybeValue : PutsValue(p, v)
  BY AfterValue DEF Inv
<1>3. proc[p] \in Call /\ k \in Keys /\ disk[k] \in Entry
  BY <1>1, Kinds DEF Inv, TypeOK, Call
<1>4. disk' \in [Keys -> Entry]
  <2>1. [disk[k] EXCEPT !.value = v] \in Entry
    BY <1>3 DEF Entry
  <2> QED  BY <1>2, <2>1 DEF Inv, TypeOK, PutsValue
<1>5. torn' \in Dict(Keys, Entry) /\ DOMAIN torn' = DOMAIN torn \cup {k}
  <2>1. torn' = Put(torn, k, disk[k]) /\ torn \in Dict(Keys, Entry)
    BY <1>2 DEF Inv, TypeOK, PutsValue
  <2>2. Put(torn, k, disk[k]) \in Dict(Keys, Entry)
    BY <1>3, <2>1, PutIsDict
  <2>3. DOMAIN Put(torn, k, disk[k]) = DOMAIN torn \cup {k}
    BY DEF Put
  <2> QED  BY <2>1, <2>2, <2>3
<1>6. TypeOK'
  BY <1>1, <1>4, <1>5 DEF Inv, TypeOK, Goes
<1>7. Exclusive'
  BY <1>1 DEF Inv, Exclusive, At, Holding, File, Goes
<1>8. k \notin DOMAIN torn
  BY <1>1 DEF Inv, TornIsShut, At, Holding, File
<1>9. TornIsShut'
  <2> SUFFICES ASSUME NEW j \in DOMAIN torn'
               PROVE  /\ FileOf[j] \in locks
                      /\ \A q \in Procs : At(q, Holding)' /\ File(q)' = FileOf[j]
                           => proc'[q].key = j /\ At(q, {"half"})'
    BY <1>1 DEF TornIsShut
  <2>1. CASE j \in DOMAIN torn
    BY <1>1, <1>5, <2>1 DEF Inv, TornIsShut, At, Holding, File, Goes
  <2>2. CASE j = k
    BY <1>1, <2>2 DEF Inv, Exclusive, At, Holding, File, Goes
  <2> QED  BY <1>5, <2>1, <2>2
<1> QED  BY <1>1, <1>6, <1>7, <1>8, <1>9 DEF Inv

(* The second attribute.                                                   *)
LEMMA AfterBlock ==
    ASSUME TypeOK, NEW p \in Procs, WriteBlock(p) \/ WriteBlockFails(p)
    PROVE  /\ proc[p] # Idle /\ proc[p].at = "half"
           /\ Goes(p, "close") /\ faults' \in 0..Faults
           /\ UNCHANGED <<locks, left, deaths, leaked>>
           /\ \E b \in Blocks \cup {NoBlock} :
                /\ PutsBlock(p, b)
                /\ b \in {proc[p].entry.block, disk[proc[p].key].block, NoBlock}
                /\ proc'[p].failed \/ b = proc[p].entry.block
           /\ proc'[p].failed \/ (proc'[p].seen = proc[p].seen /\ ~proc[p].failed)
<1>1. /\ proc[p] # Idle /\ proc[p].at = "half"
      /\ UNCHANGED <<locks, left, deaths, leaked>>
  BY DEF WriteBlock, WriteBlockFails, At
<1>2. /\ proc[p] \in Call
      /\ proc[p].entry.block \in Blocks \cup {NoBlock}
      /\ disk[proc[p].key].block \in Blocks \cup {NoBlock}
  BY <1>1, Kinds DEF TypeOK, Call, Entry
<1>3. CASE WriteBlock(p)
  <2>1. MoveTo(p, "close") /\ PutsBlock(p, proc[p].entry.block) /\ faults' \in 0..Faults
    BY <1>3 DEF WriteBlock, TypeOK
  <2> QED  BY <1>1, <1>2, <2>1, Moved
<1>4. CASE WriteBlockFails(p)
  <2>1. PICK b \in {disk[proc[p].key].block, NoBlock} : PutsBlock(p, b)
    BY <1>4 DEF WriteBlockFails
  <2>2. FailsAt(p, "close")
    BY <1>4 DEF WriteBlockFails
  <2> QED  BY <1>1, <1>2, <2>1, <2>2, Failed
<1> QED  BY <1>3, <1>4

LEMMA BlockInv ==
    ASSUME Inv, NEW p \in Procs, WriteBlock(p) \/ WriteBlockFails(p)
    PROVE  Inv'
<1> DEFINE k == proc[p].key
<1>1. /\ proc[p] # Idle /\ proc[p].at = "half" /\ UNCHANGED <<locks, left, deaths, leaked>>
      /\ Goes(p, "close") /\ faults' \in 0..Faults
  BY AfterBlock DEF Inv
<1>2. PICK b \in Blocks \cup {NoBlock} : PutsBlock(p, b)
  BY AfterBlock DEF Inv
<1>3. proc[p] \in Call /\ k \in Keys /\ disk[k] \in Entry
  BY <1>1, Kinds DEF Inv, TypeOK, Call
<1>4. [disk[k] EXCEPT !.block = b] \in Entry
  BY <1>3 DEF Entry
<1>5. torn' \in Dict(Keys, Entry) /\ DOMAIN torn' = DOMAIN torn \ {k}
  BY <1>2, WithoutIsDict DEF Inv, TypeOK, Without, PutsBlock
<1>6. TypeOK'
  BY <1>1, <1>2, <1>3, <1>4, <1>5 DEF Inv, TypeOK, PutsBlock, Goes
<1>7. Exclusive'
  BY <1>1 DEF Inv, Exclusive, At, Holding, File, Goes
<1>8. TornIsShut'
  BY <1>1, <1>5 DEF Inv, TornIsShut, At, Holding, File, Goes
<1> QED  BY <1>1, <1>6, <1>7, <1>8 DEF Inv

(* The end of an h5c call, by whichever way out.                           *)
LEMMA LeaveInv ==
    ASSUME Inv, NEW p \in Procs, At(p, {"open", "close"}), NEW next \in Call \cup {Idle},
           next # Idle => next.at = "spin", proc' = [proc EXCEPT ![p] = next],
           locks' = locks \ {File(p)}, UNCHANGED <<disk, left, deaths, faults, torn, leaked>>
    PROVE  Inv'
<1>1. proc'[p] = next /\ \A q \in Procs \ {p} : proc'[q] = proc[q]
  BY DEF Inv, TypeOK
<1>2. TypeOK'
  BY DEF Inv, TypeOK
<1>3. leaked' \subseteq locks'
  BY DEF Inv, Exclusive, At, Holding
<1>4. Exclusive'
  BY <1>1 DEF Inv, Exclusive, At, Holding, File
<1>5. TornIsShut'
  BY <1>1 DEF Inv, TornIsShut, At, Holding, File
<1> QED  BY <1>2, <1>3, <1>4, <1>5 DEF Inv

LEMMA ReleaseInv ==
    ASSUME Inv, NEW p \in Procs, Release(p)
    PROVE  Inv'
<1>1. proc[p] \in Call
  BY Kinds DEF Inv, Release, At
<1>2. Returned(p) \in Call \cup {Idle} /\ (Returned(p) # Idle => Returned(p).at = "spin")
  BY <1>1 DEF Returned, Call, Ops
<1> QED  BY <1>2, LeaveInv DEF Release, At

LEMMA OpenFailsInv ==
    ASSUME Inv, NEW p \in Procs, OpenFails(p)
    PROVE  Inv'
  BY LeaveInv DEF OpenFails, At

LEMMA CrashInv ==
    ASSUME Inv, NEW p \in Procs, Crash(p)
    PROVE  Inv'
<1>1. /\ proc' = [proc EXCEPT ![p] = Idle] /\ UNCHANGED <<disk, locks, left, faults, torn>>
      /\ deaths \in 0..Crashes /\ deaths > 0 /\ deaths' = deaths - 1
      /\ proc'[p] = Idle /\ \A q \in Procs \ {p} : proc'[q] = proc[q]
      /\ proc[p] # Idle
  BY DEF Crash, Inv, TypeOK
<1>2. leaked' = leaked \/ (At(p, Holding) /\ leaked' = leaked \cup {File(p)})
  BY DEF Crash
<1>3. leaked' \subseteq Files /\ leaked' \subseteq locks
  BY <1>1, <1>2, Kinds DEF Inv, TypeOK, Exclusive
<1>4. TypeOK'
  BY <1>1, <1>3, H5Assumption DEF Inv, TypeOK
<1>5. Exclusive'
  BY <1>1, <1>2 DEF Inv, Exclusive, At, Holding, File
<1>6. TornIsShut'
  BY <1>1 DEF Inv, TornIsShut, At, Holding, File
<1> QED  BY <1>1, <1>3, <1>4, <1>5, <1>6 DEF Inv

LEMMA NextInv ==
    ASSUME Inv, [Next]_vars
    PROVE  Inv'
<1>1. ASSUME NEW p \in Procs, NEW k \in Keys,
             BeginGet(p, k) \/ BeginDelete(p, k) \/ BeginSet(p, k) \/ BeginSafeSet(p, k)
      PROVE  Inv'
  <2>1. /\ NoEntry \in Entry /\ {"get", "set", "check", "delete"} \subseteq Ops
        /\ \A v \in MaybeValue, b \in Blocks \cup {NoBlock} : [value |-> v, block |-> b] \in Entry
    BY DEF NoEntry, Entry, MaybeValue, Ops
  <2>2. \E op \in Ops, entry \in Entry : Begin(p, op, k, entry)
    BY <1>1, <2>1 DEF BeginGet, BeginDelete, BeginSet, BeginSafeSet
  <2> QED  BY <2>2, BeginInv
<1>2. ASSUME NEW p \in Procs, Step(p)  PROVE Inv'
  BY <1>2, AcquireInv, ReadInv, ValueInv, BlockInv, ReleaseInv DEF Step
<1>3. ASSUME NEW p \in Procs, OpenFails(p)  PROVE Inv'
  BY <1>3, OpenFailsInv
<1>4. ASSUME NEW p \in Procs, Crash(p)  PROVE Inv'
  BY <1>4, CrashInv
<1>5. ASSUME NEW p \in Procs, ReadFails(p) \/ WriteValueFails(p) \/ WriteBlockFails(p)
      PROVE  Inv'
  BY <1>5, ReadInv, ValueInv, BlockInv
<1>6. CASE UNCHANGED vars
  BY <1>6 DEF vars, Inv, TypeOK, Exclusive, TornIsShut, At, Holding, File
<1> QED  BY <1>1, <1>2, <1>3, <1>4, <1>5, <1>6 DEF Next

-----------------------------------------------------------------------------
(* Atomicity.  safe_set() checks and writes under two locks: in between,   *)
(* only another writer of the same key can make what it saw untrue.        *)

(* What a write has done when it is at half: torn holds what was before.   *)
HalfWritten(p) ==
    LET c == proc[p]
    IN  /\ c.key \in DOMAIN torn /\ ~Reads(p)
        /\ disk[c.key].value \in {c.entry.value, torn[c.key].value, None}
        /\ disk[c.key].block = torn[c.key].block
        /\ disk[c.key].value = c.entry.value \/ c.failed

(* What the calls were given, and that safe_set() has compared.            *)
Asked(p) ==
    LET c == proc[p]
    IN  c # Idle =>
          /\ c.key \notin LongKeys
          /\ c.op # "get" => p \in WritersOf[c.key]
          /\ c.op = "set" => c.entry.block = NoBlock
          /\ c.op = "delete" => c.entry = NoEntry
          /\ c.op \in {"check", "safe_set"} => c.entry.block \in Blocks
          /\ c.op = "safe_set" /\ c.at # "close" => c.failed \/ c.entry.block >= c.seen
          /\ c.at = "half" => HalfWritten(p)

Caused(p) ==
    proc[p] # Idle /\ Overtaken(p) =>
      proc[p].failed \/ \E q \in WritersOf[proc[p].key] : q # p

AtomicInv == Inv /\ \A p \in Procs : Asked(p) /\ Caused(p)

LEMMA StoredType == ASSUME TypeOK PROVE Stored \in [Keys -> Entry]
<1>1. \A k \in DOMAIN torn : torn[k] \in Entry
  BY DictDomain DEF TypeOK
<1> QED  BY <1>1 DEF Stored, TypeOK

(* The others do not notice a step that leaves the store as it was.        *)
LEMMA OthersAsked ==
    ASSUME AtomicInv, NEW p \in Procs, UNCHANGED Stored,
           \A q \in Procs \ {p} : proc'[q] = proc[q],
           \A k \in DOMAIN torn : k \in DOMAIN torn' /\ disk'[k] = disk[k] /\ torn'[k] = torn[k]
    PROVE  \A q \in Procs \ {p} : Asked(q)' /\ Caused(q)'
<1> SUFFICES ASSUME NEW q \in Procs \ {p} PROVE Asked(q)' /\ Caused(q)'
  OBVIOUS
<1>1. proc'[q] = proc[q] /\ Asked(q) /\ Caused(q)
  BY DEF AtomicInv
<1>2. Asked(q)'
  BY <1>1 DEF Asked, Reads, HalfWritten
<1>3. Caused(q)'
  BY <1>1 DEF Caused, Overtaken, At
<1> QED  BY <1>2, <1>3

LEMMA QuietAsked ==
    ASSUME AtomicInv, NEW p \in Procs, UNCHANGED <<disk, torn>>,
           \A q \in Procs \ {p} : proc'[q] = proc[q]
    PROVE  UNCHANGED Stored /\ \A q \in Procs \ {p} : Asked(q)' /\ Caused(q)'
<1>1. UNCHANGED Stored
  BY DEF Stored
<1> QED  BY <1>1, OthersAsked

LEMMA BeginAsks ==
    ASSUME AtomicInv, NEW p \in Procs, NEW k \in Keys,
           BeginGet(p, k) \/ BeginDelete(p, k) \/ BeginSet(p, k) \/ BeginSafeSet(p, k)
    PROVE  UNCHANGED Stored /\ \A q \in Procs : Asked(q)' /\ Caused(q)'
<1> DEFINE Begins(op, entry) ==
             /\ Begin(p, op, k, entry)
             /\ op = "set" => entry.block = NoBlock
             /\ op = "delete" => entry = NoEntry
             /\ op = "check" => entry.block \in Blocks
<1>1. PICK op \in {"get", "set", "check", "delete"} : \E entry : Begins(op, entry)
  <2>1. CASE BeginGet(p, k)
    BY <2>1 DEF BeginGet
  <2>2. CASE BeginDelete(p, k)
    BY <2>2 DEF BeginDelete
  <2>3. CASE BeginSet(p, k)
    <3>1. PICK v \in MaybeValue : Begin(p, "set", k, [value |-> v, block |-> NoBlock])
      BY <2>3 DEF BeginSet
    <3>2. Begins("set", [value |-> v, block |-> NoBlock])
      BY <3>1
    <3> QED  BY <3>2
  <2>4. CASE BeginSafeSet(p, k)
    <3>1. PICK v \in MaybeValue, b \in Blocks : Begin(p, "check", k, [value |-> v, block |-> b])
      BY <2>4 DEF BeginSafeSet
    <3>2. Begins("check", [value |-> v, block |-> b])
      BY <3>1
    <3> QED  BY <3>2
  <2> QED  BY <2>1, <2>2, <2>3, <2>4
<1>2. PICK entry : Begins(op, entry)
  BY <1>1
<1>3. /\ proc'[p] = [op |-> op, key |-> k, entry |-> entry, seen |-> NoBlock, at |-> "spin",
                      failed |-> FALSE]
      /\ \A q \in Procs \ {p} : proc'[q] = proc[q]
      /\ UNCHANGED <<disk, torn>> /\ k \notin LongKeys /\ (op # "get" => p \in WritersOf[k])
  BY <1>2 DEF Begin, AtomicInv, Inv, TypeOK
<1>4. Asked(p)'
  BY <1>1, <1>2, <1>3 DEF Asked
<1>5. Caused(p)'
  BY <1>1, <1>3 DEF Caused, Overtaken, At
<1> QED  BY <1>3, <1>4, <1>5, QuietAsked

LEMMA AcquireAsks ==
    ASSUME AtomicInv, NEW p \in Procs, Acquire(p)
    PROVE  UNCHANGED Stored /\ \A q \in Procs : Asked(q)' /\ Caused(q)'
<1>1. proc[p] # Idle /\ proc[p].at = "spin" /\ MoveTo(p, "open") /\ UNCHANGED <<disk, torn>>
  BY DEF Acquire, At
<1>2. /\ Goes(p, "open")
      /\ proc'[p].seen = proc[p].seen /\ proc'[p].failed = proc[p].failed
  BY <1>1, Moved DEF AtomicInv, Inv
<1>3. UNCHANGED Stored /\ \A q \in Procs \ {p} : Asked(q)' /\ Caused(q)'
  BY <1>1, <1>2, QuietAsked DEF Goes
<1>4. Asked(p)'
  BY <1>1, <1>2 DEF AtomicInv, Asked, Goes
<1>5. Caused(p)'
  BY <1>1, <1>2, <1>3 DEF AtomicInv, Caused, Overtaken, At, Goes
<1> QED  BY <1>3, <1>4, <1>5

(* A check either sees what is stored or has failed.                       *)
LEMMA ReadAsks ==
    ASSUME AtomicInv, NEW p \in Procs, Read(p) \/ ReadFails(p)
    PROVE  UNCHANGED Stored /\ \A q \in Procs : Asked(q)' /\ Caused(q)'
<1> DEFINE k == proc[p].key
<1>1. /\ proc[p] # Idle /\ proc[p].at = "open" /\ Reads(p) /\ Goes(p, "close")
      /\ proc'[p].failed \/ proc'[p].seen = disk[k].block
      /\ UNCHANGED <<disk, torn>>
  BY AfterRead DEF AtomicInv, Inv
<1>2. k \in Keys /\ proc[p].op \in {"get", "check"}
  BY <1>1, Kinds DEF AtomicInv, Inv, Call, Reads
<1>3. k \notin DOMAIN torn
  BY <1>1 DEF AtomicInv, Inv, TornIsShut, At, Holding, File
<1>4. UNCHANGED Stored /\ \A q \in Procs \ {p} : Asked(q)' /\ Caused(q)'
  BY <1>1, QuietAsked DEF Goes
<1>5. Stored[k].block = disk[k].block
  BY <1>2, <1>3 DEF Stored
<1>6. Asked(p)'
  BY <1>1, <1>2 DEF AtomicInv, Asked, Goes
<1>7. Caused(p)'
  BY <1>1, <1>2, <1>4, <1>5 DEF Caused, Overtaken, At, Goes
<1> QED  BY <1>4, <1>6, <1>7

LEMMA ValueAsks ==
    ASSUME AtomicInv, NEW p \in Procs, WriteValue(p) \/ WriteValueFails(p)
    PROVE  UNCHANGED Stored /\ \A q \in Procs : Asked(q)' /\ Caused(q)'
<1> DEFINE k == proc[p].key
<1>1. /\ proc[p] # Idle /\ proc[p].at = "open" /\ ~Reads(p) /\ Goes(p, "half")
      /\ proc'[p].failed \/ proc'[p].seen = proc[p].seen
  BY AfterValue DEF AtomicInv, Inv
<1>2. PICK v \in MaybeValue :
        /\ PutsValue(p, v) /\ v \in {proc[p].entry.value, disk[k].value, None}
        /\ proc'[p].failed \/ v = proc[p].entry.value
  BY AfterValue DEF AtomicInv, Inv
<1>3. k \notin DOMAIN torn
  BY ValueInv DEF AtomicInv
<1>4. proc[p] \in Call /\ k \in Keys /\ disk[k] \in Entry /\ disk \in [Keys -> Entry]
  BY <1>1, Kinds DEF AtomicInv, Inv, TypeOK, Call
<1>5. /\ DOMAIN torn' = DOMAIN torn \cup {k} /\ torn'[k] = disk[k]
      /\ \A j \in DOMAIN torn : torn'[j] = torn[j]
  BY <1>2, <1>3 DEF Put, PutsValue
<1>6. /\ \A j \in Keys \ {k} : disk'[j] = disk[j]
      /\ disk'[k].value = v /\ disk'[k].block = disk[k].block
  BY <1>2, <1>4 DEF PutsValue, Entry
<1>7. UNCHANGED Stored
  BY <1>3, <1>4, <1>5, <1>6 DEF Stored
<1>8. \A q \in Procs \ {p} : Asked(q)' /\ Caused(q)'
  <2>1. \A j \in DOMAIN torn : j \in DOMAIN torn' /\ disk'[j] = disk[j] /\ torn'[j] = torn[j]
    BY <1>3, <1>5, <1>6, DictDomain DEF AtomicInv, Inv, TypeOK
  <2> QED  BY <1>1, <1>7, <2>1, OthersAsked DEF Goes
<1>9. HalfWritten(p)'
  BY <1>1, <1>2, <1>5, <1>6 DEF HalfWritten, Goes, Reads
<1>10. Asked(p)'
  <2>1. Asked(p) /\ proc[p].seen \in Blocks \cup {NoBlock}
    BY <1>4 DEF AtomicInv, Call
  <2> QED  BY <1>1, <1>9, <2>1 DEF Asked, Goes
<1>11. Caused(p)'
  BY <1>1, <1>7 DEF AtomicInv, Caused, Overtaken, At, Goes
<1> QED  BY <1>7, <1>8, <1>10, <1>11

LEMMA AtomicNextIs ==
    A!AtomicNext <=>
      \E k \in Keys :
        \/ \E v \in MaybeValue : Stored' = [Stored EXCEPT ![k] = FSSetPlain(Stored, k, v)]
        \/ \E v \in MaybeValue, b \in Blocks :
             Stored' = [Stored EXCEPT ![k] = FSSafeSet(Stored, k, v, b)]
        \/ Stored' = [Stored EXCEPT ![k] = FSDelete(Stored, k)]
        \/ A!BecomesDoubtful(k)
  BY DEF A!AtomicNext, A!Becomes, A!FSSetPlain, A!FSSafeSet, A!FSDelete, A!MaybeValue,
         A!NoBlock, A!NoEntry, FSSetPlain, FSSafeSet, FSDelete, MaybeValue, NoBlock, NoEntry

LEMMA DoubtfulIs ==
    ASSUME NEW k \in Keys, k \in InDoubt \/ k \in InDoubt',
           NEW new, new.value \in MaybeValue, new.block \in Blocks \cup {NoBlock},
           NEW v, v \in {Stored[k].value, None, new.value},
           NEW b, b \in {Stored[k].block, NoBlock, new.block},
           Stored' = [Stored EXCEPT ![k] = [value |-> v, block |-> b]]
    PROVE  A!BecomesDoubtful(k)
<1>1. PICK nv \in MaybeValue, nb \in Blocks \cup {NoBlock} : nv = new.value /\ nb = new.block
  OBVIOUS
<1>2. PICK asked : asked = [value |-> nv, block |-> nb]
  OBVIOUS
<1>3. [value |-> v, block |-> b] \in A!Blend(Stored[k], asked)
  BY <1>1, <1>2 DEF A!Blend, A!NoBlock, NoBlock
<1>4. \E entry \in A!Blend(Stored[k], [value |-> nv, block |-> nb]) : A!Becomes(k, entry)
  BY <1>2, <1>3 DEF A!Becomes
<1>5. nv \in A!MaybeValue /\ nb \in Blocks \cup {A!NoBlock}
  BY DEF A!MaybeValue, A!NoBlock, MaybeValue, NoBlock
<1>6. k \in InDoubt \cup InDoubt'
  OBVIOUS
<1> QED  BY <1>4, <1>5, <1>6 DEF A!BecomesDoubtful

(* The second attribute: the store changes, and checks of others with it.  *)
LEMMA BlockAsks ==
    ASSUME AtomicInv, NEW p \in Procs, WriteBlock(p) \/ WriteBlockFails(p)
    PROVE  A!AtomicNext /\ \A q \in Procs : Asked(q)' /\ Caused(q)'
<1> DEFINE k == proc[p].key
           entry == proc[p].entry
<1>1. /\ proc[p] # Idle /\ proc[p].at = "half" /\ Goes(p, "close")
      /\ proc'[p].failed \/ (proc'[p].seen = proc[p].seen /\ ~proc[p].failed)
  BY AfterBlock DEF AtomicInv, Inv
<1>2. PICK b \in Blocks \cup {NoBlock} :
        /\ PutsBlock(p, b) /\ b \in {entry.block, disk[k].block, NoBlock}
        /\ proc'[p].failed \/ b = entry.block
  BY AfterBlock DEF AtomicInv, Inv
<1>3. /\ proc[p] \in Call /\ k \in Keys /\ entry \in Entry /\ disk[k] \in Entry
      /\ disk \in [Keys -> Entry] /\ proc[p].op \in {"set", "safe_set", "delete"}
      /\ HalfWritten(p) /\ k \notin LongKeys /\ p \in WritersOf[k]
  BY <1>1, Kinds DEF AtomicInv, Inv, TypeOK, Call, Ops, Asked, Reads, HalfWritten
<1>4. PICK v : v = disk[k].value
  OBVIOUS
<1>5. /\ DOMAIN torn' = DOMAIN torn \ {k}
      /\ \A j \in DOMAIN torn \ {k} : torn'[j] = torn[j]
      /\ \A j \in Keys \ {k} : disk'[j] = disk[j]
      /\ disk'[k] = [value |-> v, block |-> b]
  BY <1>2, <1>3, <1>4 DEF Without, Entry, PutsBlock
<1>6. /\ Stored' = [Stored EXCEPT ![k] = [value |-> v, block |-> b]]
      /\ Stored[k] = torn[k]
  BY <1>3, <1>5 DEF Stored, HalfWritten
<1>7. /\ entry = [value |-> entry.value, block |-> entry.block]
      /\ entry.value \in MaybeValue /\ entry.block \in Blocks \cup {NoBlock}
  BY <1>3 DEF Entry
<1>8. ASSUME k \in InDoubt \/ k \in InDoubt'  PROVE A!AtomicNext
  <2>1. /\ v \in {Stored[k].value, None, entry.value}
        /\ b \in {Stored[k].block, NoBlock, entry.block}
    BY <1>2, <1>3, <1>4, <1>6 DEF HalfWritten
  <2>2. A!BecomesDoubtful(k)
    BY <1>3, <1>6, <1>7, <1>8, <2>1, DoubtfulIs
  <2> QED  BY <1>3, <2>2, AtomicNextIs
<1>9. ASSUME k \notin InDoubt, k \notin InDoubt'  PROVE A!AtomicNext
  <2>1. ~proc[p].failed /\ ~proc'[p].failed
    BY <1>1, <1>3, <1>9 DEF InDoubt, Goes
  <2>2. v = entry.value /\ b = entry.block
    BY <1>2, <1>3, <1>4, <2>1 DEF HalfWritten
  <2>3. Stored' = [Stored EXCEPT ![k] = entry]
    BY <1>6, <1>7, <2>2
  <2>4. ASSUME proc[p].op = "set"  PROVE A!AtomicNext
    <3>1. FSSetPlain(Stored, k, entry.value) = entry
      BY <1>1, <1>3, <1>7, <2>4 DEF AtomicInv, Asked, FSSetPlain
    <3> QED  BY <1>3, <1>7, <2>3, <3>1, AtomicNextIs
  <2>5. ASSUME proc[p].op = "delete"  PROVE A!AtomicNext
    <3>1. FSDelete(Stored, k) = entry
      BY <1>1, <1>3, <2>5 DEF AtomicInv, Asked, FSDelete
    <3> QED  BY <1>3, <2>3, <3>1, AtomicNextIs
  <2>6. ASSUME proc[p].op = "safe_set"  PROVE A!AtomicNext
    <3>1. entry.block \in Blocks /\ entry.block >= proc[p].seen
      BY <1>1, <1>3, <2>1, <2>6 DEF AtomicInv, Asked
    <3>2. proc[p].seen = Stored[k].block
      <4>1. At(p, {"spin", "open", "half"})
        BY <1>1 DEF At
      <4> QED  BY <1>1, <1>3, <1>9, <2>6, <4>1 DEF InDoubt, Overtaken
    <3>3. Blocks \cup {NoBlock} \subseteq Int
      BY H5Assumption DEF NoBlock
    <3>4. entry.block \in Int /\ Stored[k].block \in Int
      BY <1>3, <1>7, <3>2, <3>3 DEF Call
    <3>5. FSSafeSet(Stored, k, entry.value, entry.block) = entry
      BY <1>3, <1>7, <3>1, <3>2, <3>4 DEF FSSafeSet
    <3> QED  BY <1>3, <1>7, <2>3, <3>1, <3>5, AtomicNextIs
  <2> QED  BY <1>3, <2>4, <2>5, <2>6
<1>10. Asked(p)' /\ Caused(p)'
  <2>1. Asked(p)
    BY DEF AtomicInv
  <2>2. Asked(p)'
    BY <1>1, <1>3, <2>1 DEF Asked, Goes
  <2>3. Caused(p)'
    BY <1>1, <1>3 DEF Caused, Overtaken, At, Goes
  <2> QED  BY <2>2, <2>3
<1>11. \A q \in Procs \ {p} : Asked(q)' /\ Caused(q)'
  <2> SUFFICES ASSUME NEW q \in Procs \ {p}, proc[q] # Idle PROVE Asked(q)' /\ Caused(q)'
    BY <1>1 DEF Asked, Caused, Goes
  <2>1. proc'[q] = proc[q] /\ proc[q] \in Call /\ Asked(q) /\ Caused(q)
    BY <1>1, Kinds DEF AtomicInv, Inv, Goes
  <2>2. CASE proc[q].key = k
    <3>1. proc[q].at # "half"
      BY <1>1, <1>3, <2>2 DEF AtomicInv, Inv, Exclusive, At, Holding, File
    <3>2. Asked(q)'
      BY <2>1, <3>1 DEF Asked
    <3>3. Caused(q)'
      BY <1>3, <2>1, <2>2 DEF Caused
    <3> QED  BY <3>2, <3>3
  <2>3. CASE proc[q].key # k
    <3>1. proc[q].key \in Keys
      BY <2>1 DEF Call
    <3>2. /\ Stored'[proc[q].key] = Stored[proc[q].key]
          /\ disk'[proc[q].key] = disk[proc[q].key]
      BY <1>5, <1>6, <2>3, <3>1 DEF Stored
    <3>3. Asked(q)'
      BY <1>5, <2>1, <2>3, <3>2 DEF Asked, Reads, HalfWritten
    <3>4. Caused(q)'
      BY <2>1, <3>2 DEF Caused, Overtaken, At
    <3> QED  BY <3>3, <3>4
  <2> QED  BY <2>2, <2>3
<1> QED  BY <1>8, <1>9, <1>10, <1>11

LEMMA LeaveAsks ==
    ASSUME AtomicInv, NEW p \in Procs, proc' = [proc EXCEPT ![p] = Idle],
           UNCHANGED <<disk, torn>>
    PROVE  UNCHANGED Stored /\ \A q \in Procs : Asked(q)' /\ Caused(q)'
<1>1. proc'[p] = Idle /\ \A q \in Procs \ {p} : proc'[q] = proc[q]
  BY DEF AtomicInv, Inv, TypeOK
<1>2. Asked(p)' /\ Caused(p)'
  BY <1>1 DEF Asked, Caused
<1> QED  BY <1>1, <1>2, QuietAsked

LEMMA ReleaseAsks ==
    ASSUME AtomicInv, NEW p \in Procs, Release(p)
    PROVE  UNCHANGED Stored /\ \A q \in Procs : Asked(q)' /\ Caused(q)'
<1>1. /\ proc[p] # Idle /\ proc[p].at = "close" /\ UNCHANGED <<disk, torn>>
      /\ proc' = [proc EXCEPT ![p] = Returned(p)]
  BY DEF Release, At
<1>2. CASE Returned(p) = Idle
  BY <1>1, <1>2, LeaveAsks
<1>3. CASE Returned(p) # Idle
  <2>1. PICK call : call = [proc[p] EXCEPT !.op = "safe_set", !.at = "spin"]
    OBVIOUS
  <2>2. proc[p] \in Call
    BY <1>1, Kinds DEF AtomicInv, Inv
  <2>3. /\ proc[p].op = "check" /\ proc[p].entry.block >= proc[p].seen
        /\ Returned(p) = call
    BY <1>3, <2>1 DEF Returned
  <2>4. /\ call.op = "safe_set" /\ call.at = "spin" /\ call.key = proc[p].key
        /\ call.entry = proc[p].entry /\ call.seen = proc[p].seen
        /\ call.failed = proc[p].failed
    BY <2>1, <2>2 DEF Call
  <2>5. proc'[p] = call /\ \A q \in Procs \ {p} : proc'[q] = proc[q]
    BY <1>1, <2>3 DEF AtomicInv, Inv, TypeOK
  <2>6. UNCHANGED Stored /\ \A q \in Procs \ {p} : Asked(q)' /\ Caused(q)'
    BY <1>1, <2>5, QuietAsked
  <2>7. Asked(p)'
    BY <1>1, <2>3, <2>4, <2>5 DEF AtomicInv, Asked
  <2>8. Caused(p)'
    BY <1>1, <2>3, <2>4, <2>5, <2>6 DEF AtomicInv, Caused, Overtaken, At
  <2> QED  BY <2>6, <2>7, <2>8
<1> QED  BY <1>2, <1>3

LEMMA InitAsks == Init => AtomicInv /\ A!AtomicInit
<1> SUFFICES ASSUME Init PROVE AtomicInv /\ A!AtomicInit
  OBVIOUS
<1>1. \A p \in Procs : Asked(p) /\ Caused(p)
  BY DEF Init, Asked, Caused
<1>2. A!AtomicInit
  BY DEF Init, A!AtomicInit, A!NoEntry, A!NoBlock, NoEntry, NoBlock, EmptyDict, Stored
<1> QED  BY <1>1, <1>2, InitInv DEF AtomicInv

LEMMA NextAsks ==
    ASSUME AtomicInv, [Next]_vars
    PROVE  AtomicInv' /\ [A!AtomicNext]_Stored
<1> SUFFICES (A!AtomicNext \/ UNCHANGED Stored) /\ \A q \in Procs : Asked(q)' /\ Caused(q)'
  BY NextInv DEF AtomicInv
<1>1. ASSUME NEW p \in Procs, NEW k \in Keys,
             BeginGet(p, k) \/ BeginDelete(p, k) \/ BeginSet(p, k) \/ BeginSafeSet(p, k)
      PROVE  UNCHANGED Stored /\ \A q \in Procs : Asked(q)' /\ Caused(q)'
  BY <1>1, BeginAsks
<1>2. ASSUME NEW p \in Procs, Step(p)
      PROVE  (A!AtomicNext \/ UNCHANGED Stored) /\ \A q \in Procs : Asked(q)' /\ Caused(q)'
  BY <1>2, AcquireAsks, ReadAsks, ValueAsks, BlockAsks, ReleaseAsks DEF Step
<1>3. ASSUME NEW p \in Procs, ReadFails(p) \/ WriteValueFails(p) \/ WriteBlockFails(p)
      PROVE  (A!AtomicNext \/ UNCHANGED Stored) /\ \A q \in Procs : Asked(q)' /\ Caused(q)'
  BY <1>3, ReadAsks, ValueAsks, BlockAsks
<1>4. ASSUME NEW p \in Procs, OpenFails(p) \/ Crash(p)
      PROVE  UNCHANGED Stored /\ \A q \in Procs : Asked(q)' /\ Caused(q)'
  BY <1>4, LeaveAsks DEF OpenFails, Crash
<1>5. CASE UNCHANGED vars
  BY <1>5 DEF vars, Stored, AtomicInv, Asked, Caused, Reads, HalfWritten, Overtaken, At
<1> QED  BY <1>1, <1>2, <1>3, <1>4, <1>5 DEF Next

LEMMA SpecAsks == Spec => []AtomicInv
  BY InitAsks, NextAsks, PTL DEF Spec

(* Whoever shares the storage and whatever fails or dies: a call of        *)
(* FSDriver on a key that is not in doubt is one step of the atomic store, *)
(* both halves of safe_set() included; a write cut short by a crash never  *)
(* happened; and on a key in doubt a call leaves no more than a blend of   *)
(* what was there and what it was given.                                   *)
THEOREM CallsAreAtomic == Spec => ImplementsAtomicStore
<1>1. [A!AtomicNext]_Stored => [A!AtomicNext]_([k \in Keys |-> IF k \in DOMAIN torn THEN torn[k] ELSE disk[k]])
  BY DEF Stored
<1> QED  BY <1>1, InitAsks, NextAsks, SpecAsks, PTL DEF Spec, ImplementsAtomicStore, A!AtomicSpec

(* One process works on a file, under a lock directory that nobody dead    *)
(* left, and nobody opens the file of a half-written group; and what       *)
(* safe_set() checked is still true when it writes, across the two locks,  *)
(* unless HDF5 failed or the key has another writer.                       *)
THEOREM LocksExclude == Spec => []H5Inv
<1>1. AtomicInv => DoubtHasACause
  BY DEF AtomicInv, Caused, DoubtHasACause
<1>2. AtomicInv => H5Inv
  BY <1>1 DEF AtomicInv, Inv, H5Inv
<1> QED  BY <1>2, SpecAsks, PTL
=============================================================================
