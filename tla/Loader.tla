------------------------------- MODULE Loader -------------------------------
(***************************************************************************)
(* Contracts as Python modules: the finder and the loader of               *)
(* contracting/execution/module.py, which take the code of a contract from *)
(* the database once and from MODULE_CACHE ever after; sys.modules, which  *)
(* Runtime.clean_up() empties after each transaction; the hook that keeps  *)
(* contracts to contracts; importlib of contracting/stdlib/bridge; and     *)
(* the submission of contracts, whose constructors run before their code   *)
(* is stored, key by key in the transaction and key by key on disk.        *)
(***************************************************************************)
EXTENDS Integers, Sequences

CONSTANTS
    Contracts,      \* names of contracts
    Codes,          \* compiled contracts
    Users,          \* who signs transactions
    None,           \* Python's None
    Depth,          \* bound on modules and constructors inside each other
    Liberties       \* "nested": constructors submit contracts themselves;
                    \* "flush": the client flushes the database;
                    \* "crash": the process ends anywhere and is started again

ASSUME LoaderAssumption ==
    /\ None \notin Codes \cup Users
    /\ Depth \in Nat
    /\ Liberties \subseteq {"nested", "flush", "crash"}

VARIABLES
    state,          \* what the transaction reads: the keys of each contract
    durable,        \* what is on disk, and was read when the transaction began
    module_cache,   \* MODULE_CACHE: None where it has no code
    sys_modules,    \* sys.modules: the code a contract was loaded from
    loaded_modules, \* rt.loaded_modules
    restricted,     \* whether builtins.__import__ is restricted_import
    signer,         \* of the transaction
    active,         \* the modules and constructors executing, innermost last
    phase,          \* of the transaction
    torn            \* history: the process ended in the middle of a commit

process == <<module_cache, sys_modules, loaded_modules, restricted>>
vars == <<state, durable, process, signer, active, phase, torn>>

May(liberty) == liberty \in Liberties

CodeOf == [Contracts -> Codes \cup {None}]
Nothing == [c \in Contracts |-> None]

Owners == Users \cup {None}

(* "__code__", "__compiled__", "__owner__" and "__developer__".  Nothing   *)
(* reads "__submitted__", the time, which is set before the last.          *)
Entry == [code : Codes \cup {None}, compiled : Codes \cup {None},
          owner : Owners, developer : Users \cup {None}]
Absent == [code |-> None, compiled |-> None, owner |-> None, developer |-> None]
Empty == [c \in Contracts |-> Absent]

Frame == [does : {"load", "submit", "store"}, name : Contracts, code : Codes, owner : Owners]

TypeOK ==
    /\ {state, durable} \subseteq [Contracts -> Entry]
    /\ {module_cache, sys_modules} \subseteq CodeOf
    /\ loaded_modules \subseteq Contracts
    /\ {restricted, torn} \subseteq BOOLEAN
    /\ signer \in Users
    /\ active \in Seq(Frame)
    /\ phase \in {"idle", "loading", "running", "returning", "committing", "raised"}

Init ==
    /\ state = Empty
    /\ durable = Empty
    /\ module_cache = Nothing
    /\ sys_modules = Nothing
    /\ loaded_modules = {}
    /\ restricted = FALSE
    /\ signer \in Users
    /\ active = <<>>
    /\ phase = "idle"
    /\ torn = FALSE

-----------------------------------------------------------------------------
Top == active[Len(active)]
Outermost == active[1]
Push(does, c, code, owner) ==
    /\ Len(active) < Depth
    /\ active' = Append(active, [does |-> does, name |-> c, code |-> code, owner |-> owner])
Pop == active' = SubSeq(active, 1, Len(active) - 1)

Begin(u) ==
    /\ phase = "idle"
    /\ phase' = "loading"
    /\ signer' = u
    /\ UNCHANGED <<state, durable, process, active, torn>>

(* execute() has imported the contract, or found submission, and calls the *)
(* function.                                                               *)
Call ==
    /\ phase = "loading" /\ active = <<>>
    /\ phase' = "running"
    /\ restricted' = TRUE
    /\ UNCHANGED <<state, durable, module_cache, sys_modules, loaded_modules, signer, active, torn>>

(* find_spec and exec_module: the code in MODULE_CACHE or in the database. *)
Fetch(c) == IF module_cache[c] # None THEN module_cache[c] ELSE state[c].compiled
Found(c) == (module_cache[c] # None \/ state[c].code # None) /\ Fetch(c) # None

(* Mutant: a contract that does not exist is loaded too.                   *)
ImportUnchecked(c) ==
    /\ sys_modules[c] = None
    /\ Push("load", c, Fetch(c), None)
    /\ module_cache' = [module_cache EXCEPT ![c] = Fetch(c)]
    /\ sys_modules' = [sys_modules EXCEPT ![c] = Fetch(c)]
    /\ UNCHANGED <<state, durable, loaded_modules, restricted, signer, phase, torn>>

(* The import of a contract that is in sys.modules already does nothing.   *)
Import(c) ==
    /\ sys_modules[c] = None
    /\ Found(c)
    /\ Push("load", c, Fetch(c), None)
    /\ module_cache' = [module_cache EXCEPT ![c] = Fetch(c)]
    /\ sys_modules' = [sys_modules EXCEPT ![c] = Fetch(c)]
    /\ UNCHANGED <<state, durable, loaded_modules, restricted, signer, phase, torn>>

(* By execute(), for the contract it calls, if its owner calls; by the     *)
(* import statements of a contract, which are at its top level; and by     *)
(* importlib, which asks the database, not MODULE_CACHE, whether there is  *)
(* such a contract.  For a contract the hook finds the same.               *)
ImportCalled(c) ==
    /\ phase = "loading" /\ active = <<>> /\ sys_modules = Nothing
    /\ state[c].owner \in {None, signer}
    /\ Import(c)
ImportStatement(c) ==
    /\ phase \in {"loading", "running"}
    /\ active # <<>> /\ Top.does \in {"load", "submit"}
    /\ Import(c)
ImportModule(c) ==
    /\ phase = "running"
    /\ active # <<>> => Top.does # "store"
    /\ state[c].code # None
    /\ Import(c)

(* The module has been executed.                                           *)
Loaded ==
    /\ phase \in {"loading", "running"} /\ active # <<>> /\ Top.does = "load"
    /\ loaded_modules' = loaded_modules \cup {Top.name}
    /\ Pop
    /\ UNCHANGED <<state, durable, module_cache, sys_modules, restricted, signer, phase, torn>>

(* Contract.submit: the contract does not exist, and its constructor runs. *)
(* What runs there still has submission as ctx.this and passes the check   *)
(* of the caller in submit_contract, which no other contract does.         *)
Submit(c, code, owner) ==
    /\ phase = "running"
    /\ active # <<>> => May("nested") /\ Outermost.does = "submit" /\ Top.does # "store"
    /\ state[c].code = None
    /\ Push("submit", c, code, owner)
    /\ UNCHANGED <<state, durable, process, signer, phase, torn>>

Rest == IF Len(active) = 1 THEN "returning" ELSE phase

(* Mutant: set_contract does not look again whether there is a contract.   *)
SubmittedOverwriting ==
    /\ phase = "running" /\ active # <<>> /\ Top.does = "submit"
    /\ state' = [state EXCEPT ![Top.name].code = Top.code]
    /\ active' = [active EXCEPT ![Len(active)].does = "store"]
    /\ UNCHANGED <<durable, process, signer, phase, torn>>

(* The constructor has returned, and set_contract stores what is not there *)
(* yet, the code first.  After the outermost one nothing is left to do.    *)
Submitted ==
    /\ phase = "running" /\ active # <<>> /\ Top.does = "submit"
    /\ IF state[Top.name].code = None
       THEN /\ state' = [state EXCEPT ![Top.name].code = Top.code]
            /\ active' = [active EXCEPT ![Len(active)].does = "store"]
            /\ UNCHANGED phase
       ELSE /\ Pop
            /\ phase' = Rest
            /\ UNCHANGED state
    /\ UNCHANGED <<durable, process, signer, torn>>

Stored ==
    /\ phase = "running" /\ active # <<>> /\ Top.does = "store"
    /\ state' = [state EXCEPT ![Top.name] =
                    [@ EXCEPT !.compiled = Top.code, !.owner = Top.owner, !.developer = signer]]
    /\ Pop
    /\ phase' = Rest
    /\ UNCHANGED <<durable, process, signer, torn>>

(* change_developer, called by the signer.                                 *)
ChangeDeveloper(c, u) ==
    /\ phase = "running" /\ active = <<>>
    /\ state[c].developer = signer
    /\ state' = [state EXCEPT ![c].developer = u]
    /\ phase' = "returning"
    /\ UNCHANGED <<durable, process, signer, active, torn>>

(* Mutant: an exception leaves half-executed modules in sys.modules.       *)
RaiseKeepingModules ==
    /\ phase \in {"loading", "running", "returning"}
    /\ active' = <<>>
    /\ phase' = "raised"
    /\ UNCHANGED <<state, durable, process, signer, torn>>

(* Out of stamps in the middle of set_contract, an assertion, a contract   *)
(* that is not found...  As the exception passes the modules that are      *)
(* executing, Python takes them from sys.modules again; the hook stays.    *)
Raise ==
    /\ phase \in {"loading", "running", "returning"}
    /\ sys_modules' = [c \in Contracts |->
                         IF \E i \in 1..Len(active) : active[i].does = "load" /\ active[i].name = c
                         THEN None ELSE sys_modules[c]]
    /\ active' = <<>>
    /\ phase' = "raised"
    /\ UNCHANGED <<state, durable, module_cache, loaded_modules, restricted, signer, torn>>

-----------------------------------------------------------------------------
Return ==
    /\ phase \in {"running", "returning"} /\ active = <<>>
    /\ restricted' = FALSE
    /\ phase' = "committing"
    /\ UNCHANGED <<state, durable, module_cache, sys_modules, loaded_modules, signer, active, torn>>

(* commit() writes the keys of a contract one by one, in the order they    *)
(* were set; that of the contracts is left open.  Since a transaction      *)
(* begins with an empty cache, nothing else comes in between.              *)
Writes(c, key) ==
    /\ phase = "committing"
    /\ durable[c][key] # state[c][key]
    /\ durable' = [durable EXCEPT ![c][key] = state[c][key]]
    /\ UNCHANGED <<state, process, signer, active, phase, torn>>

Written(c, keys) == \A key \in keys : durable[c][key] = state[c][key]

CommitCode(c) == Writes(c, "code")

(* Mutant: the keys are written in any order.                              *)
CommitCompiledFirst(c) == Writes(c, "compiled")

CommitCompiled(c) == Written(c, {"code"}) /\ Writes(c, "compiled")

CommitOwner(c) == Written(c, {"code", "compiled"}) /\ Writes(c, "owner")

(* Mutant: the developer is written before the owner.                      *)
CommitDeveloperEarly(c) == Written(c, {"code", "compiled"}) /\ Writes(c, "developer")

CommitDeveloper(c) == Written(c, {"code", "compiled", "owner"}) /\ Writes(c, "developer")

(* The writes of a transaction that raised are dropped; clean_up empties   *)
(* sys.modules, and the hook is taken away, again if it was before.        *)
Finish ==
    /\ phase = "raised" \/ (phase = "committing" /\ durable = state)
    /\ state' = durable
    /\ sys_modules' = [c \in Contracts |-> IF c \in loaded_modules THEN None ELSE sys_modules[c]]
    /\ loaded_modules' = {}
    /\ restricted' = FALSE
    /\ phase' = "idle"
    /\ UNCHANGED <<durable, module_cache, signer, active, torn>>

(* ContractingClient.flush, up to the new submission of its own contract.  *)
Flush ==
    /\ May("flush") /\ phase = "idle"
    /\ state' = Empty
    /\ durable' = Empty
    /\ UNCHANGED <<process, signer, active, phase, torn>>

Crash ==
    /\ May("crash")
    /\ state' = durable
    /\ module_cache' = Nothing
    /\ sys_modules' = Nothing
    /\ loaded_modules' = {}
    /\ restricted' = FALSE
    /\ active' = <<>>
    /\ phase' = "idle"
    /\ torn' = (torn \/ (phase = "committing" /\ durable # state))
    /\ UNCHANGED <<durable, signer>>

Next ==
    \/ \E u \in Users : Begin(u)
    \/ Call
    \/ \E c \in Contracts : ImportCalled(c) \/ ImportStatement(c) \/ ImportModule(c)
    \/ Loaded
    \/ \E c \in Contracts, code \in Codes, owner \in Owners : Submit(c, code, owner)
    \/ Submitted
    \/ Stored
    \/ \E c \in Contracts, u \in Users : ChangeDeveloper(c, u)
    \/ Raise
    \/ Return
    \/ \E c \in Contracts :
         CommitCode(c) \/ CommitCompiled(c) \/ CommitOwner(c) \/ CommitDeveloper(c)
    \/ Finish
    \/ Flush
    \/ Crash

Spec == Init /\ [][Next]_vars
-----------------------------------------------------------------------------
(* A module that is in use was loaded from the code that the database has, *)
(* although the database is asked once: transactions that failed after     *)
(* they stored a contract leave no trace in MODULE_CACHE.                  *)
ModulesAreTheState ==
    \A c \in Contracts :
      /\ sys_modules[c] # None => sys_modules[c] = state[c].code
      /\ module_cache[c] # None => module_cache[c] = state[c].code

(* Nothing outlives its transaction, whatever raised where: the next one   *)
(* finds none of the modules, with the globals that this one left, and the *)
(* process imports as Python does.                                         *)
NothingOutlives == phase = "idle" => sys_modules = Nothing /\ ~restricted

(* The code of a contract never changes, even if the constructor of one    *)
(* submission makes another one of the same name, nor does its owner once  *)
(* it can be imported; and who its developer is only a transaction of the  *)
(* developer changes, for as long as it lasts.                             *)
ContractsAreKept ==
    [][\A c \in Contracts :
         \/ /\ state[c].code # None => state'[c].code = state[c].code
            /\ state[c].compiled # None => state'[c].owner = state[c].owner
            /\ state[c].developer \notin {None, signer} => state'[c].developer = state[c].developer
         \/ state'[c] = durable[c]
         \/ Flush]_vars

Whole(entry) == entry.code # None /\ entry.compiled = entry.code /\ entry.developer # None

(* Between transactions a contract is on disk whole or not at all, unless  *)
(* a process ended in the middle of a commit.  What that leaves keeps the  *)
(* order of the keys: with compiled code there is the code that forbids to *)
(* submit it again, and a contract with a developer is whole, with the     *)
(* owner it was submitted for.  One without a developer may lack its owner *)
(* and be imported all the same.                                           *)
KeysComeInOrder ==
    \A c \in Contracts :
      /\ durable[c].compiled # None => durable[c].code = durable[c].compiled
      /\ durable[c].owner # None => durable[c].compiled # None
      /\ durable[c].developer # None =>
           Whole(durable[c]) /\ durable[c].owner = state[c].owner
      /\ phase = "idle" /\ ~torn => durable[c] = Absent \/ Whole(durable[c])

(* sys.modules and the hook are as clean before a transaction as they were *)
(* when the process started, and hold what the database may hold.          *)
LoaderInv == TypeOK /\ NothingOutlives
=============================================================================
