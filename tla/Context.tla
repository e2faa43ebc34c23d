------------------------------ MODULE Context ------------------------------
(***************************************************************************)
(* The ctx object of a transaction: the stack of frames that Context of    *)
(* contracting/execution/runtime.py keeps, the __export decorator of       *)
(* contracting/stdlib/bridge/access.py that pushes and pops them around    *)
(* every call of an exported function, and the frame that                  *)
(* Executor.execute() puts below them.  Names are chosen so that this      *)
(* module and Loader can be extended together.                             *)
(***************************************************************************)
EXTENDS Integers, Sequences

CONSTANTS
    ContractNames,  \* names of contracts
    Signers,        \* names of external accounts
    Nobody,         \* Python's None: a contract without an owner
    Owner,          \* the owner of each contract, what get_owner reads
    MaxLen,         \* config.RECURSION_LIMIT, the capacity of the stack
    MaxCalls,       \* bound on nested calls: Python's own recursion limit
    SelfCalls       \* whether exported functions call others of their contract

ASSUME ContextAssumption ==
    /\ Owner \in [ContractNames -> ContractNames \cup Signers \cup {Nobody}]
    /\ MaxLen \in Nat
    /\ MaxCalls \in Nat
    /\ SelfCalls \in BOOLEAN

VARIABLES
    base,       \* _base_state
    stack,      \* _state: the frames above it
    calls,      \* the contracts whose exported functions are executing
    raised      \* whether an exception is on its way up through them

contextVars == <<base, stack, calls, raised>>

Names == ContractNames \cup Signers \cup {Nobody}

ContextFrame ==
    [this : Names, caller : Names, signer : Names, entry : Names, owner : Names]

ContextTypeOK ==
    /\ base \in ContextFrame
    /\ stack \in Seq(ContextFrame)
    /\ calls \in Seq(ContractNames)
    /\ raised \in BOOLEAN

(* The module-level context of runtime.py has no names yet.                *)
ContextInit ==
    /\ base = [this |-> Nobody, caller |-> Nobody, signer |-> Nobody,
               entry |-> Nobody, owner |-> Nobody]
    /\ stack = <<>>
    /\ calls = <<>>
    /\ raised = FALSE

-----------------------------------------------------------------------------
Last(s) == s[Len(s)]
Front(s) == SubSeq(s, 1, Len(s) - 1)

State == IF stack = <<>> THEN base ELSE Last(stack)

ContextChanged(c) == State.this # c

AddState(frame) ==
    stack' = IF ContextChanged(frame.this) /\ Len(stack) < MaxLen
             THEN Append(stack, frame) ELSE stack

(* Mutant: returning drops every frame.                                    *)
PopAll == stack' = <<>>

PopState == stack' = IF stack = <<>> THEN stack ELSE Front(stack)

(* A call from outside.  When it may not make the call it fails at once,   *)
(* and the frames of the one before are dropped in any case.  The exported *)
(* function finds its own contract in the context, and pushes nothing.     *)
Execute(s, c) ==
    /\ calls = <<>>
    /\ stack' = <<>>
    /\ base' = [this |-> c, caller |-> s, signer |-> s, entry |-> c, owner |-> Owner[c]]
    /\ calls' = IF Owner[c] \in {Nobody, s} THEN <<c>> ELSE <<>>
    /\ UNCHANGED raised

(* Mutant: the caller of the caller is taken over.                         *)
NewFrameKeepingCaller(c) ==
    [this |-> c, caller |-> State.caller, signer |-> State.signer,
     entry |-> State.entry, owner |-> Owner[c]]

NewFrame(c) ==
    [this |-> c, caller |-> State.this, signer |-> State.signer,
     entry |-> State.entry, owner |-> Owner[c]]

(* __enter__: an exported function of c is called.  The frame is on the    *)
(* stack when the owner is found wrong, and __exit__ does not run then.    *)
CallExported(c) ==
    /\ calls # <<>> /\ ~raised /\ Len(calls) < MaxCalls
    /\ SelfCalls \/ c # Last(calls)
    /\ IF ContextChanged(c) THEN AddState(NewFrame(c)) ELSE UNCHANGED stack
    /\ IF ContextChanged(c) /\ Owner[c] \notin {Nobody, State.this}
       THEN raised' = TRUE /\ UNCHANGED calls
       ELSE calls' = Append(calls, c) /\ UNCHANGED raised
    /\ UNCHANGED base

(* A contract raises, or runs out of stamps: no contract can catch it.     *)
RaiseThrough ==
    /\ calls # <<>> /\ ~raised
    /\ raised' = TRUE
    /\ UNCHANGED <<base, stack, calls>>

(* __exit__: the function returns, or passes the exception on.             *)
ReturnExported ==
    /\ calls # <<>>
    /\ calls' = Front(calls)
    /\ PopState
    /\ raised' = (raised /\ Len(calls) > 1)
    /\ UNCHANGED base

ContextNext ==
    \/ \E s \in Signers, c \in ContractNames : Execute(s, c)
    \/ \E c \in ContractNames : CallExported(c)
    \/ RaiseThrough
    \/ ReturnExported

ContextSpec == ContextInit /\ [][ContextNext]_contextVars
-----------------------------------------------------------------------------
Running == calls # <<>> /\ ~raised

(* What the i-th call on the Python stack should see as ctx.               *)
Expected(i) ==
    [this |-> calls[i],
     caller |-> IF i = 1 THEN base.signer ELSE calls[i - 1],
     signer |-> base.signer,
     entry |-> calls[1],
     owner |-> Owner[calls[i]]]

(* Whatever was called and returned before, the code of a contract sees    *)
(* itself as ctx.this, the one who called it as ctx.caller, and the signer *)
(* and the entry of the transaction.                                       *)
SeesItsOwnFrame == Running => State = Expected(Len(calls))

(* A contract that has an owner executes only while its owner called it,   *)
(* however deep the call is.                                               *)
OnlyTheOwnerCalls ==
    \A i \in 1..Len(calls) : Owner[calls[i]] \in {Nobody, Expected(i).caller}

-----------------------------------------------------------------------------
(* Every active call but the first has a frame of its own; a call refused  *)
(* for its owner leaves one more while its exception is on the way up.     *)
FramesMatch ==
    calls # <<>> =>
      /\ base = Expected(1)
      /\ Len(stack) \in Len(calls) - 1 .. Len(calls)
      /\ ~raised => Len(stack) = Len(calls) - 1
      /\ \A i \in 2..Len(calls) : stack[i - 1] = Expected(i)

(* Exported functions are called from other contracts only, and not deeper *)
(* than the stack has room for.                                            *)
Protocol == ~SelfCalls /\ MaxCalls <= MaxLen

ContextInv ==
    /\ ContextTypeOK
    /\ FramesMatch
    /\ raised => calls # <<>>
    /\ OnlyTheOwnerCalls
=============================================================================
