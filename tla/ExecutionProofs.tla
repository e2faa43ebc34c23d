-------------------------- MODULE ExecutionProofs --------------------------
(***************************************************************************)
(* What holds inside of transactions.  Context, for every set of contracts *)
(* and owners, and every depth that the stack has room for; and Loader,    *)
(* for any contracts, users and depth, with every liberty: what outlives a *)
(* transaction, and what submissions, exceptions, flushes and crashes      *)
(* leave of a contract.                                                    *)
(***************************************************************************)
EXTENDS Context, Loader, SequenceTheorems, TLAPS

-----------------------------------------------------------------------------
(* The stack of frames, whose first elements are a sequence again.         *)
LEMMA FrontOf ==
    ASSUME NEW S, NEW s \in Seq(S), s # <<>>
    PROVE  /\ Front(s) \in Seq(S)
           /\ Len(Front(s)) = Len(s) - 1
           /\ \A i \in 1..Len(s) - 1 : Front(s)[i] = s[i]
           /\ Len(s) \in Nat \ {0}
           /\ Last(s) \in S
<1>1. Len(s) \in Nat \ {0}
  BY EmptySeq
<1>2. /\ 1 \in 1..Len(s) + 1 /\ Len(s) - 1 \in 0..Len(s)
      /\ Last(s) \in S
  BY <1>1 DEF Last
<1>3. Front(s) \in Seq(S) /\ \A i \in 1..Len(s) - 1 : Front(s)[i] = s[i]
  BY <1>1 DEF Front
<1>4. PICK n \in Int : n = Len(s) - 1 /\ \A i \in 1..n : s[i] \in S
  BY <1>1
<1>5. Len(SubSeq(s, 1, n)) = IF 1 <= n THEN n - 1 + 1 ELSE 0
  BY <1>4, SubSeqProperties
<1>6. Len(Front(s)) = Len(s) - 1
  BY <1>1, <1>4, <1>5 DEF Front
<1>7. QED
  BY <1>1, <1>2, <1>3, <1>6

(* The frame that a call sees is well typed.                               *)
LEMMA StateType ==
    ASSUME ContextTypeOK
    PROVE  State \in ContextFrame
BY FrontOf DEF State, ContextTypeOK

LEMMA NewFrameType ==
    ASSUME ContextTypeOK, NEW c \in ContractNames
    PROVE  NewFrame(c) \in ContextFrame
<1>1. State \in ContextFrame
  BY StateType
<1>2. Owner[c] \in Names
  BY ContextAssumption DEF Names
<1>3. QED
  BY <1>1, <1>2 DEF NewFrame, ContextFrame, Names

(* While no exception is on its way, the top frame is the one that belongs *)
(* to the innermost call.                                                  *)
LEMMA TopFrame ==
    ASSUME ContextTypeOK, FramesMatch, Running
    PROVE  State = Expected(Len(calls))
<1>1. Len(calls) \in Nat \ {0} /\ Len(stack) = Len(calls) - 1
  BY FrontOf DEF ContextTypeOK, FramesMatch, Running
<1>2. CASE Len(calls) = 1
  <2>1. stack = <<>>
    BY <1>1, <1>2, EmptySeq DEF ContextTypeOK
  <2>2. QED
    BY <1>2, <2>1 DEF State, FramesMatch, Running
<1>3. CASE Len(calls) # 1
  <2>1. stack # <<>> /\ Len(calls) \in 2..Len(calls)
    BY <1>1, <1>3
  <2>2. stack[Len(calls) - 1] = Expected(Len(calls))
    BY <2>1 DEF FramesMatch, Running
  <2>3. QED
    BY <1>1, <2>1, <2>2 DEF State, Last
<1>4. QED
  BY <1>2, <1>3

LEMMA InvExecute ==
    ASSUME Protocol, ContextInv, NEW s \in Signers, NEW c \in ContractNames, Execute(s, c)
    PROVE  ContextInv'
<1>1. /\ calls' = IF Owner[c] \in {Nobody, s} THEN <<c>> ELSE <<>>
      /\ stack' = <<>>
      /\ raised' = FALSE
      /\ base' = [this |-> c, caller |-> s, signer |-> s, entry |-> c, owner |-> Owner[c]]
  BY DEF Execute, ContextInv, ContextTypeOK
<1>2. ContextTypeOK'
  <2>1. Owner[c] \in Names
    BY ContextAssumption DEF Names
  <2>2. base' \in ContextFrame
    BY <1>1, <2>1 DEF ContextFrame, Names
  <2>3. stack' \in Seq(ContextFrame) /\ calls' \in Seq(ContractNames)
    BY <1>1
  <2>4. QED
    BY <1>1, <2>2, <2>3 DEF ContextTypeOK
<1>3. CASE Owner[c] \in {Nobody, s}
  <2>1. calls' = <<c>> /\ calls'[1] = c /\ Len(calls') = 1 /\ Len(stack') = 0
    BY <1>1, <1>3
  <2>2. FramesMatch'
    BY <1>1, <2>1 DEF FramesMatch, Expected
  <2>3. OnlyTheOwnerCalls'
    BY <1>1, <1>3, <2>1 DEF OnlyTheOwnerCalls, Expected
  <2>4. QED
    BY <1>1, <1>2, <2>2, <2>3 DEF ContextInv
<1>4. CASE Owner[c] \notin {Nobody, s}
  BY <1>1, <1>2, <1>4 DEF ContextInv, FramesMatch, OnlyTheOwnerCalls
<1>5. QED
  BY <1>3, <1>4

(* A call adds its own frame and leaves those below.                       *)
LEMMA InvCall ==
    ASSUME Protocol, ContextInv, NEW c \in ContractNames, CallExported(c)
    PROVE  ContextInv'
<1>1. /\ Running /\ c # Last(calls) /\ Len(calls) < MaxCalls
      /\ base' = base
  BY DEF CallExported, Protocol, Running
<1>2. /\ Len(calls) \in Nat \ {0}
      /\ Len(stack) = Len(calls) - 1
      /\ calls \in Seq(ContractNames) /\ stack \in Seq(ContextFrame)
  BY <1>1, FrontOf DEF ContextInv, ContextTypeOK, FramesMatch, Running
<1>3. State = Expected(Len(calls))
  BY <1>1, TopFrame DEF ContextInv
<1>4. ContextChanged(c)
  BY <1>1, <1>3 DEF ContextChanged, Expected, Last
<1>5. Len(stack) < MaxLen
  BY <1>1, <1>2, ContextAssumption DEF Protocol
<1>6. stack' = Append(stack, NewFrame(c))
  BY <1>4, <1>5 DEF CallExported, AddState, NewFrame
<1>7. NewFrame(c) \in ContextFrame
  BY NewFrameType DEF ContextInv
<1>8. /\ stack' \in Seq(ContextFrame) /\ Len(stack') = Len(calls)
      /\ \A i \in 1..Len(calls) - 1 : stack'[i] = stack[i]
      /\ stack'[Len(calls)] = NewFrame(c)
  BY <1>2, <1>6, <1>7
<1>9. \A i \in 2..Len(calls) : stack[i - 1] = Expected(i)
  BY <1>1 DEF ContextInv, FramesMatch, Running
<1>10. base = Expected(1)
  BY <1>1 DEF ContextInv, FramesMatch, Running
<1>11. CASE Owner[c] \notin {Nobody, State.this}
  <2>1. raised' = TRUE /\ calls' = calls
    BY <1>4, <1>11 DEF CallExported
  <2>2. ContextTypeOK'
    BY <1>1, <1>8, <2>1 DEF ContextInv, ContextTypeOK
  <2>3. \A i \in Int : Expected(i)' = Expected(i)
    BY <1>1, <2>1 DEF Expected
  <2>4. FramesMatch'
    <3>1. \A i \in 2..Len(calls) : stack'[i - 1] = Expected(i)
      BY <1>2, <1>8, <1>9
    <3>2. Len(stack') \in Len(calls') - 1 .. Len(calls')
      BY <1>2, <1>8, <2>1
    <3>3. base' = Expected(1)'
      BY <1>1, <1>10, <2>3
    <3>4. \A i \in 2..Len(calls') : stack'[i - 1] = Expected(i)'
      BY <2>1, <2>3, <3>1
    <3>5. QED
      BY <2>1, <3>2, <3>3, <3>4 DEF FramesMatch
  <2>5. OnlyTheOwnerCalls'
    BY <1>2, <2>1, <2>3 DEF ContextInv, OnlyTheOwnerCalls
  <2>6. QED
    BY <1>1, <2>1, <2>2, <2>4, <2>5 DEF ContextInv, Running
<1>12. CASE Owner[c] \in {Nobody, State.this}
  <2>1. raised' = FALSE /\ calls' = Append(calls, c)
    BY <1>1, <1>12 DEF CallExported, Running, ContextInv, ContextTypeOK
  <2>2. /\ calls' \in Seq(ContractNames) /\ Len(calls') = Len(calls) + 1
        /\ \A i \in 1..Len(calls) : calls'[i] = calls[i]
        /\ calls'[Len(calls) + 1] = c
    BY <1>2, <2>1
  <2>3. ContextTypeOK'
    BY <1>1, <1>8, <2>1, <2>2 DEF ContextInv, ContextTypeOK
  <2>4. \A i \in 1..Len(calls) : Expected(i)' = Expected(i)
    <3>1. SUFFICES ASSUME NEW i \in 1..Len(calls) PROVE Expected(i)' = Expected(i)
      OBVIOUS
    <3>2. calls'[i] = calls[i] /\ calls'[1] = calls[1] /\ (i # 1 => calls'[i - 1] = calls[i - 1])
      BY <1>2, <2>2, 1 \in 1..Len(calls), i # 1 => i - 1 \in 1..Len(calls)
    <3>3. QED
      BY <1>1, <3>2 DEF Expected
  <2>5. ASSUME NEW i, i = Len(calls) + 1
        PROVE  Expected(i)' = NewFrame(c)
    <3>1. i - 1 = Len(calls) /\ i # 1 /\ 1 \in 1..Len(calls) /\ Len(calls) \in 1..Len(calls)
      BY <1>2, <2>5
    <3>2. Expected(i)' = [this |-> c, caller |-> calls[Len(calls)], signer |-> base.signer,
                          entry |-> calls[1], owner |-> Owner[c]]
      BY <1>1, <2>2, <2>5, <3>1 DEF Expected
    <3>3. QED
      BY <1>3, <3>2 DEF Expected, NewFrame
  <2>6. FramesMatch'
    <3>1. base' = Expected(1)'
      BY <1>1, <1>2, <1>10, <2>4
    <3>2. ASSUME NEW i \in 2..Len(calls) + 1 PROVE stack'[i - 1] = Expected(i)'
      <4>1. CASE i = Len(calls) + 1
        BY <1>2, <1>8, <2>5, <4>1
      <4>2. CASE i # Len(calls) + 1
        BY <1>2, <1>8, <1>9, <2>4, <4>2
      <4>3. QED
        BY <4>1, <4>2
    <3>3. /\ Len(stack') \in Len(calls') - 1 .. Len(calls')
          /\ Len(stack') = Len(calls') - 1
      BY <1>2, <1>8, <2>2
    <3>4. \A i \in 2..Len(calls') : stack'[i - 1] = Expected(i)'
      BY <2>2, <3>2
    <3>5. QED
      BY <3>1, <3>3, <3>4 DEF FramesMatch
  <2>7. OnlyTheOwnerCalls'
    <3>1. ASSUME NEW i \in 1..Len(calls) + 1
          PROVE  Owner[calls'[i]] \in {Nobody, Expected(i).caller'}
      <4>1. CASE i = Len(calls) + 1
        BY <1>2, <1>12, <2>2, <2>5, <4>1 DEF NewFrame
      <4>2. CASE i # Len(calls) + 1
        BY <1>2, <2>2, <2>4, <4>2 DEF ContextInv, OnlyTheOwnerCalls
      <4>3. QED
        BY <4>1, <4>2
    <3>2. QED
      BY <2>2, <3>1 DEF OnlyTheOwnerCalls
  <2>8. QED
    BY <2>1, <2>3, <2>6, <2>7 DEF ContextInv
<1>13. QED
  BY <1>11, <1>12

(* A return removes the last call and, if it has one, its frame.           *)
LEMMA InvReturn ==
    ASSUME ContextInv, ReturnExported
    PROVE  ContextInv'
<1>1. /\ calls # <<>> /\ calls' = Front(calls) /\ base' = base
      /\ stack' = IF stack = <<>> THEN stack ELSE Front(stack)
      /\ raised' = (raised /\ Len(calls) > 1)
  BY DEF ReturnExported, PopState
<1>2. /\ calls' \in Seq(ContractNames) /\ Len(calls') = Len(calls) - 1
      /\ \A i \in 1..Len(calls) - 1 : calls'[i] = calls[i]
      /\ Len(calls) \in Nat \ {0}
  BY <1>1, FrontOf DEF ContextInv, ContextTypeOK
<1>3. stack' \in Seq(ContextFrame)
  BY <1>1, FrontOf DEF ContextInv, ContextTypeOK
<1>4. ContextTypeOK'
  BY <1>1, <1>2, <1>3 DEF ContextInv, ContextTypeOK
<1>5. \A i \in 1..Len(calls) - 1 : Expected(i)' = Expected(i)
  BY <1>1, <1>2 DEF Expected
<1>6. raised' => calls' # <<>>
  <2>1. raised' => Len(calls) > 1
    BY <1>1
  <2>2. QED
    BY <1>2, <2>1, EmptySeq
<1>7. OnlyTheOwnerCalls'
  BY <1>2, <1>5 DEF ContextInv, OnlyTheOwnerCalls
<1>8. FramesMatch'
  <2>1. SUFFICES ASSUME calls' # <<>>
                 PROVE  /\ base' = Expected(1)'
                        /\ Len(stack') \in Len(calls') - 1 .. Len(calls')
                        /\ ~raised' => Len(stack') = Len(calls') - 1
                        /\ \A i \in 2..Len(calls') : stack'[i - 1] = Expected(i)'
    BY DEF FramesMatch
  <2>2. Len(calls) > 1
    BY <1>2, <2>1, EmptySeq
  <2>3. /\ base = Expected(1)
        /\ Len(stack) \in Len(calls) - 1 .. Len(calls)
        /\ ~raised => Len(stack) = Len(calls) - 1
        /\ \A i \in 2..Len(calls) : stack[i - 1] = Expected(i)
    BY <1>1 DEF ContextInv, FramesMatch
  <2>4. stack # <<>> /\ stack \in Seq(ContextFrame)
    BY <2>2, <2>3, <1>2 DEF ContextInv, ContextTypeOK
  <2>5. /\ Len(stack') = Len(stack) - 1
        /\ \A i \in 1..Len(stack) - 1 : stack'[i] = stack[i]
    BY <1>1, <2>4, FrontOf
  <2>6. raised' = raised
    BY <1>1, <2>2 DEF ContextInv, ContextTypeOK
  <2>7. \A i \in 2..Len(calls') : stack'[i - 1] = Expected(i)'
    <3>1. SUFFICES ASSUME NEW i \in 2..Len(calls') PROVE stack'[i - 1] = Expected(i)'
      OBVIOUS
    <3>2. Len(stack) \in Nat /\ Len(calls) \in Nat /\ Len(calls') = Len(calls) - 1
      BY <1>2, <1>5, <2>4
    <3>3. i \in 2..Len(calls) /\ i \in 1..Len(calls) - 1 /\ i - 1 \in 1..Len(stack) - 1
      BY <2>3, <3>2
    <3>4. Expected(i)' = Expected(i)
      BY <1>5, <3>3, Zenon
    <3>5. QED
      BY <2>3, <2>5, <3>3, <3>4
  <2>8. QED
    BY <1>1, <1>2, <1>5, <2>2, <2>3, <2>5, <2>6, <2>7
<1>9. QED
  BY <1>4, <1>6, <1>7, <1>8 DEF ContextInv

LEMMA InvContext ==
    ASSUME Protocol, ContextInv, [ContextNext]_contextVars
    PROVE  ContextInv'
<1>1. CASE RaiseThrough
  BY <1>1 DEF RaiseThrough, ContextInv, ContextTypeOK, FramesMatch, OnlyTheOwnerCalls, Expected
<1>2. CASE UNCHANGED contextVars
  BY <1>2 DEF contextVars, ContextInv, ContextTypeOK, FramesMatch, OnlyTheOwnerCalls, Expected
<1>3. QED
  BY <1>1, <1>2, InvExecute, InvCall, InvReturn DEF ContextNext

(* The stack of frames mirrors the Python stack of exported calls, also    *)
(* while an exception unwinds both.                                        *)
THEOREM ContextInvariant ==
    ASSUME Protocol
    PROVE  ContextSpec => []ContextInv
<1>1. ASSUME ContextInit PROVE ContextInv
  <2>1. calls = <<>> /\ Len(calls) = 0 /\ ~raised
    BY <1>1 DEF ContextInit
  <2>2. ContextTypeOK
    <3>1. base \in ContextFrame
      BY <1>1 DEF ContextInit, ContextFrame, Names
    <3>2. stack \in Seq(ContextFrame) /\ calls \in Seq(ContractNames)
      BY <1>1 DEF ContextInit
    <3>3. QED
      BY <1>1, <3>1, <3>2 DEF ContextInit, ContextTypeOK
  <2>3. QED
    BY <2>1, <2>2 DEF ContextInv, FramesMatch, OnlyTheOwnerCalls
<1>2. QED
  BY <1>1, InvContext, PTL DEF ContextSpec

(* The code of a contract sees itself as ctx.this and the one who called   *)
(* it as ctx.caller, whatever it called before.                            *)
THEOREM ContextIsTrue ==
    ASSUME Protocol
    PROVE  ContextSpec => []SeesItsOwnFrame
<1>1. ContextInv => SeesItsOwnFrame
  BY TopFrame DEF ContextInv, SeesItsOwnFrame
<1>2. QED
  BY <1>1, ContextInvariant, PTL

(* A contract that has an owner executes only when its owner called it.    *)
THEOREM OwnersAreRespected ==
    ASSUME Protocol
    PROVE  ContextSpec => []OnlyTheOwnerCalls
<1>1. ContextInv => OnlyTheOwnerCalls
  BY DEF ContextInv
<1>2. QED
  BY <1>1, ContextInvariant, PTL

-----------------------------------------------------------------------------
(* The loader, and contracts that are submitted.                           *)
Loading(c) == \E i \in 1..Len(active) : active[i].does = "load" /\ active[i].name = c
Storing(c) == \E i \in 1..Len(active) : active[i].does = "store" /\ active[i].name = c

(* A module in sys.modules is one that clean_up or Python will take out.   *)
Modules ==
    /\ \A c \in Contracts : sys_modules[c] # None => c \in loaded_modules \/ Loading(c)
    /\ active # <<>> => phase \in {"loading", "running"}
    /\ phase = "idle" => sys_modules = Nothing /\ loaded_modules = {} /\ ~restricted

Complete(e) == e.code # None => Whole(e)
Ordered(e) ==
    /\ e.code = None => e.compiled = None
    /\ e.compiled = None => e.owner = None /\ e.developer = None
    /\ e.compiled # None => e.compiled = e.code

(* What is on disk of a contract is the beginning of what is read of it.   *)
Begun(d, s) ==
    /\ d.code # None => s.code = d.code
    /\ d.compiled # None => s.compiled = d.compiled
    /\ d.developer # None => s.owner = d.owner

(* Where a contract may lack the keys that are stored after its code.      *)
Entries ==
    /\ \A c \in Contracts : Ordered(state[c]) /\ Ordered(durable[c])
    /\ \A c \in Contracts : Begun(durable[c], state[c])
    /\ ~torn /\ phase # "committing" => \A c \in Contracts : Complete(durable[c])
    /\ ~torn /\ phase # "raised" => \A c \in Contracts : Complete(state[c]) \/ Storing(c)
    /\ phase = "idle" => state = durable

(* set_contract is never interrupted by another submission.                *)
OneStores ==
    \A i \in 1..Len(active) : active[i].does = "store" =>
      /\ i = Len(active)
      /\ state[active[i].name].code = active[i].code
      /\ state[active[i].name].compiled = None

Inv == TypeOK /\ Modules /\ Entries /\ OneStores

-----------------------------------------------------------------------------
(* The modules and constructors executing.                                 *)

LEMMA Pushed ==
    ASSUME active \in Seq(Frame), NEW f \in Frame, active' = Append(active, f)
    PROVE  /\ active' \in Seq(Frame)
           /\ Len(active) \in Nat /\ Len(active') = Len(active) + 1
           /\ active'[Len(active')] = f
           /\ \A i \in 1..Len(active) : i \in 1..Len(active') /\ active'[i] = active[i]
OBVIOUS

LEMMA Popped ==
    ASSUME active \in Seq(Frame), active # <<>>, Pop
    PROVE  /\ active' \in Seq(Frame)
           /\ Len(active) \in Nat \ {0} /\ Len(active') = Len(active) - 1
           /\ \A i \in 1..Len(active') : i \in 1..Len(active) /\ active'[i] = active[i]
           /\ \A i \in 1..Len(active) : i = Len(active) \/ i \in 1..Len(active')
<1>1. Len(active) \in Nat \ {0}
  OBVIOUS
<1>2. active' = SubSeq(active, 1, Len(active) - 1)
  BY DEF Pop
<1>3. active' \in Seq(Frame) /\ \A i \in 1..(Len(active) - 1) : active'[i] = active[i]
  BY <1>1, <1>2
<1>4. PICK n \in Int : n = Len(active) - 1 /\ \A i \in 1..n : active[i] \in Frame
  BY <1>1
<1>5. Len(SubSeq(active, 1, n)) = IF 1 <= n THEN n - 1 + 1 ELSE 0
  BY <1>4, SubSeqProperties
<1>6. Len(active') = Len(active) - 1
  BY <1>1, <1>2, <1>4, <1>5
<1>7. QED
  BY <1>1, <1>3, <1>6

LEMMA TopIsAFrame ==
    ASSUME active \in Seq(Frame), active # <<>>
    PROVE  /\ Len(active) \in 1..Len(active) /\ Top = active[Len(active)]
           /\ Top \in Frame /\ Top.name \in Contracts /\ Top.code \in Codes
           /\ Top.owner \in Owners
<1>1. Len(active) \in Nat \ {0}
  OBVIOUS
<1>2. active[Len(active)] \in Frame
  BY <1>1
<1>3. QED
  BY <1>1, <1>2 DEF Top, Frame

LEMMA NoFrames ==
    ASSUME active = <<>>
    PROVE  Len(active) = 0 /\ \A i \in 1..Len(active) : FALSE
OBVIOUS

LEMMA CodeIsNotNone == \A code \in Codes : code # None
BY LoaderAssumption

LEMMA FetchedIsCode ==
    ASSUME TypeOK, NEW c \in Contracts, Found(c)
    PROVE  Fetch(c) \in Codes
<1>1. state[c] \in Entry /\ module_cache[c] \in Codes \cup {None}
  BY DEF TypeOK, CodeOf
<1>2. QED
  BY <1>1 DEF Found, Fetch, Entry

LEMMA ImportPushes ==
    ASSUME TypeOK, NEW c \in Contracts, Import(c)
    PROVE  /\ \E f \in Frame : /\ active' = Append(active, f)
                               /\ f.does = "load" /\ f.name = c
           /\ module_cache' \in CodeOf /\ sys_modules' \in CodeOf
           /\ \A d \in Contracts : d # c => sys_modules'[d] = sys_modules[d]
           /\ UNCHANGED <<state, durable, loaded_modules, restricted, signer, phase, torn>>
<1>1. Fetch(c) \in Codes
  BY FetchedIsCode DEF Import
<1>2. [does |-> "load", name |-> c, code |-> Fetch(c), owner |-> None] \in Frame
  BY <1>1 DEF Frame, Owners
<1>3. active' = Append(active, [does |-> "load", name |-> c, code |-> Fetch(c), owner |-> None])
  BY DEF Import, Push
<1>4. module_cache' \in CodeOf /\ sys_modules' \in CodeOf
  BY <1>1 DEF Import, CodeOf, TypeOK
<1>5. QED
  BY <1>2, <1>3, <1>4 DEF Import, TypeOK, CodeOf
-----------------------------------------------------------------------------
(* Types.                                                                  *)

LEMMA TypeInit == Init => TypeOK
<1> SUFFICES ASSUME Init PROVE TypeOK
  OBVIOUS
<1>1. Empty \in [Contracts -> Entry]
  BY DEF Empty, Absent, Entry, Owners
<1>2. Nothing \in CodeOf
  BY DEF Nothing, CodeOf
<1>3. <<>> \in Seq(Frame)
  OBVIOUS
<1>4. QED
  BY <1>1, <1>2, <1>3 DEF Init, TypeOK

LEMMA TypeNext ==
    ASSUME TypeOK, [Next]_vars
    PROVE  TypeOK'
<1> USE DEF TypeOK
<1>0. /\ Empty \in [Contracts -> Entry] /\ Nothing \in CodeOf
      /\ <<>> \in Seq(Frame)
  BY DEF Empty, Absent, Entry, Owners, Nothing, CodeOf
<1>1. ASSUME NEW u \in Users, Begin(u) PROVE TypeOK'
  BY <1>1 DEF Begin, process
<1>2. ASSUME Call PROVE TypeOK'
  BY <1>2 DEF Call
<1>3. ASSUME NEW c \in Contracts, Import(c) PROVE TypeOK'
  <2>1. active' \in Seq(Frame)
    BY <1>3, ImportPushes, Pushed
  <2>2. QED
    BY <1>3, <2>1, ImportPushes
<1>4. ASSUME Loaded PROVE TypeOK'
  <2>1. active' \in Seq(Frame) /\ Top.name \in Contracts
    BY <1>4, Popped, TopIsAFrame DEF Loaded
  <2>2. QED
    BY <1>4, <2>1 DEF Loaded
<1>5. ASSUME NEW c \in Contracts, NEW code \in Codes, NEW owner \in Owners,
             Submit(c, code, owner)
      PROVE TypeOK'
  <2>1. active' \in Seq(Frame)
    BY <1>5 DEF Submit, Push, Frame
  <2>2. QED
    BY <1>5, <2>1 DEF Submit, process
<1>6. ASSUME Submitted PROVE TypeOK'
  <2>1. Top \in Frame /\ Top.name \in Contracts /\ Top.code \in Codes
    BY <1>6, TopIsAFrame DEF Submitted
  <2>2. [state EXCEPT ![Top.name].code = Top.code] \in [Contracts -> Entry]
    BY <2>1 DEF Entry
  <2>3. [active EXCEPT ![Len(active)].does = "store"] \in Seq(Frame)
    BY <1>6, TopIsAFrame DEF Submitted, Frame
  <2>4. active # <<>> => (Pop => active' \in Seq(Frame))
    BY Popped
  <2>5. phase' \in {"running", "returning"}
    BY <1>6 DEF Submitted, Rest
  <2>6. UNCHANGED <<durable, module_cache, sys_modules, loaded_modules, restricted, signer, torn>>
    BY <1>6 DEF Submitted, process
  <2>7. state' \in [Contracts -> Entry] /\ active' \in Seq(Frame)
    BY <1>6, <2>2, <2>3, <2>4 DEF Submitted
  <2>8. QED
    BY <2>5, <2>6, <2>7
<1>7. ASSUME Stored PROVE TypeOK'
  <2>1. /\ Top.name \in Contracts /\ Top.code \in Codes /\ Top.owner \in Owners
        /\ active' \in Seq(Frame)
    BY <1>7, TopIsAFrame, Popped DEF Stored
  <2>2. state' \in [Contracts -> Entry]
    BY <1>7, <2>1 DEF Stored, Entry
  <2>3. QED
    BY <1>7, <2>1, <2>2 DEF Stored, Rest, process
<1>8. ASSUME NEW c \in Contracts, NEW u \in Users, ChangeDeveloper(c, u) PROVE TypeOK'
  <2>1. state' \in [Contracts -> Entry]
    BY <1>8 DEF ChangeDeveloper, Entry
  <2>2. QED
    BY <1>8, <2>1 DEF ChangeDeveloper, process
<1>9. ASSUME Raise PROVE TypeOK'
  <2>1. sys_modules' \in CodeOf
    BY <1>9 DEF Raise, CodeOf
  <2>2. QED
    BY <1>0, <1>9, <2>1 DEF Raise
<1>10. ASSUME Return PROVE TypeOK'
  BY <1>10 DEF Return
<1>11. ASSUME NEW c \in Contracts, NEW key \in {"code", "compiled", "owner", "developer"},
              Writes(c, key)
       PROVE  TypeOK'
  <2>1. state[c] \in Entry /\ durable[c] \in Entry
    OBVIOUS
  <2>2. [durable[c] EXCEPT ![key] = state[c][key]] \in Entry
    BY <2>1 DEF Entry
  <2>3. durable' \in [Contracts -> Entry]
    BY <1>11, <2>2 DEF Writes
  <2>4. QED
    BY <1>11, <2>3 DEF Writes, process
<1>12. ASSUME NEW c \in Contracts,
              CommitCode(c) \/ CommitCompiled(c) \/ CommitOwner(c) \/ CommitDeveloper(c)
       PROVE  TypeOK'
  BY <1>11, <1>12 DEF CommitCode, CommitCompiled, CommitOwner, CommitDeveloper
<1>13. ASSUME Finish PROVE TypeOK'
  <2>1. sys_modules' \in CodeOf
    BY <1>13 DEF Finish, CodeOf
  <2>2. QED
    BY <1>13, <2>1 DEF Finish
<1>14. ASSUME Flush PROVE TypeOK'
  BY <1>0, <1>14 DEF Flush, process
<1>15. ASSUME Crash PROVE TypeOK'
  <2>1. torn' \in BOOLEAN
    BY <1>15 DEF Crash
  <2>2. QED
    BY <1>0, <1>15, <2>1 DEF Crash
<1>16. CASE UNCHANGED vars
  BY <1>16 DEF vars, process
<1>17. QED
  BY <1>1, <1>2, <1>3, <1>4, <1>5, <1>6, <1>7, <1>8, <1>9, <1>10, <1>12, <1>13, <1>14,
     <1>15, <1>16 DEF Next, ImportCalled, ImportStatement, ImportModule

-----------------------------------------------------------------------------
(* Modules.                                                                *)

LEMMA ModulesNext ==
    ASSUME TypeOK, Modules, [Next]_vars
    PROVE  Modules'
<1>0. active \in Seq(Frame) /\ loaded_modules \subseteq Contracts
  BY DEF TypeOK
<1>1. ASSUME UNCHANGED <<sys_modules, loaded_modules>>, phase' # "idle",
             \A c \in Contracts : Loading(c) => Loading(c)',
             active' # <<>> => phase' \in {"loading", "running"}
      PROVE  Modules'
  BY <1>1 DEF Modules
<1>2. ASSUME UNCHANGED <<sys_modules, loaded_modules, active>>, phase' # "idle",
             active # <<>> => phase' \in {"loading", "running"}
      PROVE  Modules'
  BY <1>1, <1>2 DEF Loading
<1>3. ASSUME NEW u \in Users, Begin(u) PROVE Modules'
  BY <1>2, <1>3 DEF Begin, process
<1>4. ASSUME Call PROVE Modules'
  BY <1>2, <1>4 DEF Call
<1>5. ASSUME NEW c \in Contracts, Import(c), phase \in {"loading", "running"} PROVE Modules'
  <2>1. PICK f \in Frame : active' = Append(active, f) /\ f.does = "load" /\ f.name = c
    BY <1>5, ImportPushes
  <2>2. Loading(c)' /\ \A d \in Contracts : Loading(d) => Loading(d)'
    BY <1>0, <2>1, Pushed DEF Loading
  <2>3. phase' = phase /\ loaded_modules' = loaded_modules
        /\ \A d \in Contracts : d # c => sys_modules'[d] = sys_modules[d]
    BY <1>5, ImportPushes
  <2>4. QED
    BY <1>5, <2>2, <2>3 DEF Modules
<1>6. ASSUME Loaded PROVE Modules'
  <2>1. /\ phase' = phase /\ phase \in {"loading", "running"} /\ sys_modules' = sys_modules
        /\ active # <<>> /\ Pop
        /\ loaded_modules' = loaded_modules \cup {Top.name}
    BY <1>6 DEF Loaded
  <2>2. \A d \in Contracts : Loading(d) => Loading(d)' \/ d = Top.name
    BY <1>0, <2>1, Popped DEF Loading, Top
  <2>3. QED
    BY <2>1, <2>2 DEF Modules
<1>7. ASSUME NEW c \in Contracts, NEW code \in Codes, NEW owner \in Owners,
             Submit(c, code, owner)
      PROVE Modules'
  <2>1. PICK f \in Frame : active' = Append(active, f)
    BY <1>7 DEF Submit, Push, Frame
  <2>2. \A d \in Contracts : Loading(d) => Loading(d)'
    BY <1>0, <2>1, Pushed DEF Loading
  <2>3. QED
    BY <1>1, <1>7, <2>2 DEF Submit, process
<1>8. ASSUME active # <<>>, Pop, Top.does # "load"
      PROVE  \A d \in Contracts : Loading(d) => Loading(d)'
  BY <1>0, <1>8, Popped DEF Loading, Top
<1>9. ASSUME active # <<>>, Pop, phase = "running", phase' = Rest
      PROVE  phase' # "idle" /\ (active' # <<>> => phase' = "running")
  <2>1. Len(active') = Len(active) - 1 /\ active' \in Seq(Frame) /\ Len(active) \in Nat \ {0}
    BY <1>0, <1>9, Popped
  <2>2. active' # <<>> => Len(active') # 0
    BY <2>1
  <2>3. QED
    BY <1>9, <2>1, <2>2 DEF Rest
<1>10. ASSUME Submitted PROVE Modules'
  <2>1. /\ phase = "running" /\ active # <<>> /\ Top.does = "submit"
        /\ UNCHANGED <<sys_modules, loaded_modules>>
    BY <1>10 DEF Submitted, process
  <2>2. CASE active' = [active EXCEPT ![Len(active)].does = "store"] /\ phase' = phase
    <3>1. Len(active') = Len(active) /\ Len(active) \in Nat
          /\ \A i \in 1..Len(active) : i # Len(active) => active'[i] = active[i]
      BY <1>0, <2>2
    <3>2. \A d \in Contracts : Loading(d) => Loading(d)'
      BY <2>1, <3>1 DEF Loading, Top
    <3>3. QED
      BY <1>1, <2>1, <2>2, <3>2
  <2>3. CASE Pop /\ phase' = Rest
    <3>1. \A d \in Contracts : Loading(d) => Loading(d)'
      BY <1>8, <2>1, <2>3
    <3>2. phase' # "idle" /\ (active' # <<>> => phase' = "running")
      BY <1>9, <2>1, <2>3
    <3>3. QED
      BY <1>1, <2>1, <3>1, <3>2
  <2>4. QED
    BY <1>10, <2>2, <2>3 DEF Submitted
<1>11. ASSUME Stored PROVE Modules'
  <2>1. /\ phase = "running" /\ active # <<>> /\ Top.does = "store" /\ Pop /\ phase' = Rest
        /\ UNCHANGED <<sys_modules, loaded_modules>>
    BY <1>11 DEF Stored, process
  <2>2. \A d \in Contracts : Loading(d) => Loading(d)'
    BY <1>8, <2>1
  <2>3. phase' # "idle" /\ (active' # <<>> => phase' = "running")
    BY <1>9, <2>1
  <2>4. QED
    BY <1>1, <2>1, <2>2, <2>3
<1>12. ASSUME NEW c, NEW u, ChangeDeveloper(c, u) PROVE Modules'
  BY <1>2, <1>12 DEF ChangeDeveloper, process
<1>13. ASSUME Raise PROVE Modules'
  <2>1. /\ phase' = "raised" /\ active' = <<>> /\ loaded_modules' = loaded_modules
        /\ \A c \in Contracts : sys_modules'[c] = IF Loading(c) THEN None ELSE sys_modules[c]
    BY <1>13 DEF Raise, Loading
  <2>2. QED
    BY <2>1 DEF Modules
<1>14. ASSUME Return PROVE Modules'
  BY <1>2, <1>14 DEF Return
<1>15. ASSUME NEW c, NEW key, Writes(c, key) PROVE Modules'
  BY <1>2, <1>15 DEF Writes, process, Modules
<1>16. ASSUME Finish PROVE Modules'
  <2>1. /\ active = <<>> /\ active' = <<>> /\ phase' = "idle"
        /\ loaded_modules' = {} /\ restricted' = FALSE
    BY <1>16 DEF Finish, Modules
  <2>2. \A c \in Contracts : sys_modules[c] # None => c \in loaded_modules
    BY <2>1, NoFrames DEF Modules, Loading
  <2>3. sys_modules' = Nothing
    BY <1>16, <2>2 DEF Finish, Nothing
  <2>4. QED
    BY <2>1, <2>3 DEF Modules, Nothing
<1>17. ASSUME Flush PROVE Modules'
  BY <1>17 DEF Flush, process, Modules, Loading
<1>18. ASSUME Crash PROVE Modules'
  BY <1>18 DEF Crash, Modules, Nothing
<1>19. CASE UNCHANGED vars
  BY <1>19 DEF vars, process, Modules, Loading
<1>20. QED
  BY <1>3, <1>4, <1>5, <1>6, <1>7, <1>10, <1>11, <1>12, <1>13, <1>14, <1>15, <1>16, <1>17, <1>18,
     <1>19 DEF Next, ImportCalled, ImportStatement, ImportModule, CommitCode, CommitCompiled,
     CommitOwner, CommitDeveloper
-----------------------------------------------------------------------------
(* Entries.                                                                *)

(* What a frame that is gone or another one does not change.               *)
LEMMA SameFrames ==
    ASSUME Entries, OneStores, UNCHANGED <<state, durable, torn>>, phase' = phase,
           \A c \in Contracts : Storing(c) => Storing(c)',
           \A i \in 1..Len(active') : active'[i].does # "store"
    PROVE  Entries' /\ OneStores'
<1>1. Entries'
  BY DEF Entries
<1>2. OneStores'
  BY DEF OneStores
<1>3. QED
  BY <1>1, <1>2

LEMMA PushKeepsEntries ==
    ASSUME TypeOK, Entries, OneStores, NEW f \in Frame, active' = Append(active, f),
           f.does # "store", active # <<>> => Top.does # "store",
           UNCHANGED <<state, durable, torn, phase>>
    PROVE  Entries' /\ OneStores'
<1>1. active \in Seq(Frame)
  BY DEF TypeOK
<1>2. \A i \in 1..Len(active) : active[i].does # "store"
  <2>1. \A i \in 1..Len(active) : active[i].does = "store" => active # <<>> /\ active[i] = Top
    BY <1>1 DEF OneStores, Top
  <2>2. QED
    BY <2>1
<1>3. \A i \in 1..Len(active') : active'[i].does # "store"
  <2>1. ASSUME NEW i \in 1..Len(active') PROVE active'[i].does # "store"
    <3>1. i = Len(active') \/ i \in 1..Len(active)
      BY <1>1, <2>1, Pushed
    <3>2. QED
      BY <1>1, <1>2, <3>1, Pushed
  <2>2. QED
    BY <2>1
<1>4. QED
  BY <1>2, <1>3, SameFrames DEF Storing

(* The innermost frame is taken away, and was not storing.                 *)
LEMMA PopKeepsStores ==
    ASSUME TypeOK, OneStores, active # <<>>, Pop
    PROVE  \A i \in 1..Len(active') : active'[i].does # "store"
<1>1. active \in Seq(Frame)
  BY DEF TypeOK
<1>2. ASSUME NEW i \in 1..Len(active') PROVE active'[i].does # "store"
  <2>1. i \in 1..Len(active) /\ active'[i] = active[i] /\ i # Len(active)
    BY <1>1, Popped
  <2>2. QED
    BY <2>1 DEF OneStores
<1>3. QED
  BY <1>2

(* A contract that is no longer storing has been stored.                   *)
LEMMA EntriesNext ==
    ASSUME TypeOK, Modules, Entries, OneStores, [Next]_vars
    PROVE  Entries' /\ OneStores'
<1>0. /\ active \in Seq(Frame)
      /\ \A c \in Contracts : state[c] \in Entry /\ durable[c] \in Entry
      /\ state \in [Contracts -> Entry] /\ durable \in [Contracts -> Entry]
  BY DEF TypeOK
<1>1. ASSUME active = <<>>, active' = <<>>, UNCHANGED <<state, durable, torn>>,
             phase \notin {"raised", "idle"},
             phase' \notin {"committing", "idle"}, phase # "committing"
      PROVE  Entries' /\ OneStores'
  BY <1>1, NoFrames DEF Entries, OneStores, Storing
<1>2. ASSUME NEW u \in Users, Begin(u) PROVE Entries' /\ OneStores'
  <2>1. /\ phase = "idle" /\ phase' = "loading"
        /\ UNCHANGED <<state, durable, active, torn>> /\ active = <<>>
    BY <1>2 DEF Begin, Modules
  <2>2. QED
    BY <2>1, NoFrames DEF Entries, OneStores, Storing
<1>3. ASSUME Call PROVE Entries' /\ OneStores'
  BY <1>1, <1>3 DEF Call
<1>4. ASSUME NEW c \in Contracts, Import(c), active # <<>> => Top.does # "store"
      PROVE  Entries' /\ OneStores'
  <2>1. PICK f \in Frame : active' = Append(active, f) /\ f.does = "load" /\ f.name = c
    BY <1>4, ImportPushes
  <2>2. UNCHANGED <<state, durable, torn, phase>>
    BY <1>4, ImportPushes
  <2>3. QED
    BY <1>4, <2>1, <2>2, PushKeepsEntries
<1>5. ASSUME Loaded PROVE Entries' /\ OneStores'
  <2>1. /\ active # <<>> /\ Pop /\ Top.does = "load"
        /\ UNCHANGED <<state, durable, torn, phase>>
    BY <1>5 DEF Loaded
  <2>2. \A i \in 1..Len(active') : active'[i].does # "store"
    BY <2>1, PopKeepsStores
  <2>3. \A c \in Contracts : Storing(c) => Storing(c)'
    BY <1>0, <2>1 DEF Storing, OneStores, Top
  <2>4. QED
    BY <2>1, <2>2, <2>3, SameFrames
<1>6. ASSUME NEW c \in Contracts, NEW code \in Codes, NEW owner \in Owners,
             Submit(c, code, owner)
      PROVE Entries' /\ OneStores'
  <2>1. PICK f \in Frame : active' = Append(active, f) /\ f.does = "submit"
    BY <1>6 DEF Submit, Push, Frame
  <2>2. (active # <<>> => Top.does # "store") /\ UNCHANGED <<state, durable, torn, phase>>
    BY <1>6 DEF Submit
  <2>3. QED
    BY <2>1, <2>2, PushKeepsEntries
<1>7. ASSUME Submitted PROVE Entries' /\ OneStores'
  <2>1. /\ phase = "running" /\ active # <<>> /\ Top.does = "submit"
        /\ UNCHANGED <<durable, torn>>
        /\ Top.name \in Contracts /\ Top.code \in Codes /\ Top.code # None
    BY <1>0, <1>7, TopIsAFrame, CodeIsNotNone DEF Submitted
  <2>2. \A i \in 1..Len(active) : active[i].does # "store"
    BY <1>0, <2>1 DEF OneStores, Top
  <2>3. CASE state[Top.name].code = None
    <3>1. /\ state' = [state EXCEPT ![Top.name].code = Top.code]
          /\ active' = [active EXCEPT ![Len(active)].does = "store"] /\ phase' = phase
      BY <1>7, <2>3 DEF Submitted
    <3>2. PICK n \in Contracts : n = Top.name
      BY <2>1
    <3>3. /\ Len(active') = Len(active) /\ Len(active) \in Nat \ {0}
          /\ \A i \in 1..Len(active) : i # Len(active) => active'[i] = active[i]
      BY <1>0, <2>1, <3>1
    <3>4. Len(active) \in 1..Len(active) /\ Len(active) \in DOMAIN active
      BY <1>0, <3>3
    <3>5. active'[Len(active)] = [Top EXCEPT !.does = "store"]
      BY <1>0, <3>1, <3>4 DEF Top
    <3>6. /\ active'[Len(active)].does = "store" /\ active'[Len(active)].name = n
          /\ active'[Len(active)].code = Top.code
      BY <1>0, <2>1, <3>2, <3>5, TopIsAFrame DEF Frame
    <3>7. /\ state'[n].code = Top.code /\ state'[n].compiled = None
          /\ state'[n].owner = None /\ state'[n].developer = None
          /\ \A c \in Contracts : c # n => state'[c] = state[c]
      <4>1. Ordered(state[n])
        BY DEF Entries
      <4>2. QED
        BY <1>0, <2>1, <2>3, <3>1, <3>2, <4>1 DEF Ordered, Entry
    <3>8. OneStores'
      <4>1. SUFFICES ASSUME NEW i \in 1..Len(active'), active'[i].does = "store"
                     PROVE  /\ i = Len(active')
                            /\ state'[active'[i].name].code = active'[i].code
                            /\ state'[active'[i].name].compiled = None
        BY DEF OneStores
      <4>2. i = Len(active)
        BY <2>2, <3>3, <4>1
      <4>3. QED
        BY <3>3, <3>6, <3>7, <4>2
    <3>9. Storing(n)'
      BY <3>3, <3>4, <3>6 DEF Storing
    <3>10. \A c \in Contracts : Begun(durable[c], state'[c])
      <4>1. durable[n].compiled = None /\ durable[n].developer = None /\ durable[n].code = None
        BY <2>3, <3>2 DEF Entries, Begun, Ordered
      <4>2. QED
        BY <3>7, <4>1 DEF Entries, Begun
    <3>11. ~torn => \A c \in Contracts : Complete(state'[c]) \/ Storing(c)'
      BY <2>1, <2>2, <3>7, <3>9 DEF Entries, Storing
    <3>12. \A c \in Contracts : Ordered(state'[c])
      BY <3>7 DEF Entries, Ordered
    <3>13. QED
      BY <2>1, <3>1, <3>8, <3>10, <3>11, <3>12 DEF Entries
  <2>4. CASE state[Top.name].code # None
    <3>1. state' = state /\ Pop /\ phase' \in {"running", "returning"}
      BY <1>7, <2>1, <2>4 DEF Submitted, Rest
    <3>2. \A i \in 1..Len(active') : active'[i].does # "store"
      BY <2>1, <3>1, PopKeepsStores
    <3>3. QED
      BY <2>1, <2>2, <3>1, <3>2 DEF Entries, OneStores, Storing
  <2>5. QED
    BY <2>3, <2>4
<1>8. ASSUME Stored PROVE Entries' /\ OneStores'
  <2>1. /\ phase = "running" /\ active # <<>> /\ Top.does = "store" /\ Pop
        /\ UNCHANGED <<durable, torn>> /\ phase' \in {"running", "returning"}
        /\ Top.name \in Contracts /\ Top.code \in Codes /\ Top.code # None
    BY <1>0, <1>8, TopIsAFrame, CodeIsNotNone DEF Stored, Rest
  <2>2. \A i \in 1..Len(active') : active'[i].does # "store"
    BY <2>1, PopKeepsStores
  <2>3. /\ state'[Top.name].code = state[Top.name].code
        /\ state'[Top.name].compiled = Top.code
        /\ state'[Top.name].developer # None
        /\ \A c \in Contracts : c # Top.name => state'[c] = state[c]
    <3>1. signer # None
      BY LoaderAssumption DEF TypeOK
    <3>2. QED
      BY <1>0, <1>8, <2>1, <3>1 DEF Stored, Entry
  <2>4. state[Top.name].code = Top.code /\ state[Top.name].compiled = None
    BY <1>0, <2>1, TopIsAFrame DEF OneStores
  <2>5. \A c \in Contracts : Storing(c) => c = Top.name
    BY <1>0 DEF Storing, OneStores, Top
  <2>6. \A c \in Contracts : Ordered(state'[c]) /\ Begun(durable[c], state'[c])
    <3>1. PICK n \in Contracts : n = Top.name
      BY <2>1
    <3>2. durable[n].compiled = None /\ durable[n].developer = None
      BY <2>1, <2>4, <3>1 DEF Entries, Begun, Ordered
    <3>3. Ordered(state'[n]) /\ Begun(durable[n], state'[n])
      BY <2>1, <2>3, <2>4, <3>1, <3>2 DEF Entries, Begun, Ordered
    <3>4. \A c \in Contracts : c # n => state'[c] = state[c]
      BY <2>3, <3>1
    <3>5. QED
      BY <3>3, <3>4 DEF Entries
  <2>7. ~torn => \A c \in Contracts : Complete(state'[c])
    BY <2>1, <2>3, <2>4, <2>5 DEF Entries, Complete, Whole
  <2>8. QED
    BY <2>1, <2>2, <2>6, <2>7 DEF Entries, OneStores
<1>9. ASSUME NEW c \in Contracts, NEW u \in Users, ChangeDeveloper(c, u) PROVE Entries' /\ OneStores'
  <2>1. /\ phase = "running" /\ active = <<>> /\ active' = active /\ phase' = "returning"
        /\ UNCHANGED <<durable, torn>> /\ signer # None
    BY <1>9, LoaderAssumption DEF ChangeDeveloper, TypeOK
  <2>2. /\ state'[c].code = state[c].code /\ state'[c].compiled = state[c].compiled
        /\ state'[c].owner = state[c].owner /\ state'[c].developer # None
        /\ \A d \in Contracts : d # c => state'[d] = state[d]
        /\ state[c].developer # None
    <3>1. u # None
      BY LoaderAssumption
    <3>2. QED
      BY <1>0, <1>9, <2>1, <3>1 DEF ChangeDeveloper, Entry
  <2>3. \A d \in Contracts : Ordered(state'[d]) /\ Begun(durable[d], state'[d])
    BY <2>2 DEF Entries, Ordered, Begun
  <2>4. ~torn => \A d \in Contracts : Complete(state'[d])
    BY <2>1, <2>2, NoFrames DEF Entries, Complete, Whole, Storing
  <2>5. QED
    BY <2>1, <2>2, <2>3, <2>4, NoFrames DEF Entries, OneStores
<1>10. ASSUME Raise PROVE Entries' /\ OneStores'
  <2>1. /\ phase # "committing" /\ phase' = "raised" /\ active' = <<>>
        /\ UNCHANGED <<state, durable, torn>>
    BY <1>10 DEF Raise
  <2>2. QED
    BY <2>1 DEF Entries, OneStores
<1>11. ASSUME Return PROVE Entries' /\ OneStores'
  <2>1. /\ phase \in {"running", "returning"} /\ active = <<>> /\ active' = active
        /\ phase' = "committing" /\ UNCHANGED <<state, durable, torn>>
    BY <1>11 DEF Return
  <2>2. QED
    BY <2>1, NoFrames DEF Entries, OneStores, Storing
<1>12. ASSUME NEW c \in Contracts, phase = "committing", UNCHANGED <<state, active, phase, torn>>,
              \A d \in Contracts : d # c => durable'[d] = durable[d],
              Ordered(durable'[c]), Begun(durable'[c], state[c])
       PROVE  Entries' /\ OneStores'
  BY <1>12 DEF Entries, OneStores, Storing
<1>13. ASSUME NEW c \in Contracts,
              CommitCode(c) \/ CommitCompiled(c) \/ CommitOwner(c) \/ CommitDeveloper(c)
       PROVE  Entries' /\ OneStores'
  <2>1. /\ phase = "committing" /\ UNCHANGED <<state, active, phase, torn>>
        /\ \A d \in Contracts : d # c => durable'[d] = durable[d]
    BY <1>0, <1>13 DEF CommitCode, CommitCompiled, CommitOwner, CommitDeveloper, Writes
  <2>2. PICK d \in Entry, s \in Entry, e \in Entry :
              d = durable[c] /\ s = state[c] /\ e = durable'[c]
    <3>1. durable'[c] \in Entry
      BY <1>13, TypeNext DEF Next, TypeOK
    <3>2. QED
      BY <1>0, <3>1
  <2>3. Ordered(d) /\ Ordered(s) /\ Begun(d, s)
    BY <2>2 DEF Entries
  <2>4. ASSUME CommitCode(c) PROVE Ordered(e) /\ Begun(e, s)
    <3>1. /\ d.code # s.code /\ e.code = s.code
          /\ e.compiled = d.compiled /\ e.owner = d.owner /\ e.developer = d.developer
      BY <1>0, <2>2, <2>4 DEF CommitCode, Writes, Entry
    <3>2. QED
      BY <2>3, <3>1 DEF Ordered, Begun
  <2>5. ASSUME CommitCompiled(c) PROVE Ordered(e) /\ Begun(e, s)
    <3>1. /\ d.code = s.code /\ d.compiled # s.compiled /\ e.compiled = s.compiled
          /\ e.code = d.code /\ e.owner = d.owner /\ e.developer = d.developer
      BY <1>0, <2>2, <2>5 DEF CommitCompiled, Writes, Written, Entry
    <3>2. QED
      BY <2>3, <3>1 DEF Ordered, Begun
  <2>6. ASSUME CommitOwner(c) PROVE Ordered(e) /\ Begun(e, s)
    <3>1. /\ d.code = s.code /\ d.compiled = s.compiled /\ d.owner # s.owner
          /\ e.owner = s.owner
          /\ e.code = d.code /\ e.compiled = d.compiled /\ e.developer = d.developer
      BY <1>0, <2>2, <2>6 DEF CommitOwner, Writes, Written, Entry
    <3>2. QED
      BY <2>3, <3>1 DEF Ordered, Begun
  <2>7. ASSUME CommitDeveloper(c) PROVE Ordered(e) /\ Begun(e, s)
    <3>1. /\ d.code = s.code /\ d.compiled = s.compiled /\ d.owner = s.owner
          /\ e.developer = s.developer
          /\ e.code = d.code /\ e.compiled = d.compiled /\ e.owner = d.owner
      BY <1>0, <2>2, <2>7 DEF CommitDeveloper, Writes, Written, Entry
    <3>2. QED
      BY <2>3, <3>1 DEF Ordered, Begun
  <2>8. QED
    BY <1>12, <1>13, <2>1, <2>2, <2>4, <2>5, <2>6, <2>7
<1>14. ASSUME Finish PROVE Entries' /\ OneStores'
  <2>1. /\ phase = "raised" \/ (phase = "committing" /\ durable = state)
        /\ state' = durable /\ UNCHANGED <<durable, torn, active>> /\ phase' = "idle"
        /\ active = <<>>
    BY <1>14 DEF Finish, Modules
  <2>2. ~torn => \A c \in Contracts : Complete(durable[c])
    BY <2>1, NoFrames DEF Entries, Storing
  <2>3. QED
    BY <2>1, <2>2, NoFrames DEF Entries, OneStores, Begun
<1>15. ASSUME Flush PROVE Entries' /\ OneStores'
  <2>1. /\ state' = Empty /\ durable' = Empty /\ phase' = "idle"
        /\ active = <<>> /\ active' = <<>>
    BY <1>15 DEF Flush, Modules
  <2>2. \A c \in Contracts : Ordered(Empty[c]) /\ Complete(Empty[c]) /\ Begun(Empty[c], Empty[c])
    BY DEF Empty, Absent, Ordered, Complete, Begun
  <2>3. QED
    BY <2>1, <2>2, NoFrames DEF Entries, OneStores
<1>16. ASSUME Crash PROVE Entries' /\ OneStores'
  <2>1. /\ state' = durable /\ durable' = durable /\ phase' = "idle" /\ active' = <<>>
        /\ torn' = (torn \/ (phase = "committing" /\ durable # state))
    BY <1>16 DEF Crash
  <2>2. ~torn' => \A c \in Contracts : Complete(durable[c])
    <3>1. CASE phase # "committing"
      BY <2>1, <3>1 DEF Entries
    <3>2. CASE phase = "committing"
      <4>1. active = <<>>
        BY <3>2 DEF Modules
      <4>2. QED
        BY <2>1, <3>2, <4>1, NoFrames DEF Entries, Storing
    <3>3. QED
      BY <3>1, <3>2
  <2>3. QED
    BY <2>1, <2>2, NoFrames DEF Entries, OneStores, Begun
<1>17. CASE UNCHANGED vars
  BY <1>17 DEF vars, Entries, OneStores, Storing
<1>18. ASSUME NEW c \in Contracts, ImportCalled(c) \/ ImportStatement(c) \/ ImportModule(c)
       PROVE  Entries' /\ OneStores'
  BY <1>4, <1>18 DEF ImportCalled, ImportStatement, ImportModule
<1>19. QED
  BY <1>2, <1>3, <1>5, <1>6, <1>7, <1>8, <1>9, <1>10, <1>11, <1>12, <1>13, <1>14, <1>15, <1>16,
     <1>17, <1>18 DEF Next

-----------------------------------------------------------------------------
LEMMA InvInit == Init => Inv
<1> SUFFICES ASSUME Init PROVE Inv
  OBVIOUS
<1>1. TypeOK
  BY TypeInit
<1>2. state = Empty /\ durable = Empty /\ active = <<>> /\ phase = "idle"
      /\ sys_modules = Nothing /\ loaded_modules = {} /\ restricted = FALSE
  BY DEF Init
<1>3. \A c \in Contracts : Ordered(Empty[c]) /\ Complete(Empty[c]) /\ Begun(Empty[c], Empty[c])
  BY DEF Empty, Absent, Ordered, Complete, Begun
<1>4. QED
  BY <1>1, <1>2, <1>3, NoFrames DEF Inv, Modules, Nothing, Entries, OneStores

LEMMA InvNext == Inv /\ [Next]_vars => Inv'
BY TypeNext, ModulesNext, EntriesNext DEF Inv

LEMMA InvAlways == Spec => []Inv
BY InvInit, InvNext, PTL DEF Spec

(* Whatever raised where, and wherever the process was ended, the next     *)
(* transaction finds no module of this one, nor the hook.                  *)
THEOREM NoModuleIsInherited == Spec => []LoaderInv
<1>1. Inv => LoaderInv
  BY DEF Inv, Modules, LoaderInv, NothingOutlives
<1>2. QED
  BY <1>1, InvAlways, PTL

(* Between transactions a contract is on disk with all its keys or not at  *)
(* all, unless a process ended in the middle of a commit; what that leaves *)
(* is the beginning of the keys: compiled code only with the code, a       *)
(* developer only with the owner and everything before it.                 *)
THEOREM ContractsAreWhole == Spec => []KeysComeInOrder
<1>1. ASSUME Inv, NEW c \in Contracts
      PROVE  /\ durable[c].compiled # None => durable[c].code = durable[c].compiled
             /\ durable[c].owner # None => durable[c].compiled # None
             /\ durable[c].developer # None =>
                  Whole(durable[c]) /\ durable[c].owner = state[c].owner
  BY <1>1 DEF Inv, Entries, Ordered, Begun, Whole
<1>2. ASSUME Inv, NEW c \in Contracts, phase = "idle", ~torn
      PROVE  durable[c] = Absent \/ Whole(durable[c])
  <2>1. durable[c] \in Entry /\ Ordered(durable[c]) /\ Complete(durable[c])
    BY <1>2 DEF Inv, TypeOK, Entries
  <2>2. CASE durable[c].code = None
    <3>1. /\ durable[c].compiled = None /\ durable[c].owner = None
          /\ durable[c].developer = None
      BY <2>1, <2>2 DEF Ordered
    <3>2. QED
      BY <2>1, <2>2, <3>1 DEF Entry, Absent
  <2>3. QED
    BY <2>1, <2>2 DEF Complete
<1>3. Inv => KeysComeInOrder
  BY <1>1, <1>2 DEF KeysComeInOrder
<1>4. QED
  BY <1>3, InvAlways, PTL

(* The code and the owner of a contract stay, and only its developer names *)
(* another.                                                                *)
THEOREM CodeNeverChanges == Spec => ContractsAreKept
<1> DEFINE KeptBy(c) ==
              \/ /\ state[c].code # None => state'[c].code = state[c].code
                 /\ state[c].compiled # None => state'[c].owner = state[c].owner
                 /\ state[c].developer \notin {None, signer} => state'[c].developer = state[c].developer
              \/ state'[c] = durable[c]
              \/ Flush
<1>1. Inv /\ [Next]_vars => [\A c \in Contracts : KeptBy(c)]_vars
  <2>1. SUFFICES ASSUME Inv, Next, NEW c \in Contracts PROVE KeptBy(c)
    OBVIOUS
  <2>2. active \in Seq(Frame) /\ state \in [Contracts -> Entry]
    BY <2>1 DEF Inv, TypeOK
  <2>3. ASSUME Submitted PROVE KeptBy(c)
    <3>1. CASE state' = state
      BY <3>1
    <3>2. CASE /\ state' = [state EXCEPT ![Top.name].code = Top.code]
               /\ state[Top.name].code = None
      BY <2>2, <3>2 DEF Entry
    <3>3. QED
      BY <2>3, <3>1, <3>2 DEF Submitted
  <2>4. ASSUME Stored PROVE KeptBy(c)
    <3>1. Top.name \in Contracts /\ state[Top.name].compiled = None
      BY <2>1, <2>2, <2>4, TopIsAFrame DEF Stored, Inv, OneStores
    <3>2. state[Top.name].developer = None
      BY <2>1, <3>1 DEF Inv, Entries, Ordered
    <3>3. QED
      BY <2>2, <2>4, <3>1, <3>2 DEF Stored, Entry
  <2>5. ASSUME NEW d \in Contracts, NEW u \in Users, ChangeDeveloper(d, u) PROVE KeptBy(c)
    BY <2>2, <2>5 DEF ChangeDeveloper, Entry
  <2>6. ASSUME state' = state PROVE KeptBy(c)
    BY <2>6
  <2>7. ASSUME Finish \/ Crash \/ Flush PROVE KeptBy(c)
    <3>1. CASE state' = durable
      BY <3>1
    <3>2. QED
      BY <2>7, <3>1 DEF Finish, Crash
  <2>8. QED
    BY <2>1, <2>3, <2>4, <2>5, <2>6, <2>7 DEF Next, Begin, Call, ImportCalled, ImportStatement,
       ImportModule, Import, Loaded, Submit, Raise, Return, CommitCode, CommitCompiled,
       CommitOwner, CommitDeveloper, Writes
<1>2. QED
  BY <1>1, InvAlways, PTL DEF Spec, ContractsAreKept
=============================================================================
