----------------------- MODULE MessageRoutesProofs -----------------------
(***************************************************************************)
(* Proofs about MessageRoutes, for any requests, tempGuids, chats and      *)
(* bounds: the send cache; how often Messages accepts a request, one that  *)
(* is reported done among them; how many rows of chat.db a request has,    *)
(* and that a send by AppleScript reports one newer than itself; and that  *)
(* its handlers use the helper as RequestReply allows.                     *)
(***************************************************************************)
EXTENDS MessageRoutes, WellFoundedInduction, FiniteSetTheorems, TLAPS

----------------------------------------------------------------------------
\* The inductive invariant, in parts.

Steps == Ended \cup {"idle", "passed", "guarded", "stopping", "ready", "calling",
                     "scripting", "finding"}

\* What the first results need of the types.
CoreType ==
    /\ req \in [Requests -> Load]
    /\ pc \in [Requests -> Steps]
    /\ cache \subseteq TempGuids
    /\ phase \in [Requests -> {"idle", "open", "answered", "failed", "abandoned"}]
    /\ ran \in [Requests -> {0, 1}]
    /\ tries \in [Requests -> 0 .. 2]
    /\ taken \in [Requests -> Nat]

\* A handler is at a step of its kind; only a send by AppleScript runs scripts, and
\* it never calls the helper.
KindInv ==
    \A r \in Requests :
        /\ pc[r] \in {"passed", "guarded", "stopping", "ready", "scripting"} =>
              req[r].kind = "text"
        /\ pc[r] = "passed" => req[r].temp # None
        /\ pc[r] = "scripting" => ByScript(r)
        /\ ByScript(r) => phase[r] = "idle"

\* Through the helper, what was accepted was executed.  By AppleScript, nothing was
\* accepted before the script, and only a retry that timed out is followed by more.
TakenInv ==
    \A r \in Requests :
        /\ ~ByScript(r) => taken[r] = ran[r]
        /\ ByScript(r) =>
              /\ pc[r] \in {"idle", "passed", "guarded", "stopping", "ready"} =>
                    taken[r] = 0 /\ tries[r] = 0
              /\ pc[r] = "scripting" /\ tries[r] < 2 => taken[r] = 0
              /\ pc[r] = "scripting" /\ tries[r] = 2 =>
                    taken[r] <= 1 /\ Canon[req[r].chat] \notin Groups
              /\ taken[r] <= IF Canon[req[r].chat] \in Groups THEN 1 ELSE 2

IInv == CoreType /\ KindInv /\ TakenInv /\ EntryHeld

----------------------------------------------------------------------------
\* Initially nothing is cached, called or accepted.

LEMMA InitHolds == Init => IInv
<1> SUFFICES ASSUME Init PROVE IInv
  OBVIOUS
<1>1. phase = [r \in Requests |-> "idle"] /\ ran = [r \in Requests |-> 0]
  BY DEF Init, Helper!Init
<1>2. CoreType
  BY <1>1, LoadsAssumption DEF Init, CoreType, Steps
<1>3. KindInv
  BY <1>1 DEF Init, KindInv
<1>4. TakenInv
  BY <1>1 DEF Init, TakenInv
<1>5. EntryHeld
  BY DEF Init, EntryHeld
<1> QED BY <1>2, <1>3, <1>4, <1>5 DEF IInv

----------------------------------------------------------------------------
\* The send cache: its entries keep their holders in every kind of step.

\* A request that ends, whatever the outcome: its tempGuid leaves the cache, and
\* the others keep their holders.
LEMMA EndFrees ==
  ASSUME NEW r \in Requests, NEW outcome \in Ended, NEW answer, req' = req,
         IInv, End(r, outcome, answer)
  PROVE  EntryHeld'
<1>1. cache' = Uncached(r) /\ pc' = [pc EXCEPT ![r] = outcome]
  BY DEF End, Goto
<1>2. CoreType /\ EntryHeld
  BY DEF IInv
<1>3. cache' \subseteq cache
  BY <1>1 DEF Uncached
<1> SUFFICES ASSUME NEW t \in cache'
             PROVE  \E q \in Holding' : req'[q].temp = t
  BY DEF EntryHeld
<1>4. PICK q \in Holding : req[q].temp = t
  BY <1>2, <1>3 DEF EntryHeld
<1>5. q # r
  BY <1>1, <1>4 DEF Uncached
<1>6. q \in Holding'
  BY <1>1, <1>2, <1>4, <1>5 DEF Holding, CoreType
<1> QED BY <1>4, <1>6

\* A handler that goes on, the cache as it was.
LEMMA StillHeld ==
  ASSUME NEW r \in Requests, NEW p, req' = req, cache' = cache,
         IInv, Goto(r, p), p \notin {"idle", "passed"} \cup Ended
  PROVE  EntryHeld'
<1>1. CoreType /\ EntryHeld
  BY DEF IInv
<1>2. Holding \subseteq Holding'
  BY <1>1 DEF Goto, Holding, CoreType
<1> QED BY <1>1, <1>2 DEF EntryHeld

\* A step that moves no handler.
LEMMA SameHeld ==
  ASSUME IInv, req' = req, cache' = cache, pc' = pc
  PROVE  EntryHeld'
BY DEF IInv, EntryHeld, Holding

----------------------------------------------------------------------------
\* The other parts in the step of an ending handler.

LEMMA EndKeeps ==
  ASSUME NEW r \in Requests, NEW outcome \in Ended, NEW answer, req' = req,
         IInv, End(r, outcome, answer),
         phase' \in [Requests -> {"idle", "open", "answered", "failed", "abandoned"}],
         \A q \in Requests : phase[q] = "idle" => phase'[q] = "idle",
         ran' = ran,
         \/ taken' = taken
         \/ pc[r] = "scripting" /\ taken' = [taken EXCEPT ![r] = @ + 1]
  PROVE  IInv'
<1>1. /\ pc' = [pc EXCEPT ![r] = outcome] /\ tries' = tries /\ cache' \subseteq cache
  BY DEF End, Goto, Uncached
<1>2. CoreType /\ KindInv /\ TakenInv
  BY DEF IInv
<1>3. CoreType'
  BY <1>1, <1>2 DEF CoreType, Steps
<1>4. outcome \notin {"idle", "passed", "guarded", "stopping", "ready", "scripting"}
  BY DEF Ended
<1>5. KindInv'
  BY <1>1, <1>2, <1>4 DEF KindInv, CoreType, ByScript
<1>6. TakenInv'
  <2> SUFFICES ASSUME NEW q \in Requests
               PROVE  /\ ~ByScript(q) => taken'[q] = ran[q]
                      /\ ByScript(q) =>
                            /\ pc'[q] \in {"idle", "passed", "guarded", "stopping", "ready"} =>
                                  taken'[q] = 0 /\ tries[q] = 0
                            /\ pc'[q] = "scripting" /\ tries[q] < 2 => taken'[q] = 0
                            /\ pc'[q] = "scripting" /\ tries[q] = 2 =>
                                  taken'[q] <= 1 /\ Canon[req[q].chat] \notin Groups
                            /\ taken'[q] <= IF Canon[req[q].chat] \in Groups THEN 1 ELSE 2
    BY <1>1 DEF TakenInv, ByScript
  <2>1. CASE q # r
    BY <1>1, <1>2, <2>1 DEF TakenInv, CoreType
  <2>2. CASE q = r /\ taken' = taken
    BY <1>1, <1>2, <1>4, <2>2 DEF TakenInv, CoreType
  <2>3. CASE q = r /\ pc[r] = "scripting" /\ taken' = [taken EXCEPT ![r] = @ + 1]
    <3>1. ByScript(r) /\ tries[r] \in 0 .. 2 /\ taken[r] \in Nat
      BY <1>2, <2>3 DEF KindInv, CoreType
    <3>2. taken'[r] = taken[r] + 1 /\ pc'[r] = outcome
      BY <1>1, <1>2, <2>3 DEF CoreType
    <3>3. CASE tries[r] < 2
      <4>1. taken[r] = 0
        BY <1>2, <2>3, <3>1, <3>3 DEF TakenInv
      <4> QED BY <1>4, <2>3, <3>1, <3>2, <4>1
    <3>4. CASE tries[r] = 2
      <4>1. taken[r] <= 1 /\ Canon[req[r].chat] \notin Groups
        BY <1>2, <2>3, <3>1, <3>4 DEF TakenInv
      <4> QED BY <1>4, <2>3, <3>1, <3>2, <4>1
    <3> QED BY <3>1, <3>3, <3>4
  <2> QED BY <2>1, <2>2, <2>3
<1>7. EntryHeld'
  BY EndFrees
<1> QED BY <1>3, <1>5, <1>6, <1>7 DEF IInv

\* A handler that goes on to p: its kind allows p, a script runs straight after the
\* last row was noted, and nothing is accepted.
LEMMA GoKeeps ==
  ASSUME NEW r \in Requests, NEW p \in {"guarded", "stopping", "ready", "calling",
                                        "scripting", "finding"},
         req' = req, cache' = cache, tries' = tries, ran' = ran, taken' = taken,
         IInv, Goto(r, p),
         p \in {"guarded", "stopping", "ready"} =>
            req[r].kind = "text" /\ pc[r] \in {"idle", "guarded", "stopping"},
         p = "scripting" => ByScript(r) /\ pc[r] = "ready",
         phase' \in [Requests -> {"idle", "open", "answered", "failed", "abandoned"}],
         \A q \in Requests : ByScript(q) /\ phase[q] = "idle" => phase'[q] = "idle"
  PROVE  IInv'
<1>1. pc' = [pc EXCEPT ![r] = p]
  BY DEF Goto
<1>2. CoreType /\ KindInv /\ TakenInv
  BY DEF IInv
<1>3. CoreType'
  BY <1>1, <1>2 DEF CoreType, Steps
<1>4. KindInv'
  BY <1>1, <1>2 DEF KindInv, CoreType, ByScript
<1>5. TakenInv'
  BY <1>1, <1>2 DEF TakenInv, CoreType, ByScript
<1>6. EntryHeld'
  BY StillHeld DEF Ended
<1> QED BY <1>3, <1>4, <1>5, <1>6 DEF IInv

\* A step that changes nothing the invariant speaks of.
LEMMA SameKeeps ==
  ASSUME IInv, UNCHANGED <<req, pc, cache, phase, ran, tries, taken>>
  PROVE  IInv'
<1>1. EntryHeld'
  BY SameHeld
<1> QED BY <1>1 DEF IInv, CoreType, KindInv, TakenInv, ByScript

----------------------------------------------------------------------------
\* The steps that need an argument of their own.

LEMMA CheckKeeps ==
  ASSUME NEW r \in Requests, IInv, Check(r)
  PROVE  IInv'
<1>1. /\ pc[r] = "idle" /\ req[r].kind = "text"
      /\ UNCHANGED <<req, cache, phase, ran, tries, taken>>
  BY DEF Check, world, call
<1>2. PICK p \in {"guarded", "refused", "passed"} :
         pc' = [pc EXCEPT ![r] = p] /\ (p = "passed" => req[r].temp # None)
  BY DEF Check, Goto
<1>3. CoreType /\ KindInv /\ TakenInv /\ EntryHeld
  BY DEF IInv
<1>4. CoreType'
  BY <1>1, <1>2, <1>3 DEF CoreType, Steps, Ended
<1>5. KindInv'
  BY <1>1, <1>2, <1>3 DEF KindInv, CoreType, ByScript
<1>6. TakenInv'
  BY <1>1, <1>2, <1>3 DEF TakenInv, CoreType, ByScript
<1>7. EntryHeld'
  <2>1. Holding \subseteq Holding'
    BY <1>1, <1>2, <1>3 DEF Holding, CoreType
  <2> QED BY <1>1, <1>3, <2>1 DEF EntryHeld
<1> QED BY <1>4, <1>5, <1>6, <1>7 DEF IInv

\* The tempGuid cached is held by the handler itself.
LEMMA CacheSendKeeps ==
  ASSUME NEW r \in Requests, IInv, CacheSend(r)
  PROVE  IInv'
<1>1. /\ pc[r] = "passed" /\ cache' = cache \cup {req[r].temp}
      /\ pc' = [pc EXCEPT ![r] = "guarded"]
      /\ UNCHANGED <<req, phase, ran, tries, taken>>
  BY DEF CacheSend, Goto, world, call
<1>2. CoreType /\ KindInv /\ TakenInv /\ EntryHeld
  BY DEF IInv
<1>3. CoreType'
  BY <1>1, <1>2 DEF CoreType, KindInv, Steps, Ended, Load
<1>4. KindInv'
  BY <1>1, <1>2 DEF KindInv, CoreType, ByScript
<1>5. TakenInv'
  BY <1>1, <1>2 DEF TakenInv, CoreType, ByScript
<1>6. EntryHeld'
  <2>1. Holding \subseteq Holding'
    BY <1>1, <1>2 DEF Holding, CoreType, Ended
  <2>2. r \in Holding'
    BY <1>1, <1>2, NoneAssumption DEF Holding, CoreType, KindInv, Ended
  <2> QED BY <1>1, <1>2, <2>1, <2>2 DEF EntryHeld
<1> QED BY <1>3, <1>4, <1>5, <1>6 DEF IInv

LEMMA ExecuteKeeps ==
  ASSUME NEW r \in Requests, IInv, Execute(r)
  PROVE  IInv'
<1>1. /\ phase[r] # "idle" /\ ran[r] = 0 /\ ran' = [ran EXCEPT ![r] = 1]
      /\ taken' = [taken EXCEPT ![r] = @ + 1]
      /\ UNCHANGED <<req, pc, cache, phase, tries>>
  BY DEF Execute, Helper!Execute, handler
<1>2. CoreType /\ KindInv /\ TakenInv
  BY DEF IInv
<1>3. ~ByScript(r)
  BY <1>1, <1>2 DEF KindInv
<1>4. CoreType'
  BY <1>1, <1>2 DEF CoreType
<1>5. KindInv'
  BY <1>1, <1>2 DEF KindInv, ByScript
<1>6. TakenInv'
  BY <1>1, <1>2, <1>3 DEF TakenInv, CoreType, ByScript
<1>7. EntryHeld'
  BY <1>1, SameHeld
<1> QED BY <1>4, <1>5, <1>6, <1>7 DEF IInv

\* A script that succeeds.
LEMMA ScriptRanKeeps ==
  ASSUME NEW r \in Requests, IInv, ScriptRan(r)
  PROVE  IInv'
<1>1. /\ pc[r] = "scripting" /\ Goto(r, "finding") /\ pc' = [pc EXCEPT ![r] = "finding"]
      /\ taken' = [taken EXCEPT ![r] = @ + 1]
      /\ UNCHANGED <<req, cache, phase, ran, tries>>
  BY DEF ScriptRan, Accept, Goto, call
<1>2. CoreType /\ KindInv /\ TakenInv
  BY DEF IInv
<1>3. ByScript(r)
  BY <1>1, <1>2 DEF KindInv
<1>4. CoreType'
  BY <1>1, <1>2 DEF CoreType, Steps
<1>5. KindInv'
  BY <1>1, <1>2 DEF KindInv, CoreType, ByScript
<1>6. TakenInv'
  BY <1>1, <1>2, <1>3 DEF TakenInv, CoreType, ByScript
<1>7. EntryHeld'
  BY <1>1, StillHeld DEF Ended
<1> QED BY <1>4, <1>5, <1>6, <1>7 DEF IInv

\* The next attempt: what it follows was not accepted, unless it was the retry of a
\* send to one person.
LEMMA RetryKeeps ==
  ASSUME NEW r \in Requests, IInv, pc[r] = "scripting", req' = req, pc' = pc,
         cache' = cache, phase' = phase, ran' = ran, Left(r),
         tries' = [tries EXCEPT ![r] = @ + 1],
         \/ taken' = taken
         \/ tries[r] # 0 /\ taken' = [taken EXCEPT ![r] = @ + 1]
  PROVE  IInv'
<1>1. CoreType /\ KindInv /\ TakenInv
  BY DEF IInv
<1>2. tries[r] \in {0, 1} /\ ByScript(r) /\ taken[r] = 0
  BY <1>1 DEF Left, CoreType, KindInv, TakenInv
<1>3. tries[r] = 1 => Canon[req[r].chat] \notin Groups
  BY DEF Left
<1>4. CoreType'
  BY <1>1, <1>2 DEF CoreType
<1>5. KindInv'
  BY <1>1 DEF KindInv, ByScript
<1>6. TakenInv'
  BY <1>1, <1>2, <1>3 DEF TakenInv, CoreType, ByScript
<1>7. EntryHeld'
  BY SameHeld
<1> QED BY <1>4, <1>5, <1>6, <1>7 DEF IInv

\* An attempt cut short was accepted once or not at all.
LEMMA AcceptOne ==
  ASSUME NEW r \in Requests, NEW n \in {0, 1}, CoreType, Accept(r, n)
  PROVE  taken' = taken \/ taken' = [taken EXCEPT ![r] = @ + 1]
<1>1. taken \in [Requests -> Nat] /\ taken' = [taken EXCEPT ![r] = @ + n]
  BY DEF CoreType, Accept
<1>2. CASE n = 0
  <2>1. taken[r] + n = taken[r]
    BY <1>1, <1>2
  <2>2. taken' = [taken EXCEPT ![r] = taken[r]]
    BY <1>1, <2>1
  <2> QED BY <1>1, <2>2
<1>3. CASE n = 1
  BY <1>1, <1>3
<1> QED BY <1>2, <1>3

LEMMA ScriptFailedKeeps ==
  ASSUME NEW r \in Requests, IInv, ScriptError(r) \/ ScriptTimeout(r)
  PROVE  IInv'
<1>1. pc[r] = "scripting" /\ UNCHANGED <<req, phase, ran>>
  BY DEF ScriptError, ScriptTimeout, call
<1>2. CoreType
  BY DEF IInv
<1>3. \/ taken' = taken
      \/ taken' = [taken EXCEPT ![r] = @ + 1]
  <2>1. CASE ScriptError(r)
    BY <2>1 DEF ScriptError, world
  <2>2. CASE ScriptTimeout(r)
    BY <1>2, <2>2, AcceptOne DEF ScriptTimeout
  <2> QED BY <2>1, <2>2
<1>4. CASE Fail(r)
  BY <1>1, <1>2, <1>3, <1>4, EndKeeps DEF Fail, CoreType, Ended
<1>5. CASE ~Fail(r)
  <2>1. /\ Left(r) /\ tries' = [tries EXCEPT ![r] = @ + 1] /\ pc' = pc /\ cache' = cache
    BY <1>5 DEF ScriptError, ScriptTimeout, Again
  <2>2. taken' = taken \/ tries[r] # 0
    BY <1>5 DEF ScriptError, ScriptTimeout, world
  <2> QED BY <1>1, <1>3, <2>1, <2>2, RetryKeeps
<1> QED BY <1>4, <1>5

----------------------------------------------------------------------------
\* Every step keeps the invariant.

\* A handler that goes on at most changes its helper call, which a send by
\* AppleScript does not make.
LEMMA WalkKeeps ==
  ASSUME NEW r \in Requests, IInv,
         \/ AutoStop(r) \/ Stopped(r) \/ AskSend(r) \/ AskReaction(r)
         \/ AskEdit(r) \/ AskMember(r) \/ Answered(r) \/ Note(r)
  PROVE  IInv'
<1>1. CoreType /\ KindInv
  BY DEF IInv
<1>2. req' = req /\ cache' = cache /\ tries' = tries /\ taken' = taken /\ ran' = ran
  BY DEF AutoStop, Stopped, AskSend, AskReaction, AskEdit, AskMember, Ask, Answered, Note,
         Helper!Open, Helper!Answer, Helper!Move, world, call
<1>3. CASE AutoStop(r)
  <2>1. pc[r] = "guarded" /\ phase' = phase
    BY <1>3 DEF AutoStop, call
  <2>2. PICK p \in {"stopping", "ready"} : Goto(r, p)
    BY <1>3 DEF AutoStop
  <2> QED BY <1>1, <1>2, <2>1, <2>2, GoKeeps DEF CoreType, KindInv
<1>4. CASE Stopped(r)
  BY <1>1, <1>2, <1>4, GoKeeps DEF Stopped, call, CoreType, KindInv
<1>5. CASE AskSend(r) \/ AskReaction(r) \/ AskEdit(r) \/ AskMember(r)
  <2>1. ~ByScript(r)
    BY <1>5 DEF AskSend, AskReaction, AskEdit, AskMember, ByScript
  <2>2. Goto(r, "calling") /\ phase' = [phase EXCEPT ![r] = "open"]
    BY <1>5 DEF AskSend, AskReaction, AskEdit, AskMember, Ask, Helper!Open, Helper!Move
  <2>3. /\ phase' \in [Requests -> {"idle", "open", "answered", "failed", "abandoned"}]
        /\ \A q \in Requests : ByScript(q) /\ phase[q] = "idle" => phase'[q] = "idle"
    BY <1>1, <2>1, <2>2 DEF CoreType
  <2> QED BY <1>2, <2>2, <2>3, GoKeeps
<1>6. CASE Answered(r)
  <2>1. /\ Goto(r, "finding") /\ phase[r] = "open"
        /\ phase' = [phase EXCEPT ![r] = "answered"]
    BY <1>6 DEF Answered, Helper!Answer, Helper!Move
  <2>2. /\ phase' \in [Requests -> {"idle", "open", "answered", "failed", "abandoned"}]
        /\ \A q \in Requests : ByScript(q) /\ phase[q] = "idle" => phase'[q] = "idle"
    BY <1>1, <2>1 DEF CoreType
  <2> QED BY <1>2, <2>1, <2>2, GoKeeps
<1>7. CASE Note(r)
  <2>1. Goto(r, "scripting") /\ pc[r] = "ready" /\ ByScript(r) /\ phase' = phase
    BY <1>1, <1>7 DEF Note, call, KindInv, ByScript
  <2> QED BY <1>1, <1>2, <2>1, GoKeeps DEF CoreType
<1> QED BY <1>3, <1>4, <1>5, <1>6, <1>7

\* Every way a handler ends.
LEMMA FinishKeeps ==
  ASSUME NEW r \in Requests, IInv,
         \/ Reject(r) \/ CallFailed(r) \/ FindMessage(r) \/ SeeChange(r) \/ GiveUp(r)
         \/ Cancel(r)
  PROVE  IInv'
<1>1. CoreType
  BY DEF IInv
<1>2. PICK outcome, answer : outcome \in Ended /\ End(r, outcome, answer)
  BY DEF Reject, CallFailed, FindMessage, SeeChange, GiveUp, Cancel, Fail, Ended
<1>3. req' = req
  BY DEF Reject, CallFailed, FindMessage, SeeChange, GiveUp, Cancel
<1>4. \/ taken' = taken
      \/ pc[r] = "scripting" /\ taken' = [taken EXCEPT ![r] = @ + 1]
  <2>1. CASE ~Cancel(r)
    BY <2>1 DEF Reject, CallFailed, FindMessage, SeeChange, GiveUp, world
  <2>2. CASE Cancel(r)
    BY <1>1, <2>2, AcceptOne DEF Cancel, world
  <2> QED BY <2>1, <2>2
<1>5. /\ ran' = ran
      /\ \/ phase' = phase
         \/ \E p \in {"answered", "failed", "abandoned"} :
               phase[r] = "open" /\ phase' = [phase EXCEPT ![r] = p]
  <2>1. CASE CallFailed(r)
    BY <2>1 DEF CallFailed, Helper!Fail, Helper!Answer, Helper!Move
  <2>2. CASE Cancel(r)
    BY <2>2 DEF Cancel, Helper!Abandon, Helper!Move, call
  <2>3. CASE ~CallFailed(r) /\ ~Cancel(r)
    BY <2>3 DEF Reject, FindMessage, SeeChange, GiveUp, call
  <2> QED BY <2>1, <2>2, <2>3
<1>6. /\ phase' \in [Requests -> {"idle", "open", "answered", "failed", "abandoned"}]
      /\ \A q \in Requests : phase[q] = "idle" => phase'[q] = "idle"
  BY <1>1, <1>5 DEF CoreType
<1> QED BY <1>2, <1>3, <1>4, <1>5, <1>6, EndKeeps

\* The steps of the app, of the typing routes and of the other devices.
LEMMA ElseKeeps ==
  ASSUME IInv,
         \/ \E r \in Requests : Land(r)
         \/ \E g \in Guids : StartTyping(g) \/ StopTyping(g)
         \/ Elsewhere
         \/ UNCHANGED vars
  PROVE  IInv'
<1>1. UNCHANGED <<req, pc, cache, phase, ran, tries, taken>>
  BY DEF Land, StartTyping, StopTyping, Elsewhere, vars, handler, world, call
<1> QED BY <1>1, SameKeeps

LEMMA StepKeeps == IInv /\ [Next]_vars => IInv'
<1> SUFFICES ASSUME IInv, [Next]_vars PROVE IInv'
  OBVIOUS
<1>1. ASSUME NEW r \in Requests,
             \/ Check(r) \/ CacheSend(r) \/ Execute(r)
             \/ ScriptRan(r) \/ ScriptError(r) \/ ScriptTimeout(r)
      PROVE  IInv'
  <2>1. CASE CacheSend(r)
    BY <2>1, CacheSendKeeps
  <2> QED BY <1>1, <2>1, CheckKeeps, ExecuteKeeps, ScriptRanKeeps, ScriptFailedKeeps
<1>2. ASSUME NEW r \in Requests,
             \/ AutoStop(r) \/ Stopped(r) \/ AskSend(r) \/ AskReaction(r)
             \/ AskEdit(r) \/ AskMember(r) \/ Answered(r) \/ Note(r)
      PROVE  IInv'
  BY <1>2, WalkKeeps
<1>3. ASSUME NEW r \in Requests,
             \/ Reject(r) \/ CallFailed(r) \/ FindMessage(r) \/ SeeChange(r) \/ GiveUp(r)
             \/ Cancel(r)
      PROVE  IInv'
  BY <1>3, FinishKeeps
<1> QED BY <1>1, <1>2, <1>3, ElseKeeps DEF Next, Handler

THEOREM Invariance == Spec => []IInv
<1> QED BY InitHolds, StepKeeps, PTL DEF Spec

----------------------------------------------------------------------------
\* The results.

\* The send cache holds nothing whose send is over: however handlers interleave, are
\* refused, fail or are cancelled, their guard has freed their tempGuid (SendCacheGuard).
THEOREM CacheHeld == Spec => []EntryHeld
<1>1. IInv => EntryHeld
  BY DEF IInv
<1> QED BY <1>1, Invariance, PTL

\* Only the check of the send cache refuses.
LEMMA OnlyCheckRefuses ==
  ASSUME NEW r \in Requests, CoreType, Next, pc[r] = "idle", pc'[r] = "refused"
  PROVE  Check(r)
<1>1. pc' # pc /\ pc \in [Requests -> Steps]
  BY DEF CoreType
<1>2. PICK q \in Requests :
         \/ Check(q) \/ AskReaction(q) \/ AskEdit(q) \/ AskMember(q)
         \/ (pc[q] = "idle" /\ Reject(q)) \/ Handler(q) \/ Cancel(q)
  BY <1>1 DEF Next, Execute, Land, StartTyping, StopTyping, Elsewhere, handler
<1>3. \E p : pc' = [pc EXCEPT ![q] = p] \/ pc' = pc
  BY <1>2 DEF Check, AskReaction, AskEdit, AskMember, Ask, Reject, Handler, Cancel,
       CacheSend, AutoStop, Stopped, AskSend, Note, Answered, CallFailed, ScriptRan,
       ScriptError, ScriptTimeout, Again, FindMessage, SeeChange, GiveUp, Fail, End, Goto
<1>4. q = r
  BY <1>1, <1>3
<1>5. ~Handler(q)
  BY <1>4 DEF Handler, CacheSend, AutoStop, Stopped, AskSend, Note, Reject, Answered,
       CallFailed, ScriptRan, ScriptError, ScriptTimeout, FindMessage, SeeChange, GiveUp
<1>6. ~Cancel(q)
  BY <1>4 DEF Cancel
<1>7. ~AskReaction(q) /\ ~AskEdit(q) /\ ~AskMember(q) /\ ~Reject(q)
  BY <1>1, <1>4 DEF AskReaction, AskEdit, AskMember, Ask, Reject, Fail, End, Goto
<1> QED BY <1>2, <1>4, <1>5, <1>6, <1>7

\* A send is refused only while another with its tempGuid is under way (check_send_cache).
THEOREM RefusalJust == Spec => RefusedRightly
<1>1. IInv /\ [Next]_vars =>
         [\A r \in Requests : pc[r] = "idle" /\ pc'[r] = "refused" =>
             \E q \in Holding \ {r} : req[q].temp = req[r].temp]_vars
  <2> SUFFICES ASSUME IInv, Next, NEW r \in Requests,
                      pc[r] = "idle", pc'[r] = "refused"
               PROVE  \E q \in Holding \ {r} : req[q].temp = req[r].temp
    BY DEF vars
  <2>1. CoreType /\ EntryHeld
    BY DEF IInv
  <2>2. req[r].temp \in cache
    <3>1. Check(r)
      BY <2>1, OnlyCheckRefuses
    <3> QED BY <2>1, <3>1 DEF Check, Goto, CoreType
  <2>3. r \notin Holding
    BY DEF Holding
  <2> QED BY <2>1, <2>2, <2>3 DEF EntryHeld
<1> QED BY <1>1, Invariance, PTL DEF Spec, RefusedRightly

\* Messages accepts a request at most once, or twice for a send to one person by
\* AppleScript, through every retry, timeout and cancellation (actions.rs, send_message).
THEOREM AcceptedOnce == Spec => []SentOnce
<1>1. IInv => SentOnce
  <2> SUFFICES ASSUME IInv, NEW r \in Requests
               PROVE  taken[r] <= IF ByScript(r) /\ Canon[req[r].chat] \notin Groups THEN 2 ELSE 1
    BY DEF SentOnce
  <2>1. CASE ByScript(r)
    BY <2>1 DEF IInv, TakenInv
  <2>2. CASE ~ByScript(r)
    BY <2>2 DEF IInv, TakenInv, CoreType
  <2> QED BY <2>1, <2>2
<1> QED BY <1>1, Invariance, PTL

----------------------------------------------------------------------------
\* The newest of some messages: the order by date and rowid is total on them.

LEMMA Least == ASSUME NEW S \in SUBSET Nat, S # {} PROVE \E m \in S : \A k \in S : m <= k
<1>1. PICK m \in S : \A k \in S : ~ <<k, m>> \in OpToRel(<, Nat)
  BY NatLessThanWellFounded, WFMin, Zenon
<1>2. ASSUME NEW k \in S PROVE m <= k
  <2>1. ~ (<<k, m>> \in Nat \X Nat /\ k < m)
    BY <1>1, Zenon DEF OpToRel
  <2> QED BY <2>1
<1> QED BY <1>2

LEMMA Greatest ==
  ASSUME NEW n \in Nat, NEW S \in SUBSET (0 .. n), S # {}
  PROVE  \E m \in S : \A k \in S : k <= m
<1> DEFINE T == {n - k : k \in S}
<1>1. T \in SUBSET Nat
  OBVIOUS
<1>2. T # {}
  OBVIOUS
<1>3. PICK t \in T : \A u \in T : t <= u
  BY <1>1, <1>2, Least
<1>4. PICK m \in S : t = n - m
  BY <1>3
<1>5. ASSUME NEW k \in S PROVE k <= m
  <2>1. n - k \in T
    OBVIOUS
  <2> HIDE DEF T
  <2>2. n - m <= n - k
    BY <1>3, <1>4, <2>1
  <2> QED BY <2>2
<1> QED BY <1>5

\* The date of a message is the place at which it came, unless it is older.
DateInv ==
    \A i \in 1 .. Len(rows) : rows[i].date \in 0 .. i /\ (~Backdated => rows[i].date = i)

LEMMA NewestIn ==
  ASSUME rows \in Seq(Row), DateInv, NEW S \in SUBSET (1 .. Len(rows)), S # {}
  PROVE  Newest(S) \in S /\ \A j \in S \ {Newest(S)} : Newer(Newest(S), j)
<1> DEFINE dates == {rows[i].date : i \in S}
<1>1. Len(rows) \in Nat /\ \A i \in S : rows[i].date \in 0 .. Len(rows)
  BY DEF DateInv
<1>2. dates \in SUBSET (0 .. Len(rows)) /\ dates # {}
  BY <1>1
<1> HIDE DEF dates
<1>3. PICK d \in dates : \A e \in dates : e <= d
  BY <1>1, <1>2, Greatest
<1> DEFINE last == {i \in S : rows[i].date = d}
<1>4. S \in SUBSET (0 .. Len(rows))
  BY <1>1
<1>5. last \in SUBSET (0 .. Len(rows)) /\ last # {}
  BY <1>3, <1>4 DEF dates
<1> HIDE DEF last
<1>6. PICK m \in last : \A k \in last : k <= m
  BY <1>1, <1>5, Greatest
<1>7. m \in S /\ rows[m].date = d
  BY <1>6 DEF last
<1>8. ASSUME NEW j \in S \ {m} PROVE Newer(m, j)
  <2>1. rows[j].date \in dates /\ rows[j].date \in 0 .. Len(rows) /\ d \in 0 .. Len(rows)
    BY <1>1, <1>2, <1>3 DEF dates
  <2>2. CASE rows[j].date = d
    <3>1. j \in last
      BY <2>2 DEF last
    <3>2. j <= m /\ j # m /\ j \in 0 .. Len(rows) /\ m \in 0 .. Len(rows)
      BY <1>4, <1>6, <1>7, <3>1
    <3> QED BY <1>1, <1>7, <2>2, <3>2 DEF Newer
  <2>3. CASE rows[j].date # d
    <3>1. rows[j].date < d
      BY <1>1, <1>3, <2>1, <2>3
    <3> QED BY <1>7, <3>1 DEF Newer
  <2> QED BY <2>2, <2>3
<1> QED BY <1>7, <1>8 DEF Newest

----------------------------------------------------------------------------
\* The inductive invariant of the messages.

\* The types that CoreType leaves out.
RestType ==
    /\ req \in Loads
    /\ typing \subseteq Chats
    /\ rows \in Seq(Row)
    /\ before \in [Requests -> Nat]
    /\ fields \in [Fields -> Nat]
    /\ base \in [Requests -> Nat]
    /\ told \in [Requests -> Nat \cup {None}]
    /\ landed \in [Requests -> Nat]
    /\ arrived \in [Requests -> Nat]

\* What a request brought to chat.db came after it.
LandInv ==
    \A r \in Requests :
        /\ pc[r] = "idle" => phase[r] = "idle"
        /\ phase[r] = "idle" => ran[r] = 0
        /\ landed[r] <= taken[r]
        /\ arrived[r] <= Len(rows)
        /\ \A i \in 1 .. Len(rows) : rows[i].by = r => landed[r] # 0 /\ i > arrived[r]

\* The rowid noted before the script covers all that was there when the request came.
NotedInv ==
    ~Backdated =>
        \A r \in Requests :
            ByScript(r) /\ pc[r] \in {"scripting", "finding"} /\ before[r] # 0 =>
                \A i \in Of(Canon[req[r].chat]) : i <= arrived[r] => i <= before[r]

\* What a send by AppleScript that is done has told its client.
ToldInv ==
    \A r \in Requests :
        pc[r] = "done" /\ ByScript(r) /\ ~Backdated /\ before[r] # 0 => told[r] > arrived[r]

RowInv == IInv /\ RestType /\ DateInv /\ LandInv /\ NotedInv /\ ToldInv

LEMMA RowsStart == Init => RowInv
<1> SUFFICES ASSUME Init PROVE RowInv
  OBVIOUS
<1>1. IInv
  BY InitHolds
<1>2. rows = << >> /\ Len(rows) = 0 /\ phase = [r \in Requests |-> "idle"] /\ ran = [r \in Requests |-> 0]
  BY DEF Init, Helper!Init
<1>3. RestType
  BY <1>2 DEF Init, RestType, Fields
<1>4. DateInv
  BY <1>2 DEF DateInv
<1>5. LandInv
  BY <1>2 DEF Init, LandInv
<1>6. NotedInv /\ ToldInv
  BY DEF Init, NotedInv, ToldInv
<1> QED BY <1>1, <1>3, <1>4, <1>5, <1>6 DEF RowInv

----------------------------------------------------------------------------
\* Steps of a handler.

\* A handler that moves and touches neither the messages nor what was noted of them.
LEMMA MoveRows ==
  ASSUME NEW r \in Requests, NEW p \in Steps, RowInv, p # "idle",
         UNCHANGED <<req, rows, landed, arrived, before, ran>>,
         pc' = [pc EXCEPT ![r] = p],
         \A q \in Requests : /\ taken[q] <= taken'[q]
                             /\ q # r => told'[q] = told[q] /\ phase'[q] = phase[q],
         phase'[r] = "idle" => phase[r] = "idle",
         p \in {"scripting", "finding"} /\ ByScript(r) => pc[r] = "scripting",
         p = "done" /\ ByScript(r) /\ ~Backdated /\ before[r] # 0 => told'[r] > arrived[r],
         taken' \in [Requests -> Nat]
  PROVE  DateInv' /\ LandInv' /\ NotedInv' /\ ToldInv'
<1>1. CoreType /\ RestType
  BY DEF RowInv, IInv
<1>2. DateInv'
  BY DEF RowInv, DateInv
<1>3. LandInv'
  BY <1>1 DEF RowInv, LandInv, CoreType, RestType
<1>4. NotedInv'
  BY <1>1 DEF RowInv, NotedInv, CoreType, ByScript, Of
<1>5. ToldInv'
  BY <1>1 DEF RowInv, ToldInv, CoreType, ByScript
<1> QED BY <1>2, <1>3, <1>4, <1>5

\* A step that moves no handler and brings no message.
LEMMA StayRows ==
  ASSUME RowInv, UNCHANGED <<req, pc, rows, arrived, before, told, phase>>,
         \A q \in Requests : /\ landed'[q] <= taken'[q] /\ (landed[q] # 0 => landed'[q] # 0)
                             /\ phase[q] = "idle" => ran'[q] = 0
  PROVE  DateInv' /\ LandInv' /\ NotedInv' /\ ToldInv'
<1>1. DateInv' /\ NotedInv' /\ ToldInv'
  BY DEF RowInv, DateInv, NotedInv, ToldInv, ByScript, Of
<1>2. LandInv'
  BY DEF RowInv, LandInv
<1> QED BY <1>1, <1>2

\* A message that comes is the newest, and its sender has been accepted more often
\* than it landed.
LEMMA AppendRows ==
  ASSUME RowInv, NEW row \in Row, rows' = Append(rows, row), row.date \in Date,
         UNCHANGED <<req, pc, arrived, before, told, phase, ran, taken>>,
         \A q \in Requests : /\ landed'[q] <= taken[q] /\ (landed[q] # 0 => landed'[q] # 0)
                             /\ row.by = q => landed'[q] # 0
  PROVE  rows' \in Seq(Row) /\ DateInv' /\ LandInv' /\ NotedInv' /\ ToldInv'
<1>1. CoreType /\ RestType
  BY DEF RowInv, IInv
<1>2. /\ rows' \in Seq(Row) /\ Len(rows') = Len(rows) + 1 /\ rows'[Len(rows) + 1] = row /\ Len(rows) \in Nat
      /\ \A i \in 1 .. Len(rows) : rows'[i] = rows[i]
  BY <1>1 DEF RestType
<1>3. DateInv'
  BY <1>2 DEF RowInv, DateInv, Date
<1>4. LandInv'
  BY <1>1, <1>2 DEF RowInv, LandInv, RestType
<1>5. NotedInv'
  BY <1>1, <1>2 DEF RowInv, NotedInv, ByScript, Of, LandInv, RestType
<1>6. ToldInv'
  BY DEF RowInv, ToldInv, ByScript
<1> QED BY <1>2, <1>3, <1>4, <1>5, <1>6


\* The end of a handler that reports nothing new.
LEMMA EndRows ==
  ASSUME NEW r \in Requests, NEW outcome \in Ended, NEW answer \in Nat \cup {None}, RowInv,
         End(r, outcome, answer), req' = req, UNCHANGED <<rows, fields, landed, ran>>,
         \A q \in Requests \ {r} : phase'[q] = phase[q],
         phase'[r] = "idle" => phase[r] = "idle",
         taken' \in [Requests -> Nat], \A q \in Requests : taken[q] <= taken'[q],
         outcome = "done" /\ ByScript(r) /\ ~Backdated /\ before[r] # 0 => answer > arrived[r]
  PROVE  RestType' /\ DateInv' /\ LandInv' /\ NotedInv' /\ ToldInv'
<1>1. /\ pc' = [pc EXCEPT ![r] = outcome] /\ told' = [told EXCEPT ![r] = answer]
      /\ UNCHANGED <<typing, before, base, arrived>>
  BY DEF End, Goto
<1>2. RestType /\ told'[r] = answer
  BY <1>1 DEF RowInv, RestType
<1>3. RestType'
  BY <1>1, <1>2 DEF RestType
<1>4. outcome \in Steps /\ outcome \notin {"idle", "scripting", "finding"}
  BY DEF Ended, Steps
<1>5. \A q \in Requests : q # r => told'[q] = told[q]
  BY <1>1, <1>2 DEF RestType
<1>6. DateInv' /\ LandInv' /\ NotedInv' /\ ToldInv'
  BY <1>1, <1>2, <1>4, <1>5, MoveRows
<1> QED BY <1>3, <1>6

\* What a send by AppleScript reports came after those that were there.
LEMMA FindRows == ASSUME NEW r \in Requests, RowInv, FindMessage(r) PROVE RestType' /\ DateInv' /\ LandInv' /\ NotedInv' /\ ToldInv'
<1>1. /\ pc[r] = "finding" /\ UNCHANGED <<req, rows, fields, taken, landed, phase, ran>>
  BY DEF FindMessage, world, call
<1>2. CoreType /\ RestType /\ Len(rows) \in Nat
  BY DEF RowInv, IInv, RestType
<1>3. PICK i \in Found(r) : End(r, "done", i) \/ Fail(r)
  BY DEF FindMessage
<1>4. i \in 1 .. Len(rows) /\ (ByScript(r) => i \in Of(Canon[req[r].chat]) /\ i > before[r])
  <2>1. CASE ~ByScript(r)
    BY <1>3, <2>1 DEF Found, Of
  <2>2. CASE ByScript(r)
    <3> DEFINE sent == {j \in Of(Canon[req[r].chat]) : rows[j].mine}
               new  == {j \in sent \cap Recent(Canon[req[r].chat]) : j > before[r]}
    <3>1. new \in SUBSET (1 .. Len(rows)) /\ new # {} /\ i = Newest(new)
      BY <1>3, <2>2 DEF Found, Of
    <3> HIDE DEF new
    <3>2. i \in new
      BY <1>2, <3>1, NewestIn DEF RowInv, RestType
    <3> QED BY <3>2 DEF new, Of
  <2> QED BY <2>1, <2>2
<1>5. i \in Nat \cup {None} /\ None \in Nat \cup {None}
  BY <1>2, <1>4
<1>6. ASSUME ByScript(r), ~Backdated, before[r] # 0 PROVE i > arrived[r]
  <2>1. i <= arrived[r] => i <= before[r]
    BY <1>1, <1>4, <1>6 DEF RowInv, NotedInv
  <2>2. before[r] \in Nat /\ arrived[r] \in Nat /\ i \in Nat
    BY <1>2, <1>4 DEF RestType
  <2> QED BY <1>4, <1>6, <2>1, <2>2
<1>7. taken' \in [Requests -> Nat] /\ \A q \in Requests : taken[q] <= taken'[q]
  BY <1>1, <1>2 DEF CoreType
<1>8. CASE End(r, "done", i)
  BY <1>1, <1>5, <1>6, <1>7, <1>8, EndRows DEF Ended
<1>9. CASE Fail(r)
  BY <1>1, <1>5, <1>7, <1>9, EndRows DEF Fail, Ended
<1> QED BY <1>3, <1>8, <1>9

\* The other ways to end.
LEMMA FinishRows ==
  ASSUME NEW r \in Requests, RowInv, Reject(r) \/ CallFailed(r) \/ SeeChange(r) \/ GiveUp(r) \/ Cancel(r)
  PROVE  RestType' /\ DateInv' /\ LandInv' /\ NotedInv' /\ ToldInv'
<1>1. CoreType /\ RestType /\ KindInv
  BY DEF RowInv, IInv
<1>2. PICK outcome \in Ended, answer \in Nat \cup {None} :
        End(r, outcome, answer) /\ (outcome = "done" => ~ByScript(r))
  <2>1. CASE Reject(r) \/ CallFailed(r) \/ Cancel(r)
    BY <2>1 DEF Reject, CallFailed, Cancel, Fail, Ended
  <2>2. CASE SeeChange(r)
    BY <1>1, <2>2 DEF SeeChange, RestType, FieldOf, Fields, Ended, ByScript
  <2>3. CASE GiveUp(r)
    BY <1>1, <2>3 DEF GiveUp, RestType, Fail, Ended, ByScript
  <2> QED BY <2>1, <2>2, <2>3
<1>3. /\ req' = req /\ UNCHANGED <<rows, fields, landed, ran>>
      /\ \/ phase' = phase
         \/ \E p \in {"answered", "failed", "abandoned"} : phase' = [phase EXCEPT ![r] = p]
  <2>1. CASE Reject(r) \/ SeeChange(r) \/ GiveUp(r)
    BY <2>1 DEF Reject, SeeChange, GiveUp, world, call
  <2>2. CASE CallFailed(r)
    BY <2>2 DEF CallFailed, Helper!Fail, Helper!Answer, Helper!Move, world
  <2>3. CASE Cancel(r)
    BY <2>3 DEF Cancel, Accept, Helper!Abandon, Helper!Move, world, call
  <2> QED BY <2>1, <2>2, <2>3
<1>4. taken' = taken \/ taken' = [taken EXCEPT ![r] = @ + 1]
  <2>1. CASE ~Cancel(r)
    BY <2>1 DEF Reject, CallFailed, SeeChange, GiveUp, world
  <2>2. CASE Cancel(r)
    BY <1>1, <2>2, AcceptOne DEF Cancel, world
  <2> QED BY <2>1, <2>2
<1>5. taken' \in [Requests -> Nat] /\ \A q \in Requests : taken[q] <= taken'[q]
  BY <1>1, <1>4 DEF CoreType
<1>6. /\ \A q \in Requests \ {r} : phase'[q] = phase[q]
      /\ phase'[r] = "idle" => phase[r] = "idle"
  BY <1>1, <1>3 DEF CoreType
<1> QED BY <1>2, <1>3, <1>5, <1>6, EndRows

\* A handler that goes on.
LEMMA WalkRows ==
  ASSUME NEW r \in Requests, RowInv,
         \/ CacheSend(r) \/ AutoStop(r) \/ Stopped(r) \/ AskSend(r) \/ AskEdit(r) \/ AskMember(r)
         \/ Answered(r) \/ ScriptRan(r)
  PROVE  RestType' /\ DateInv' /\ LandInv' /\ NotedInv' /\ ToldInv'
<1>1. CoreType /\ RestType /\ KindInv
  BY DEF RowInv, IInv
<1>2. UNCHANGED <<req, rows, fields, landed, arrived, before, told, ran>>
  BY DEF CacheSend, AutoStop, Stopped, AskSend, AskEdit, AskMember, Ask, Answered, ScriptRan, Accept,
         Helper!Open, Helper!Answer, Helper!Move, world, call
<1>3. RestType'
  <2>1. typing' \subseteq typing
    BY DEF CacheSend, AutoStop, Stopped, AskSend, AskEdit, AskMember, Ask, Answered, ScriptRan
  <2>2. base' \in [Requests -> Nat]
    BY <1>1 DEF CacheSend, AutoStop, Stopped, AskSend, AskEdit, AskMember, Ask, Answered, ScriptRan,
                RestType, FieldOf, Fields
  <2> QED BY <1>1, <1>2, <2>1, <2>2 DEF RestType
<1>4. PICK p \in Steps \ {"idle", "done", "scripting"} :
        pc' = [pc EXCEPT ![r] = p] /\ (p = "finding" /\ ByScript(r) => pc[r] = "scripting")
  <2>1. CASE Answered(r)
    <3>1. ~ByScript(r)
      BY <1>1, <2>1 DEF Answered, Helper!Answer, Helper!Move, KindInv
    <3> QED BY <2>1, <3>1 DEF Answered, Goto, Steps, Ended
  <2>2. CASE ~Answered(r)
    BY <2>2 DEF CacheSend, AutoStop, Stopped, AskSend, AskEdit, AskMember, Ask, ScriptRan, Goto, Steps, Ended
  <2> QED BY <2>1, <2>2
<1>5. /\ taken' \in [Requests -> Nat] /\ \A q \in Requests : taken[q] <= taken'[q]
  <2>1. taken' = taken \/ taken' = [taken EXCEPT ![r] = @ + 1]
    BY DEF CacheSend, AutoStop, Stopped, AskSend, AskEdit, AskMember, Ask, Answered, ScriptRan, Accept, world
  <2> QED BY <1>1, <2>1 DEF CoreType
<1>6. /\ \A q \in Requests : q # r => phase'[q] = phase[q]
      /\ phase'[r] = "idle" => phase[r] = "idle"
  <2>1. phase' = phase \/ \E f \in {"open", "answered"} : phase' = [phase EXCEPT ![r] = f]
    BY DEF CacheSend, AutoStop, Stopped, AskSend, AskEdit, AskMember, Ask, Answered, ScriptRan,
           Helper!Open, Helper!Answer, Helper!Move, call
  <2> QED BY <1>1, <2>1 DEF CoreType
<1>7. DateInv' /\ LandInv' /\ NotedInv' /\ ToldInv'
  BY <1>2, <1>4, <1>5, <1>6, MoveRows
<1> QED BY <1>3, <1>7


\* A request that arrives has brought nothing to chat.db yet.
LEMMA ArriveRows ==
  ASSUME NEW r \in Requests, RowInv, Check(r) \/ AskReaction(r)
  PROVE  RestType' /\ DateInv' /\ LandInv' /\ NotedInv' /\ ToldInv'
<1>1. CoreType /\ RestType /\ KindInv /\ TakenInv /\ Len(rows) \in Nat
  BY DEF RowInv, IInv, RestType
<1>2. /\ UNCHANGED <<req, rows, fields, landed, before, base, told, typing, taken, ran>>
      /\ arrived' = [arrived EXCEPT ![r] = Len(rows)] /\ pc[r] = "idle"
  BY DEF Check, AskReaction, Helper!Open, Helper!Move, world, call
<1>3. RestType'
  BY <1>1, <1>2 DEF RestType
<1>4. /\ \E p \in {"guarded", "refused", "passed", "calling"} : pc' = [pc EXCEPT ![r] = p]
      /\ phase' = phase \/ phase' = [phase EXCEPT ![r] = "open"]
  BY DEF Check, AskReaction, Goto, Helper!Open, Helper!Move, call
<1>5. taken[r] = 0 /\ landed[r] = 0
  <2>1. taken[r] = 0
    BY <1>1, <1>2 DEF RowInv, LandInv, TakenInv
  <2> QED BY <1>1, <2>1 DEF RowInv, LandInv, RestType
<1>6. DateInv'
  BY <1>2 DEF RowInv, DateInv
<1>7. LandInv'
  BY <1>1, <1>2, <1>4, <1>5 DEF RowInv, LandInv, CoreType, RestType
<1>8. NotedInv'
  BY <1>1, <1>2, <1>4 DEF RowInv, NotedInv, CoreType, RestType, ByScript, Of
<1>9. ToldInv'
  BY <1>1, <1>2, <1>4 DEF RowInv, ToldInv, CoreType, RestType, ByScript
<1> QED BY <1>3, <1>6, <1>7, <1>8, <1>9

\* The last message of the chat is the newest of those that were there.
LEMMA NoteRows ==
  ASSUME NEW r \in Requests, RowInv, Note(r)
  PROVE  RestType' /\ DateInv' /\ LandInv' /\ NotedInv' /\ ToldInv'
<1> DEFINE S == Of(Canon[req[r].chat])
<1>1. CoreType /\ RestType /\ KindInv /\ Len(rows) \in Nat
  BY DEF RowInv, IInv, RestType
<1>2. /\ UNCHANGED <<req, rows, fields, landed, arrived, base, told, typing, taken, ran, phase>>
      /\ pc[r] = "ready" /\ pc' = [pc EXCEPT ![r] = "scripting"]
  BY DEF Note, Goto, world, call
<1>3. S \in SUBSET (1 .. Len(rows))
  BY DEF Of
<1>4. PICK n \in {0} \cup (IF S = {} THEN {} ELSE {Newest(S)}) : before' = [before EXCEPT ![r] = n]
  BY DEF Note
<1> HIDE DEF S
<1>5. CASE n = 0
  <2>1. RestType'
    BY <1>1, <1>2, <1>4, <1>5 DEF RestType
  <2>2. DateInv' /\ LandInv'
    BY <1>1, <1>2 DEF RowInv, DateInv, LandInv, CoreType
  <2>3. NotedInv' /\ ToldInv'
    BY <1>1, <1>2, <1>4, <1>5 DEF RowInv, NotedInv, ToldInv, CoreType, RestType, ByScript, Of
  <2> QED BY <2>1, <2>2, <2>3
<1>6. CASE n # 0
  <2>1. S # {} /\ n = Newest(S)
    BY <1>4, <1>6
  <2>2. n \in S /\ \A j \in S \ {n} : Newer(n, j)
    BY <1>1, <1>3, <2>1, NewestIn DEF RowInv, RestType
  <2>3. n \in Nat
    BY <1>1, <1>3, <2>2
  <2>4. RestType'
    BY <1>1, <1>2, <1>4, <2>3 DEF RestType
  <2>5. DateInv' /\ LandInv'
    BY <1>1, <1>2 DEF RowInv, DateInv, LandInv, CoreType
  <2>6. ASSUME ~Backdated, NEW j \in S PROVE j <= n
    <3>1. rows[n].date = n /\ rows[j].date = j /\ j \in Nat
      BY <1>1, <1>3, <2>2, <2>6 DEF RowInv, DateInv
    <3> QED BY <2>2, <2>3, <3>1 DEF Newer
  <2>7. ToldInv'
    BY <1>1, <1>2, <1>4 DEF RowInv, ToldInv, CoreType, RestType, ByScript
  <2>8. NotedInv'
    <3> SUFFICES ASSUME ~Backdated, NEW q \in Requests, ByScript(q), pc'[q] \in {"scripting", "finding"},
                        before'[q] # 0, NEW i \in Of(Canon[req[q].chat]), i <= arrived[q]
                 PROVE  i <= before'[q]
      BY <1>2 DEF NotedInv, ByScript, Of
    <3>1. CASE q = r
      BY <1>1, <1>4, <2>6, <3>1 DEF S, RestType
    <3>2. CASE q # r
      BY <1>1, <1>2, <1>4, <3>2 DEF RowInv, NotedInv, CoreType, RestType
    <3> QED BY <3>1, <3>2
  <2> QED BY <2>4, <2>5, <2>7, <2>8
<1> QED BY <1>5, <1>6

\* A script that fails: the next attempt, or the end.
LEMMA ScriptRows ==
  ASSUME NEW r \in Requests, RowInv, ScriptError(r) \/ ScriptTimeout(r)
  PROVE  RestType' /\ DateInv' /\ LandInv' /\ NotedInv' /\ ToldInv'
<1>1. CoreType /\ RestType
  BY DEF RowInv, IInv
<1>2. UNCHANGED <<req, rows, fields, landed, phase, ran>> /\ (Fail(r) \/ Again(r))
  BY DEF ScriptError, ScriptTimeout, Accept, world, call
<1>3. taken' = taken \/ taken' = [taken EXCEPT ![r] = @ + 1]
  <2>1. CASE ScriptError(r)
    BY <2>1 DEF ScriptError, world
  <2>2. CASE ScriptTimeout(r)
    BY <1>1, <2>2, AcceptOne DEF ScriptTimeout
  <2> QED BY <2>1, <2>2
<1>4. taken' \in [Requests -> Nat] /\ \A q \in Requests : taken[q] <= taken'[q]
  BY <1>1, <1>3 DEF CoreType
<1>5. CASE Fail(r)
  BY <1>2, <1>4, <1>5, EndRows DEF Fail, Ended
<1>6. CASE ~Fail(r)
  <2>1. UNCHANGED <<pc, typing, before, base, told, arrived>>
    BY <1>2, <1>6 DEF Again
  <2>2. RestType'
    BY <1>1, <1>2, <2>1 DEF RestType
  <2>3. \A q \in Requests : /\ landed'[q] <= taken'[q] /\ (landed[q] # 0 => landed'[q] # 0)
                            /\ phase[q] = "idle" => ran'[q] = 0
    BY <1>1, <1>2, <1>4 DEF RowInv, LandInv, RestType, CoreType
  <2> QED BY <1>2, <2>1, <2>2, <2>3, StayRows
<1> QED BY <1>5, <1>6

----------------------------------------------------------------------------
\* The helper, the typing routes, Messages and the other devices.

LEMMA ExecuteRows ==
  ASSUME NEW r \in Requests, RowInv, Execute(r)
  PROVE  RestType' /\ DateInv' /\ LandInv' /\ NotedInv' /\ ToldInv'
<1>1. CoreType /\ RestType
  BY DEF RowInv, IInv
<1>2. /\ UNCHANGED <<req, handler, rows, fields, landed, phase>> /\ phase[r] # "idle"
      /\ taken' = [taken EXCEPT ![r] = @ + 1] /\ ran' = [ran EXCEPT ![r] = 1]
  BY DEF Execute, Helper!Execute
<1>3. RestType'
  BY <1>1, <1>2 DEF RestType, handler
<1>4. \A q \in Requests : /\ landed'[q] <= taken'[q] /\ (landed[q] # 0 => landed'[q] # 0)
                          /\ phase[q] = "idle" => ran'[q] = 0
  BY <1>1, <1>2 DEF RowInv, LandInv, RestType, CoreType
<1> QED BY <1>2, <1>3, <1>4, StayRows DEF handler

LEMMA TypingRows ==
  ASSUME NEW g \in Guids, RowInv, StartTyping(g) \/ StopTyping(g)
  PROVE  RestType' /\ DateInv' /\ LandInv' /\ NotedInv' /\ ToldInv'
<1>1. UNCHANGED <<req, pc, before, base, told, arrived, rows, fields, taken, landed, phase, ran>>
  BY DEF StartTyping, StopTyping, world, call
<1>2. RestType'
  BY <1>1 DEF RowInv, RestType, StartTyping, StopTyping, Chats
<1>3. \A q \in Requests : /\ landed'[q] <= taken'[q] /\ (landed[q] # 0 => landed'[q] # 0)
                          /\ phase[q] = "idle" => ran'[q] = 0
  BY <1>1 DEF RowInv, LandInv
<1> QED BY <1>1, <1>2, <1>3, StayRows

LEMMA MovedType == ASSUME NEW f \in Fields, NEW v, RestType, Moved(f, v) PROVE fields' \in [Fields -> Nat]
BY DEF Moved, RestType

LEMMA LandRows ==
  ASSUME NEW r \in Requests, RowInv, Land(r)
  PROVE  RestType' /\ DateInv' /\ LandInv' /\ NotedInv' /\ ToldInv'
<1>1. CoreType /\ RestType /\ Len(rows) \in Nat
  BY DEF RowInv, IInv, RestType
<1>2. /\ UNCHANGED <<req, handler, call, taken>> /\ landed[r] < taken[r]
      /\ landed' = [landed EXCEPT ![r] = @ + 1]
  BY DEF Land
<1>3. landed' \in [Requests -> Nat] /\ landed'[r] # 0
  BY <1>1, <1>2 DEF RestType
<1>4. \A q \in Requests : landed'[q] <= taken[q] /\ (landed[q] # 0 => landed'[q] # 0)
  BY <1>1, <1>2 DEF RowInv, LandInv, RestType, CoreType
<1>5. CASE req[r].kind \in {"text", "react"}
  <2> DEFINE row == [chat |-> Canon[req[r].chat], mine |-> TRUE, by |-> r, date |-> 1 + Len(rows)]
  <2>1. rows' = Append(rows, row) /\ UNCHANGED fields
    BY <1>5 DEF Land, Append1
  <2>2. req[r].chat \in Guids
    BY <1>1 DEF CoreType, Load
  <2>3. row \in Row /\ row.date \in Date /\ row.by = r
    BY <1>1, <2>2 DEF Row, Chats, Date
  <2> HIDE DEF row
  <2>4. rows' \in Seq(Row) /\ DateInv' /\ LandInv' /\ NotedInv' /\ ToldInv'
    BY <1>2, <1>3, <1>4, <2>1, <2>3, AppendRows DEF handler, call
  <2>5. RestType'
    BY <1>1, <1>2, <1>3, <2>1, <2>4 DEF RestType, handler
  <2> QED BY <2>4, <2>5
<1>6. CASE req[r].kind \notin {"text", "react"}
  <2>1. req[r].kind \in {"edit", "add", "remove"}
    BY <1>1, <1>6 DEF CoreType, Load, Kinds
  <2>0. PICK f \in Fields : \E v : Moved(f, v)
    BY <2>1 DEF Land, Fields
  <2>2. PICK v : Moved(f, v)
    BY <2>0
  <2>3. fields' \in [Fields -> Nat] /\ UNCHANGED rows
    BY <1>1, <2>2, MovedType DEF Moved
  <2>4. RestType'
    BY <1>1, <1>2, <1>3, <2>3 DEF RestType, handler
  <2>5. \A q \in Requests : /\ landed'[q] <= taken'[q] /\ (landed[q] # 0 => landed'[q] # 0)
                            /\ phase[q] = "idle" => ran'[q] = 0
    BY <1>2, <1>4 DEF RowInv, LandInv, call
  <2> QED BY <1>2, <2>3, <2>4, <2>5, StayRows DEF handler, call
<1> QED BY <1>5, <1>6

LEMMA ElsewhereRows ==
  ASSUME RowInv, Elsewhere
  PROVE  RestType' /\ DateInv' /\ LandInv' /\ NotedInv' /\ ToldInv'
<1>1. CoreType /\ RestType /\ Len(rows) \in Nat
  BY DEF RowInv, IInv, RestType
<1>2. UNCHANGED <<req, handler, call, taken, landed>>
  BY DEF Elsewhere
<1>3. \A q \in Requests : landed'[q] <= taken'[q] /\ (phase[q] = "idle" => ran'[q] = 0)
  BY <1>2 DEF RowInv, LandInv, call
<1>4. ASSUME NEW c \in Named, NEW m \in BOOLEAN, NEW d \in Date,
             Append1([chat |-> c, mine |-> m, by |-> None, date |-> d])
      PROVE  RestType' /\ DateInv' /\ LandInv' /\ NotedInv' /\ ToldInv'
  <2> DEFINE row == [chat |-> c, mine |-> m, by |-> None, date |-> d]
  <2>1. rows' = Append(rows, row) /\ UNCHANGED fields
    BY <1>4 DEF Append1
  <2>2. c \in Chats
    BY <1>1 DEF Named, Chats, CoreType, Load
  <2>3. row \in Row /\ row.date \in Date /\ row.by = None
    BY <1>1, <2>2 DEF Row, Date
  <2> HIDE DEF row
  <2>4. rows' \in Seq(Row) /\ DateInv' /\ LandInv' /\ NotedInv' /\ ToldInv'
    BY <1>2, <1>3, <2>1, <2>3, NoneAssumption, AppendRows DEF handler, call
  <2>5. RestType'
    BY <1>1, <1>2, <2>1, <2>4 DEF RestType, handler
  <2> QED BY <2>4, <2>5
<1>5. ASSUME NEW f \in Fields, NEW v, Moved(f, v)
      PROVE  RestType' /\ DateInv' /\ LandInv' /\ NotedInv' /\ ToldInv'
  <2>1. fields' \in [Fields -> Nat] /\ UNCHANGED rows
    BY <1>1, <1>5, MovedType DEF Moved
  <2>2. RestType'
    BY <1>1, <1>2, <2>1 DEF RestType, handler
  <2> QED BY <1>2, <1>3, <2>1, <2>2, StayRows DEF handler, call
<1> QED BY <1>4, <1>5 DEF Elsewhere, Fields

LEMMA RowsKeep == RowInv /\ [Next]_vars => RowInv'
<1> SUFFICES ASSUME RowInv, [Next]_vars PROVE RestType' /\ DateInv' /\ LandInv' /\ NotedInv' /\ ToldInv'
  BY StepKeeps DEF RowInv
<1>1. CASE UNCHANGED vars
  <2>1. UNCHANGED <<req, pc, cache, typing, tries, before, base, told, arrived, rows, fields, taken, landed, phase, ran>>
    BY <1>1 DEF vars, handler, world, call
  <2>2. RestType'
    BY <2>1 DEF RowInv, RestType
  <2>3. \A q \in Requests : landed'[q] <= taken'[q] /\ (phase[q] = "idle" => ran'[q] = 0)
    BY <2>1 DEF RowInv, LandInv
  <2> QED BY <2>1, <2>2, <2>3, StayRows
<1>2. ASSUME NEW r \in Requests,
             \/ CacheSend(r) \/ AutoStop(r) \/ Stopped(r) \/ AskSend(r) \/ AskEdit(r) \/ AskMember(r)
             \/ Answered(r) \/ ScriptRan(r)
      PROVE  RestType' /\ DateInv' /\ LandInv' /\ NotedInv' /\ ToldInv'
  BY <1>2, WalkRows
<1>3. ASSUME NEW r \in Requests, Reject(r) \/ CallFailed(r) \/ SeeChange(r) \/ GiveUp(r) \/ Cancel(r)
      PROVE  RestType' /\ DateInv' /\ LandInv' /\ NotedInv' /\ ToldInv'
  BY <1>3, FinishRows
<1> QED BY <1>1, <1>2, <1>3, FindRows, ArriveRows, NoteRows, ScriptRows, ExecuteRows, TypingRows, LandRows,
           ElsewhereRows DEF Next, Handler

THEOREM RowsInvariant == Spec => []RowInv
BY RowsStart, RowsKeep, PTL DEF Spec

\* Every variable keeps its type: steps, counters, rowids, what clients are told.
THEOREM RouteTypes == Spec => []TypeOK
<1>1. RowInv => TypeOK
  BY DEF RowInv, IInv, CoreType, RestType, TypeOK, Helper!TypeOK, Steps
<1> QED BY <1>1, RowsInvariant, PTL

\* If no message enters chat.db with an older date than its newest, a send by
\* AppleScript that succeeds reports a message that came after the request, unless the
\* query for the last rowid failed (message.rs, pre_send_max_rowid and the awaiter).
THEOREM NewReported == ~Backdated => (Spec => []ReportsNew)
<1> SUFFICES ASSUME ~Backdated PROVE Spec => []ReportsNew
  OBVIOUS
<1>1. RowInv => ReportsNew
  BY DEF RowInv, IInv, CoreType, RestType, ToldInv, ReportsNew, ByScript
<1> QED BY <1>1, RowsInvariant, PTL

----------------------------------------------------------------------------
\* The messages of chat.db that are a request's.

Shown(r) == {i \in 1 .. Len(rows) : rows[i].by = r}

\* Each of them is one that landed.
ShownInv == \A r \in Requests : IsFiniteSet(Shown(r)) /\ Cardinality(Shown(r)) <= landed[r]

\* Handlers, the helper and the typing routes write nothing to chat.db.
LEMMA Unwritten ==
  ASSUME [Next]_vars, ~Elsewhere, \A r \in Requests : ~Land(r)
  PROVE  UNCHANGED <<rows, landed>>
<1>1. CASE UNCHANGED vars
  BY <1>1 DEF vars, world
<1>2. ASSUME NEW g \in Guids, StartTyping(g) \/ StopTyping(g) PROVE UNCHANGED <<rows, landed>>
  BY <1>2 DEF StartTyping, StopTyping, world
<1>3. ASSUME NEW r \in Requests,
             Check(r) \/ Reject(r) \/ AskReaction(r) \/ AskEdit(r) \/ AskMember(r) \/ Cancel(r) \/ Execute(r)
      PROVE  UNCHANGED <<rows, landed>>
  BY <1>3 DEF Check, Reject, AskReaction, AskEdit, AskMember, Ask, Cancel, Execute, Accept, world
<1>4. ASSUME NEW r \in Requests, Handler(r) PROVE UNCHANGED <<rows, landed>>
  BY <1>4 DEF Handler, CacheSend, AutoStop, Stopped, AskSend, Note, Reject, Answered, CallFailed, ScriptRan,
              ScriptError, ScriptTimeout, FindMessage, SeeChange, GiveUp, Accept, world
<1> QED BY <1>1, <1>2, <1>3, <1>4 DEF Next

\* A row more: it is its sender's, and of nobody else.
LEMMA AppendShown ==
  ASSUME RestType, NEW row, rows' = Append(rows, row), NEW r \in Requests
  PROVE  Shown(r)' = IF row.by = r THEN Shown(r) \cup {Len(rows) + 1} ELSE Shown(r)
<1>1. /\ Len(rows) \in Nat /\ Len(rows') = Len(rows) + 1 /\ rows'[Len(rows) + 1] = row
      /\ \A i \in 1 .. Len(rows) : rows'[i] = rows[i]
  BY DEF RestType
<1> QED BY <1>1 DEF Shown

\* Only a row that lands is a request's, and it is counted when it does.
LEMMA ShownKeeps == RowInv /\ ShownInv /\ [Next]_vars => ShownInv'
<1> SUFFICES ASSUME RowInv, ShownInv, [Next]_vars, NEW r \in Requests
             PROVE  IsFiniteSet(Shown(r)') /\ Cardinality(Shown(r)') <= landed'[r]
  BY DEF ShownInv
<1>1. RestType /\ Len(rows) \in Nat /\ landed[r] \in Nat
  BY DEF RowInv, RestType
<1>2. IsFiniteSet(Shown(r)) /\ Cardinality(Shown(r)) <= landed[r] /\ Cardinality(Shown(r)) \in Nat
  BY FS_CardinalityType DEF ShownInv
<1>3. Len(rows) + 1 \notin Shown(r)
  BY <1>1 DEF Shown
<1>4. CASE UNCHANGED <<rows, landed>>
  BY <1>2, <1>4 DEF Shown
<1>5. ASSUME NEW q \in Requests, Land(q)
      PROVE  IsFiniteSet(Shown(r)') /\ Cardinality(Shown(r)') <= landed'[r]
  <2>1. landed'[r] = IF q = r THEN landed[r] + 1 ELSE landed[r]
    BY <1>5 DEF Land, RowInv, RestType
  <2>2. CASE req[q].kind \in {"text", "react"}
    <3> DEFINE row == [chat |-> Canon[req[q].chat], mine |-> TRUE, by |-> q, date |-> 1 + Len(rows)]
    <3>1. rows' = Append(rows, row) /\ row.by = q
      BY <1>5, <2>2 DEF Land, Append1
    <3> HIDE DEF row
    <3>2. Shown(r)' = IF q = r THEN Shown(r) \cup {Len(rows) + 1} ELSE Shown(r)
      BY <1>1, <3>1, AppendShown
    <3>3. IsFiniteSet(Shown(r) \cup {Len(rows) + 1}) /\ Cardinality(Shown(r) \cup {Len(rows) + 1}) = Cardinality(Shown(r)) + 1
      BY <1>2, <1>3, FS_AddElement
    <3>4. CASE q = r
      BY <1>1, <1>2, <2>1, <3>2, <3>3, <3>4
    <3>5. CASE q # r
      BY <1>1, <1>2, <2>1, <3>2, <3>5
    <3> QED BY <3>4, <3>5
  <2>3. CASE req[q].kind \notin {"text", "react"}
    <3>1. req[q].kind \in {"edit", "add", "remove"}
      BY <2>3 DEF RowInv, IInv, CoreType, Load, Kinds
    <3>2. rows' = rows
      BY <1>5, <3>1 DEF Land, Moved
    <3>3. Shown(r)' = Shown(r)
      BY <3>2 DEF Shown
    <3> QED BY <1>1, <1>2, <2>1, <3>3
  <2> QED BY <2>2, <2>3
<1>6. ASSUME Elsewhere
      PROVE  IsFiniteSet(Shown(r)') /\ Cardinality(Shown(r)') <= landed'[r]
  <2>1. landed' = landed
    BY <1>6 DEF Elsewhere
  <2>2. rows' = rows \/ \E row : rows' = Append(rows, row) /\ row.by = None
    <3>1. ASSUME NEW c \in Named, NEW m \in BOOLEAN, NEW d \in Date,
                 Append1([chat |-> c, mine |-> m, by |-> None, date |-> d])
          PROVE  \E row : rows' = Append(rows, row) /\ row.by = None
      <4> DEFINE new == [chat |-> c, mine |-> m, by |-> None, date |-> d]
      <4> WITNESS new
      <4> QED BY <3>1 DEF Append1
    <3>2. ASSUME NEW f, NEW v, Moved(f, v) PROVE rows' = rows
      BY <3>2 DEF Moved
    <3> QED BY <1>6, <3>1, <3>2 DEF Elsewhere
  <2>3. Shown(r)' = Shown(r)
    <3>1. CASE rows' = rows
      BY <3>1 DEF Shown
    <3>2. ASSUME NEW row, rows' = Append(rows, row), row.by = None PROVE Shown(r)' = Shown(r)
      <4>1. row.by # r
        BY <3>2, NoneAssumption
      <4> QED BY <1>1, <3>2, <4>1, AppendShown
    <3> QED BY <2>2, <3>1, <3>2
  <2> QED BY <1>2, <2>1, <2>3
<1> QED BY <1>4, <1>5, <1>6, Unwritten

LEMMA ShownInvariant == Spec => [](RowInv /\ ShownInv)
<1>1. Init => ShownInv
  <2> SUFFICES ASSUME Init, NEW r \in Requests
               PROVE  IsFiniteSet(Shown(r)) /\ Cardinality(Shown(r)) <= landed[r]
    BY DEF ShownInv
  <2>1. Shown(r) = {}
    BY DEF Init, Shown
  <2> QED BY <2>1, FS_EmptySet DEF Init
<1> QED BY <1>1, RowsStart, RowsKeep, ShownKeeps, PTL DEF Spec

\* chat.db shows the message or reaction of a request once, or twice for a send to
\* one person by AppleScript: what Messages accepted is all that a retry, a timeout or
\* a cancelled handler can leave behind there (actions.rs, send_message).
THEOREM ShownOnce ==
  Spec => [](\A r \in Requests :
                Cardinality(Shown(r)) <= IF ByScript(r) /\ Canon[req[r].chat] \notin Groups THEN 2 ELSE 1)
<1>1. RowInv /\ ShownInv => \A r \in Requests :
         Cardinality(Shown(r)) <= IF ByScript(r) /\ Canon[req[r].chat] \notin Groups THEN 2 ELSE 1
  <2> SUFFICES ASSUME RowInv, ShownInv, NEW r \in Requests
               PROVE  Cardinality(Shown(r)) <= IF ByScript(r) /\ Canon[req[r].chat] \notin Groups THEN 2 ELSE 1
    OBVIOUS
  <2>1. /\ Cardinality(Shown(r)) <= landed[r] /\ landed[r] <= taken[r]
        /\ landed[r] \in Nat /\ taken[r] \in Nat
    BY DEF ShownInv, RowInv, IInv, CoreType, RestType, LandInv
  <2>2. Cardinality(Shown(r)) \in Nat
    BY FS_CardinalityType DEF ShownInv
  <2>3. taken[r] <= IF ByScript(r) /\ Canon[req[r].chat] \notin Groups THEN 2 ELSE 1
    BY DEF RowInv, IInv, CoreType, TakenInv
  <2> QED BY <2>1, <2>2, <2>3
<1> QED BY <1>1, ShownInvariant, PTL

----------------------------------------------------------------------------
\* What succeeds has happened.

\* A handler that looks for what it did, or has found it, did it.
FindInv == \A r \in Requests : pc[r] \in {"finding", "done"} => taken[r] >= 1

LEMMA FindKeeps == IInv /\ FindInv /\ [Next]_vars => FindInv'
<1> SUFFICES ASSUME IInv, FindInv, [Next]_vars, NEW r \in Requests, pc'[r] \in {"finding", "done"}
             PROVE  taken'[r] >= 1
  BY DEF FindInv
<1>1. CoreType /\ KindInv /\ TakenInv
  BY DEF IInv
<1>2. IInv'
  BY StepKeeps
<1>3. pc[r] \in {"finding", "done"} => taken[r] >= 1
  BY DEF FindInv
<1>4. CASE UNCHANGED <<pc, taken>>
  BY <1>3, <1>4
<1>5. ASSUME NEW q \in Requests, \E p \in Steps \ {"finding", "done"} : pc' = [pc EXCEPT ![q] = p]
      PROVE  q # r /\ pc'[r] = pc[r]
  BY <1>1, <1>5 DEF CoreType
<1>6. ASSUME NEW q \in Requests, NEW n \in {0, 1}, Accept(q, n) PROVE taken'[r] >= taken[r]
  BY <1>1, <1>6, AcceptOne DEF CoreType
<1>7. ASSUME NEW q \in Requests,
             \/ Check(q) \/ Reject(q) \/ AskReaction(q) \/ AskEdit(q) \/ AskMember(q) \/ CacheSend(q)
             \/ AutoStop(q) \/ Stopped(q) \/ AskSend(q) \/ Note(q) \/ CallFailed(q)
      PROVE  taken'[r] >= 1
  <2>1. taken' = taken /\ \E p \in Steps \ {"finding", "done"} : pc' = [pc EXCEPT ![q] = p]
    BY <1>7 DEF Check, Reject, AskReaction, AskEdit, AskMember, Ask, CacheSend, AutoStop, Stopped, AskSend,
                Note, CallFailed, Fail, End, Goto, Steps, Ended, world
  <2> QED BY <1>3, <1>5, <2>1
<1>8. ASSUME NEW q \in Requests, ScriptError(q) \/ ScriptTimeout(q) \/ Cancel(q)
      PROVE  taken'[r] >= 1
  <2>1. taken'[r] >= taken[r]
    BY <1>1, <1>6, <1>8 DEF ScriptError, ScriptTimeout, Cancel, world, CoreType
  <2>2. pc' = pc \/ \E p \in {"failed", "dropped"} : pc' = [pc EXCEPT ![q] = p]
    BY <1>8 DEF ScriptError, ScriptTimeout, Cancel, Again, Fail, End, Goto
  <2>3. taken[r] \in Nat /\ taken'[r] \in Nat
    BY <1>1, <1>2 DEF IInv, CoreType
  <2> QED BY <1>3, <1>5, <2>1, <2>2, <2>3 DEF Steps, Ended
<1>9. ASSUME NEW q \in Requests, Answered(q) PROVE taken'[r] >= 1
  <2>1. taken' = taken /\ pc' = [pc EXCEPT ![q] = "finding"] /\ ran[q] = 1 /\ phase[q] = "open"
    BY <1>9 DEF Answered, Goto, Helper!Answer, Helper!Move, world
  <2>2. taken[q] = 1
    BY <1>1, <2>1 DEF KindInv, TakenInv
  <2> QED BY <1>1, <1>3, <2>1, <2>2 DEF CoreType
<1>10. ASSUME NEW q \in Requests, ScriptRan(q) PROVE taken'[r] >= 1
  BY <1>1, <1>3, <1>10 DEF ScriptRan, Accept, Goto, CoreType
<1>11. ASSUME NEW q \in Requests, FindMessage(q) \/ SeeChange(q) \/ GiveUp(q) PROVE taken'[r] >= 1
  <2>1. taken' = taken /\ pc[q] = "finding" /\ \E p \in {"done", "failed"} : pc' = [pc EXCEPT ![q] = p]
    BY <1>11 DEF FindMessage, SeeChange, GiveUp, Fail, End, Goto, world
  <2> QED BY <1>1, <1>3, <2>1 DEF CoreType
<1>12. ASSUME NEW q \in Requests, Execute(q) \/ Land(q) PROVE taken'[r] >= 1
  <2>1. pc' = pc /\ (taken' = taken \/ taken' = [taken EXCEPT ![q] = @ + 1])
    BY <1>12 DEF Execute, Land, handler
  <2> QED BY <1>1, <1>3, <2>1 DEF CoreType
<1>13. ASSUME \/ Elsewhere \/ UNCHANGED vars \/ \E g \in Guids : StartTyping(g) \/ StopTyping(g)
       PROVE  UNCHANGED <<pc, taken>>
  BY <1>13 DEF Elsewhere, vars, StartTyping, StopTyping, handler, world
<1> QED BY <1>4, <1>7, <1>8, <1>9, <1>10, <1>11, <1>12, <1>13 DEF Next, Handler

\* Where the helper performs what it executes (HelperActions says where it does not), a
\* success means that Messages accepted the request, exactly once, or once or twice for a
\* send to one person by AppleScript: neither an answer nor a row that somebody else
\* caused is taken for it where the request did nothing (message.rs, chat.rs).
THEOREM DoneExactlyOnce ==
  Spec => [](\A r \in Requests : pc[r] = "done" =>
                IF ByScript(r) /\ Canon[req[r].chat] \notin Groups THEN taken[r] \in 1 .. 2 ELSE taken[r] = 1)
<1>1. Init => FindInv
  BY DEF Init, FindInv
<1>2. IInv /\ FindInv => \A r \in Requests : pc[r] = "done" =>
         IF ByScript(r) /\ Canon[req[r].chat] \notin Groups THEN taken[r] \in 1 .. 2 ELSE taken[r] = 1
  BY DEF IInv, CoreType, TakenInv, FindInv
<1> QED BY <1>1, <1>2, InitHolds, StepKeeps, FindKeeps, PTL DEF Spec

----------------------------------------------------------------------------
\* The handlers use the Private API as RequestReply allows, and PrivateApi implements.

\* A handler that stays away from the helper, or is in its call already.
LEMMA Uncalled ==
  ASSUME NEW r \in Requests,
         \/ Check(r) \/ Reject(r) \/ CacheSend(r) \/ AutoStop(r) \/ Stopped(r) \/ Note(r)
         \/ ScriptRan(r) \/ ScriptError(r) \/ ScriptTimeout(r)
         \/ FindMessage(r) \/ SeeChange(r) \/ GiveUp(r) \/ Land(r)
         \/ (Cancel(r) /\ pc[r] # "calling")
  PROVE  UNCHANGED call
BY DEF Check, Reject, CacheSend, AutoStop, Stopped, Note, ScriptRan, ScriptError, ScriptTimeout,
       FindMessage, SeeChange, GiveUp, Land, Cancel

\* What a step of a handler asks of the helper, or is told by it.
LEMMA Called ==
  ASSUME NEW r \in Requests,
         \/ AskSend(r) \/ AskReaction(r) \/ AskEdit(r) \/ AskMember(r)
         \/ Answered(r) \/ CallFailed(r) \/ Execute(r) \/ (Cancel(r) /\ pc[r] = "calling")
  PROVE  Helper!Open(r) \/ Helper!Answer(r) \/ Helper!Fail(r) \/ Helper!Abandon(r) \/ Helper!Execute(r)
BY DEF AskSend, AskReaction, AskEdit, AskMember, Ask, Answered, CallFailed, Execute, Cancel

\* Every run of the handlers is, for the helper, a run of RequestReply: a handler opens
\* its call once, takes an answer, a failure or its leave only while the call is open,
\* and is answered only what the helper executed.
THEOREM HelperUsed == Spec => Helper!Spec
<1>1. Init => Helper!Init
  BY DEF Init
<1>2. [Next]_vars => [Helper!Next]_(Helper!vars)
  <2> SUFFICES ASSUME [Next]_vars PROVE Helper!Next \/ UNCHANGED call
    BY DEF call, Helper!vars
  <2>1. CASE UNCHANGED vars
    BY <2>1 DEF vars
  <2>2. ASSUME NEW g \in Guids, StartTyping(g) \/ StopTyping(g) PROVE UNCHANGED call
    BY <2>2 DEF StartTyping, StopTyping
  <2>3. ASSUME Elsewhere PROVE UNCHANGED call
    BY <2>3 DEF Elsewhere
  <2>4. ASSUME NEW r \in Requests,
               \/ Check(r) \/ AskReaction(r) \/ AskEdit(r) \/ AskMember(r) \/ Reject(r)
               \/ Handler(r) \/ Cancel(r) \/ Execute(r) \/ Land(r)
        PROVE  Helper!Next \/ UNCHANGED call
    <3>1. CASE \/ AskSend(r) \/ AskReaction(r) \/ AskEdit(r) \/ AskMember(r)
               \/ Answered(r) \/ CallFailed(r) \/ Execute(r) \/ (Cancel(r) /\ pc[r] = "calling")
      BY <3>1, Called DEF Helper!Next
    <3> QED BY <2>4, <3>1, Uncalled DEF Handler
  <2> QED BY <2>1, <2>2, <2>3, <2>4 DEF Next
<1> QED BY <1>1, <1>2, PTL DEF Spec, Helper!Spec

=============================================================================
