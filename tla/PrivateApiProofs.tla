-------------------------- MODULE PrivateApiProofs --------------------------
(***************************************************************************)
(* Proofs about PrivateApi, for any calls, apps and bounds.                *)
(***************************************************************************)
EXTENDS PrivateApi, TLAPS

----------------------------------------------------------------------------
\* The inductive invariant, in parts.

\* The writer holds the permit and the two mutexes; nobody else does.
PermitInv ==
    /\ PermitAccounted
    /\ \A c \in Calls : cooling = c => pc[c] \in {"awaiting", "returned", "cancelled"}
    /\ (\A c \in Calls : pc[c] # "writing") => at = None /\ todo = {}
    /\ at \notin todo

\* Where a transaction is, by the step of its handler.
TxnInv ==
    \A c \in Calls :
        /\ pc[c] \in {"idle", "queued"} =>
              c \notin pending /\ c \notin timers /\ slot[c] = None
        /\ c \in pending => c \in timers /\ slot[c] = None
        /\ c \in FireAndForget => c \notin pending /\ c \notin timers
        /\ pc[c] = "writing" => c \in FireAndForget \/ c \in pending \/ slot[c] # None
        /\ pc[c] = "awaiting" => c \notin FireAndForget /\ (c \in pending \/ slot[c] # None)

\* A connection belongs to one app, which has at most one open.
ConnInv ==
    /\ \A k \in Conns :
          /\ owner[k] = None =>
                /\ k \notin open /\ reader[k] = "off" /\ k # at /\ k \notin todo
                /\ process[k] = None /\ inbox[k] = <<>>
          /\ k \in open => owner[k] # None /\ link[owner[k]] = k
          /\ k \notin open => outbox[k] = <<>>
          /\ k \in clients <=> reader[k] \in {"on", "ended"}
          /\ process[k] \in {None, owner[k]}
    /\ \A a \in Apps : link[a] # None => link[a] \in open /\ owner[link[a]] = a
    /\ slow \subseteq {a \in Apps : link[a] # None}

\* Before a connection is registered, its ping is the first line to read.
PingInv ==
    \A k \in Conns :
        owner[k] # None /\ process[k] = None /\ reader[k] \in {"off", "on"} =>
            inbox[k] # <<>> /\ inbox[k][1] = Ping

In(s, c)    == \E i \in 1 .. Len(s) : s[i] = c
Once(s, c)  == \A i, j \in 1 .. Len(s) : s[i] = c /\ s[j] = c => i = j
Holds(k, c) == In(outbox[k], c)

\* A call not executed yet is still to be written to the current connection of
\* its app, or is there once, or neither; an executed one is nowhere.
RunInvOf(c) ==
    /\ runs[c] <= 1
    /\ pc[c] \in {"idle", "queued"} => runs[c] = 0 /\ \A k \in Conns : ~Holds(k, c)
    /\ \A k \in Conns :
          k = link[Target[c]] =>
              /\ pc[c] = "writing" /\ (k \in todo \/ k = at) => runs[c] = 0 /\ ~Holds(k, c)
              /\ Holds(k, c) => runs[c] = 0 /\ Once(outbox[k], c)

RunInv == \A c \in Calls : RunInvOf(c)

Done == {c \in Calls : runs[c] > 0}

\* The answers among the lines s are to calls of the set done.
Backed(s, done) == \A i \in 1 .. Len(s) : s[i].type = "reply" => s[i].call \in done

\* Whatever speaks of success comes from an execution.
AnswerInv ==
    /\ \A a \in Apps : work[a] \subseteq Done
    /\ \A k \in Conns : Backed(inbox[k], Done)
    /\ \A c \in Calls : slot[c] = "ok" => c \in Done

\* A handler that returned had its outcome, unless nobody answers its action.
RetInv == \A c \in Calls : pc[c] = "returned" => c \in FireAndForget \/ slot[c] # None

----------------------------------------------------------------------------

\* The types hold initially and every action keeps them.
THEOREM Typing == Spec => []TypeOK
<1>1. Init => TypeOK
  <2> SUFFICES ASSUME Init PROVE TypeOK
    OBVIOUS
  <2>1. inbox \in [Conns -> Seq(Msg)] /\ outbox \in [Conns -> Seq(Calls \cup {Garbled})]
    BY DEF Init
  <2> QED
    BY <2>1 DEF Init, TypeOK, Steps, Outcomes
<1>2. TypeOK /\ [Next]_vars => TypeOK'
  <2> SUFFICES ASSUME TypeOK, [Next]_vars PROVE TypeOK'
    OBVIOUS
  <2> USE DEF TypeOK, Steps, Outcomes, callVars, txnVars, connVars, helpVars
  <2>1. ASSUME NEW c \in Calls, Invoke(c) PROVE TypeOK'
    BY <2>1 DEF Invoke
  <2>2. ASSUME NEW c \in Calls, Begin(c) PROVE TypeOK'
    BY <2>2 DEF Begin
  <2>3. ASSUME NEW c \in Calls, NEW k \in Conns, PickClient(c, k) PROVE TypeOK'
    BY <2>3 DEF PickClient
  <2>4. ASSUME NEW c \in Calls, NEW k \in Conns, WriteLine(c, k) PROVE TypeOK'
    BY <2>4 DEF WriteLine
  <2>5. ASSUME NEW c \in Calls, NEW k \in Conns, WriteToClosed(c, k) PROVE TypeOK'
    BY <2>5 DEF WriteToClosed
  <2>6. ASSUME NEW c \in Calls, FinishWrite(c) PROVE TypeOK'
    BY <2>6 DEF FinishWrite, Settle
  <2>7. ASSUME NEW c \in Calls, ReleasePermit(c) PROVE TypeOK'
    BY <2>7 DEF ReleasePermit
  <2>8. ASSUME NEW c \in Calls, Return(c) PROVE TypeOK'
    BY <2>8 DEF Return
  <2>9. ASSUME NEW c \in Calls, Cancel(c) PROVE TypeOK'
    BY <2>9 DEF Cancel
  <2>10. ASSUME NEW c \in Calls, Timeout(c) PROVE TypeOK'
    BY <2>10 DEF Timeout, Settle
  <2>11. ASSUME NEW k \in Conns, Accept(k) PROVE TypeOK'
    BY <2>11 DEF Accept
  <2>12. ASSUME NEW k \in Conns, ReadPing(k) PROVE TypeOK'
    BY <2>12 DEF ReadPing, Reads
  <2>13. ASSUME NEW k \in Conns, ReadReady(k) PROVE TypeOK'
    <3>1. inbox' \in [Conns -> Seq(Msg)]
      BY <2>13 DEF ReadReady, Reads
    <3>2. ready' \in [Apps -> BOOLEAN]
      BY <2>13 DEF ReadReady
    <3> QED
      BY <2>13, <3>1, <3>2 DEF ReadReady
  <2>14. ASSUME NEW k \in Conns, ReadReply(k) PROVE TypeOK'
    <3>1. inbox' \in [Conns -> Seq(Msg)]
      BY <2>14 DEF ReadReply, Reads
    <3>2. pending' \subseteq Calls /\ slot' \in [Calls -> Outcomes \cup {None}]
      BY <2>14 DEF ReadReply, Settle
    <3> QED
      BY <2>14, <3>1, <3>2 DEF ReadReply
  <2>15. ASSUME NEW k \in Conns, ReadEof(k) PROVE TypeOK'
    BY <2>15 DEF ReadEof
  <2>16. ASSUME NEW k \in Conns, RemoveClient(k) PROVE TypeOK'
    BY <2>16 DEF RemoveClient
  <2>17. ASSUME NEW a \in Apps, ClearReady(a) PROVE TypeOK'
    BY <2>17 DEF ClearReady
  <2>18. ASSUME NEW a \in Apps, NEW k \in Conns, Connect(a, k) PROVE TypeOK'
    <3>1. <<Ping>> \in Seq(Msg) /\ <<Ping, Ready>> \in Seq(Msg)
      BY DEF Msg
    <3>2. \A m \in Seq(Msg) : inbox[k] \o m \in Seq(Msg)
      BY DEF TypeOK
    <3>3. inbox' \in [Conns -> Seq(Msg)]
      BY <2>18, <3>1, <3>2 DEF Connect, Hello, Say
    <3>4. slow' \subseteq Apps
      BY <2>18 DEF Connect, Hello
    <3> QED
      BY <2>18, <3>3, <3>4 DEF Connect, Hello
  <2>19. ASSUME NEW a \in Apps, SendReady(a) PROVE TypeOK'
    <3>1. CASE link[a] \in Conns
      BY <2>19, <3>1 DEF SendReady, Say, Msg
    <3>2. CASE link[a] \notin Conns
      <4>1. inbox' = inbox
        BY <2>19, <3>2 DEF SendReady, Say
      <4> QED
        BY <2>19, <4>1 DEF SendReady
    <3> QED
      BY <3>1, <3>2
  <2>20. ASSUME NEW a \in Apps, HelperRead(a) PROVE TypeOK'
    <3> DEFINE k == link[a]
               line == Head(outbox[k])
    <3>1. k \in Conns /\ outbox[k] # <<>> /\ outbox[k] \in Seq(Calls \cup {Garbled})
      BY <2>20 DEF HelperRead, Knows
    <3>2. line \in Calls \cup {Garbled} /\ Tail(outbox[k]) \in Seq(Calls \cup {Garbled})
      BY <3>1
    <3>3. outbox' \in [Conns -> Seq(Calls \cup {Garbled})]
      BY <2>20, <3>1, <3>2 DEF HelperRead, Knows
    <3> DEFINE mine == line # Garbled /\ Target[line] = a
    <3>4. CASE mine
      <4>1. line \in Calls
        BY <3>2, <3>4
      <4>2. runs' = [runs EXCEPT ![line] = @ + 1]
        BY <2>20, <3>4 DEF HelperRead, Knows
      <4>3. runs' \in [Calls -> Nat]
        BY <4>1, <4>2
      <4>4. work' = IF line \in FireAndForget THEN work
                    ELSE [work EXCEPT ![a] = @ \cup {line}]
        BY <2>20, <3>4 DEF HelperRead, Knows
      <4>5. work' \in [Apps -> SUBSET Calls]
        BY <4>1, <4>4
      <4> QED
        BY <2>20, <3>3, <4>3, <4>5 DEF HelperRead, Knows
    <3>5. CASE ~mine
      BY <2>20, <3>3, <3>5 DEF HelperRead, Knows
    <3> QED
      BY <3>4, <3>5
  <2>21. ASSUME NEW a \in Apps, NEW c \in Calls, NEW ok \in BOOLEAN, Reply(a, c, ok)
         PROVE TypeOK'
    BY <2>21 DEF Reply, Say, Msg, ReplyMsg
  <2>22. ASSUME NEW a \in Apps, NEW c \in Calls, NoReply(a, c) PROVE TypeOK'
    BY <2>22 DEF NoReply
  <2>23. ASSUME NEW a \in Apps, NEW exits \in BOOLEAN, Disconnect(a, exits) PROVE TypeOK'
    BY <2>23 DEF Disconnect
  <2>24. CASE UNCHANGED vars
    BY <2>24 DEF vars
  <2> QED
    BY <2>1, <2>2, <2>3, <2>4, <2>5, <2>6, <2>7, <2>8, <2>9, <2>10, <2>11, <2>12,
       <2>13, <2>14, <2>15, <2>16, <2>17, <2>18, <2>19, <2>20, <2>21, <2>22, <2>23,
       <2>24 DEF Next, ServiceStep, HelperStep
<1>3. QED
  BY <1>1, <1>2, PTL DEF Spec

\* The steps of send_action are the only ones that touch its variables.
LEMMA CallFrame ==
    ASSUME [Next]_vars
    PROVE  \/ UNCHANGED callVars
           \/ \E c \in Calls :
                 \/ Invoke(c) \/ Begin(c) \/ FinishWrite(c) \/ ReleasePermit(c)
                 \/ Return(c) \/ Cancel(c)
                 \/ \E k \in Conns : PickClient(c, k) \/ WriteLine(c, k) \/ WriteToClosed(c, k)
BY DEF Next, ServiceStep, HelperStep, vars, Timeout, Accept, ReadPing, ReadReady, ReadReply,
       ReadEof, RemoveClient, ClearReady, Connect, SendReady, HelperRead, Reply, NoReply,
       Disconnect

LEMMA PermitInductive ==
    ASSUME TypeOK, PermitInv, [Next]_vars
    PROVE  PermitInv'
<1> USE NoneAssumption DEF PermitInv, PermitAccounted, TypeOK, Steps
<1>1. CASE UNCHANGED callVars
  BY <1>1 DEF callVars
<1>2. ASSUME NEW c \in Calls, Invoke(c) PROVE PermitInv'
  BY <1>2 DEF Invoke
<1>3. ASSUME NEW c \in Calls, Begin(c) PROVE PermitInv'
  BY <1>3 DEF Begin
<1>4. ASSUME NEW c \in Calls, FinishWrite(c) PROVE PermitInv'
  BY <1>4 DEF FinishWrite
<1>5. ASSUME NEW c \in Calls, ReleasePermit(c) PROVE PermitInv'
  BY <1>5 DEF ReleasePermit
<1>6. ASSUME NEW c \in Calls, Return(c) PROVE PermitInv'
  BY <1>6 DEF Return
<1>7. ASSUME NEW c \in Calls, Cancel(c) PROVE PermitInv'
  BY <1>7 DEF Cancel
<1>8. ASSUME NEW c \in Calls, NEW k \in Conns, PickClient(c, k) PROVE PermitInv'
  BY <1>8 DEF PickClient
<1>9. ASSUME NEW c \in Calls, NEW k \in Conns, WriteLine(c, k) PROVE PermitInv'
  BY <1>9 DEF WriteLine
<1>10. ASSUME NEW c \in Calls, NEW k \in Conns, WriteToClosed(c, k) PROVE PermitInv'
  BY <1>10 DEF WriteToClosed
<1> QED
  BY CallFrame, <1>1, <1>2, <1>3, <1>4, <1>5, <1>6, <1>7, <1>8, <1>9, <1>10

\* The permit is never lost and never held twice.
THEOREM PermitSafe == Spec => []PermitAccounted
<1>1. Init => PermitInv
  BY NoneAssumption DEF Init, PermitInv, PermitAccounted
<1>2. PermitInv => PermitAccounted
  BY DEF PermitInv
<1> QED
  BY <1>1, <1>2, Typing, PermitInductive, PTL DEF Spec

----------------------------------------------------------------------------

\* The transaction map, its timeout tasks and the channels change only in these.
LEMMA TxnFrame ==
    ASSUME [Next]_vars
    PROVE  \/ UNCHANGED <<pc, txnVars>>
           \/ \E c \in Calls :
                 \/ Invoke(c) \/ Begin(c) \/ FinishWrite(c) \/ Return(c) \/ Cancel(c) \/ Timeout(c)
           \/ \E k \in Conns : ReadReply(k)
BY DEF Next, ServiceStep, HelperStep, vars, callVars, Accept, ReadPing, ReadReady,
       ReadEof, RemoveClient, ClearReady, Connect, SendReady, HelperRead, Reply, NoReply,
       Disconnect, PickClient, WriteLine, WriteToClosed, ReleasePermit

\* The three ways to settle a transaction keep its invariant.
LEMMA SettleKeeps ==
    ASSUME TypeOK, TxnInv, NEW c \in Calls, NEW outcome \in Outcomes,
           Settle(c, outcome), UNCHANGED <<pc, timers>>
    PROVE  TxnInv'
BY NoneAssumption DEF TypeOK, TxnInv, Settle, Outcomes

LEMMA TxnInductive ==
    ASSUME TypeOK, TxnInv, [Next]_vars
    PROVE  TxnInv'
<1> USE NoneAssumption DEF TypeOK, TxnInv, Steps
<1>1. CASE UNCHANGED <<pc, txnVars>>
  BY <1>1 DEF txnVars
<1>2. ASSUME NEW c \in Calls, Invoke(c) PROVE TxnInv'
  BY <1>2 DEF Invoke, txnVars
<1>3. ASSUME NEW c \in Calls, Begin(c) PROVE TxnInv'
  BY <1>3 DEF Begin
<1>4. ASSUME NEW c \in Calls, FinishWrite(c) PROVE TxnInv'
  BY <1>4 DEF FinishWrite, Settle, Outcomes
<1>5. ASSUME NEW c \in Calls, Return(c) PROVE TxnInv'
  BY <1>5 DEF Return, txnVars
<1>6. ASSUME NEW c \in Calls, Cancel(c) PROVE TxnInv'
  BY <1>6 DEF Cancel, txnVars
<1>7. ASSUME NEW c \in Calls, Timeout(c) PROVE TxnInv'
  <2>1. CASE c \in pending
    BY <1>7, <2>1 DEF Timeout, Settle, callVars, Outcomes
  <2>2. CASE c \notin pending
    BY <1>7, <2>2 DEF Timeout, Settle, callVars
  <2> QED
    BY <2>1, <2>2
<1>8. ASSUME NEW k \in Conns, ReadReply(k) PROVE TxnInv'
  <2> DEFINE m == Head(inbox[k])
  <2>1. m \in Msg /\ m.type = "reply"
    BY <1>8 DEF ReadReply, Reads
  <2>2. m.call \in Calls
    BY <2>1 DEF Msg, ReplyMsg, Ping, Ready
  <2>3. PICK outcome \in Outcomes : Settle(m.call, outcome)
    BY <1>8 DEF ReadReply, Outcomes
  <2> QED
    BY <1>8, <2>2, <2>3, SettleKeeps DEF ReadReply, callVars
<1> QED
  BY TxnFrame, <1>1, <1>2, <1>3, <1>4, <1>5, <1>6, <1>7, <1>8

\* A waiting handler always has an outcome or a timeout ahead of it.
THEOREM CallersNotStranded == Spec => []NoStrandedCaller
<1>1. Init => TxnInv
  BY DEF Init, TxnInv
<1>2. TypeOK /\ TxnInv => NoStrandedCaller
  BY DEF TxnInv, NoStrandedCaller, TypeOK
<1> QED
  BY <1>1, <1>2, Typing, TxnInductive, PTL DEF Spec

\* What was sent on a channel stays there.
LEMMA OutcomeKept ==
    ASSUME TypeOK, TxnInv, [Next]_vars, NEW c \in Calls, slot[c] # None
    PROVE  slot'[c] = slot[c]
<1> USE DEF TypeOK, TxnInv
<1>1. \A d \in Calls, o \in Outcomes : Settle(d, o) => slot'[c] = slot[c]
  BY DEF Settle
<1>2. CASE \E k \in Conns : ReadReply(k)
  <2> PICK k \in Conns : ReadReply(k)
    BY <1>2
  <2>1. Head(inbox[k]) \in Msg /\ Head(inbox[k]).type = "reply"
    BY DEF ReadReply, Reads
  <2>2. Head(inbox[k]).call \in Calls
    BY <2>1 DEF Msg, ReplyMsg, Ping, Ready
  <2> QED
    BY <1>1, <2>2 DEF ReadReply, Outcomes
<1> QED
  BY <1>1, <1>2, TxnFrame
  DEF txnVars, Invoke, Begin, FinishWrite, Return, Cancel, Timeout, Outcomes

\* The first outcome of a transaction is the only one its handler can see.
THEOREM OneOutcome == Spec => SettledOnce
<1>1. Init => TxnInv
  BY DEF Init, TxnInv
<1>2. TypeOK /\ TxnInv /\ [Next]_vars
        => [\A c \in Calls : slot[c] # None => slot'[c] = slot[c]]_vars
  BY OutcomeKept
<1> QED
  BY <1>1, <1>2, Typing, TxnInductive, PTL DEF Spec, SettledOnce

----------------------------------------------------------------------------

\* The actions that move connections.
LEMMA ConnFrame ==
    ASSUME [Next]_vars
    PROVE  \/ UNCHANGED <<connVars, owner, open, link, slow, inbox, outbox, todo, at>>
           \/ \E c \in Calls :
                 \/ Begin(c) \/ Cancel(c)
                 \/ \E k \in Conns : PickClient(c, k) \/ WriteLine(c, k) \/ WriteToClosed(c, k)
           \/ \E k \in Conns :
                 \/ Accept(k) \/ ReadPing(k) \/ ReadReady(k) \/ ReadReply(k) \/ ReadEof(k)
                 \/ RemoveClient(k)
           \/ \E a \in Apps :
                 \/ ClearReady(a) \/ SendReady(a) \/ HelperRead(a)
                 \/ \E k \in Conns : Connect(a, k)
                 \/ \E c \in Calls, ok \in BOOLEAN : Reply(a, c, ok)
                 \/ \E exits \in BOOLEAN : Disconnect(a, exits)
BY DEF Next, ServiceStep, HelperStep, vars, callVars, helpVars, Timeout, NoReply, Invoke,
       FinishWrite, ReleasePermit, Return

LEMMA ConnInductive ==
    ASSUME TypeOK, ConnInv, [Next]_vars
    PROVE  ConnInv'
<1> USE NoneAssumption DEF TypeOK, ConnInv
<1>1. CASE UNCHANGED <<connVars, owner, open, link, slow, inbox, outbox, todo, at>>
  BY <1>1 DEF connVars
<1>2. ASSUME NEW c \in Calls, Begin(c) PROVE ConnInv'
  BY <1>2 DEF Begin, connVars, helpVars
<1>3. ASSUME NEW c \in Calls, Cancel(c) PROVE ConnInv'
  BY <1>3 DEF Cancel, connVars, helpVars
<1>4. ASSUME NEW c \in Calls, NEW k \in Conns, PickClient(c, k) PROVE ConnInv'
  BY <1>4 DEF PickClient, connVars, helpVars
<1>5. ASSUME NEW c \in Calls, NEW k \in Conns, WriteLine(c, k) PROVE ConnInv'
  BY <1>5 DEF WriteLine, connVars, helpVars
<1>6. ASSUME NEW c \in Calls, NEW k \in Conns, WriteToClosed(c, k) PROVE ConnInv'
  BY <1>6 DEF WriteToClosed, connVars, helpVars
<1>7. ASSUME NEW k \in Conns, Accept(k) PROVE ConnInv'
  BY <1>7 DEF Accept, callVars, helpVars
<1>8. ASSUME NEW k \in Conns, ReadPing(k) PROVE ConnInv'
  BY <1>8 DEF ReadPing, Reads, callVars, helpVars
<1>9. ASSUME NEW k \in Conns, ReadReady(k) PROVE ConnInv'
  BY <1>9 DEF ReadReady, Reads, callVars, helpVars
<1>10. ASSUME NEW k \in Conns, ReadReply(k) PROVE ConnInv'
  BY <1>10 DEF ReadReply, Reads, callVars, connVars, helpVars
<1>11. ASSUME NEW k \in Conns, ReadEof(k) PROVE ConnInv'
  BY <1>11 DEF ReadEof, callVars, helpVars
<1>12. ASSUME NEW k \in Conns, RemoveClient(k) PROVE ConnInv'
  BY <1>12 DEF RemoveClient, callVars, helpVars
<1>13. ASSUME NEW a \in Apps, ClearReady(a) PROVE ConnInv'
  BY <1>13 DEF ClearReady, callVars, helpVars
<1>14. ASSUME NEW a \in Apps, SendReady(a) PROVE ConnInv'
  <2>1. link[a] \in Conns /\ owner[link[a]] # None
    BY <1>14 DEF SendReady
  <2>2. \A j \in Conns : owner[j] = None => inbox'[j] = inbox[j]
    BY <1>14, <2>1 DEF SendReady, Say
  <2>3. UNCHANGED <<connVars, owner, open, link, outbox, todo, at>> /\ slow' \subseteq slow
    BY <1>14 DEF SendReady, callVars
  <2> QED
    BY <2>2, <2>3 DEF connVars
<1>15. ASSUME NEW a \in Apps, HelperRead(a) PROVE ConnInv'
  BY <1>15 DEF HelperRead, Knows, callVars, connVars
<1>16. ASSUME NEW a \in Apps, NEW k \in Conns, Connect(a, k) PROVE ConnInv'
  <2>2. \A j \in Conns : j # k => inbox'[j] = inbox[j]
    BY <1>16 DEF Connect, Hello, Say
  <2>3. /\ link[a] = None /\ owner[k] = None
        /\ owner' = [owner EXCEPT ![k] = a]
        /\ open' = open \cup {k}
        /\ link' = [link EXCEPT ![a] = k]
        /\ slow' \subseteq slow \cup {a}
        /\ UNCHANGED <<connVars, outbox, todo, at>>
    BY <1>16 DEF Connect, Hello, callVars
  <2> QED
    BY <2>2, <2>3 DEF connVars
<1>17. ASSUME NEW a \in Apps, NEW c \in Calls, NEW ok \in BOOLEAN, Reply(a, c, ok)
       PROVE  ConnInv'
  <2>1. link[a] \in Conns /\ owner[link[a]] # None
    BY <1>17 DEF Reply
  <2>2. \A j \in Conns : owner[j] = None => inbox'[j] = inbox[j]
    BY <1>17, <2>1 DEF Reply, Say
  <2>3. UNCHANGED <<connVars, owner, open, link, slow, outbox, todo, at>>
    BY <1>17 DEF Reply, callVars
  <2> QED
    BY <2>2, <2>3 DEF connVars
<1>18. ASSUME NEW a \in Apps, NEW exits \in BOOLEAN, Disconnect(a, exits) PROVE ConnInv'
  BY <1>18 DEF Disconnect, callVars, connVars
<1> QED
  BY ConnFrame, <1>1, <1>2, <1>3, <1>4, <1>5, <1>6, <1>7, <1>8, <1>9, <1>10, <1>11,
     <1>12, <1>13, <1>14, <1>15, <1>16, <1>17, <1>18

LEMMA ConnSafe == Spec => []ConnInv
<1>1. Init => ConnInv
  BY NoneAssumption DEF Init, ConnInv
<1> QED
  BY <1>1, Typing, ConnInductive, PTL DEF Spec

----------------------------------------------------------------------------

\* Appending to a sequence keeps what it held, at the same place.
LEMMA SayKeeps ==
    ASSUME NEW s \in Seq(Msg), NEW t \in Seq(Msg)
    PROVE  /\ s \o t \in Seq(Msg)
           /\ Len(s \o t) = Len(s) + Len(t)
           /\ \A i \in 1 .. Len(s) : (s \o t)[i] = s[i]
           /\ \A i \in 1 .. Len(t) : (s \o t)[Len(s) + i] = t[i]
           /\ s # <<>> => s \o t # <<>> /\ (s \o t)[1] = s[1]
           /\ s = <<>> => s \o t = t
OBVIOUS

\* The lines a connection may carry next, whichever action speaks or reads.
LEMMA InboxFrame ==
    ASSUME TypeOK, ConnInv, [Next]_vars
    PROVE  \A k \in Conns :
              \/ inbox'[k] = inbox[k]
              \/ Reads(k, "ping") /\ inbox'[k] = Tail(inbox[k]) /\ process'[k] = owner[k]
              \/ \E type \in {"ready", "reply"} : Reads(k, type) /\ inbox'[k] = Tail(inbox[k])
              \/ reader'[k] = "ended"
              \/ /\ k \in open \/ (owner[k] = None /\ owner'[k] # None)
                 /\ \E msgs \in Seq(Msg) :
                       /\ inbox'[k] = inbox[k] \o msgs
                       /\ owner[k] = None => msgs # <<>> /\ msgs[1] = Ping
<1> SUFFICES ASSUME NEW k \in Conns, inbox'[k] # inbox[k]
             PROVE  \/ Reads(k, "ping") /\ inbox'[k] = Tail(inbox[k]) /\ process'[k] = owner[k]
                    \/ \E type \in {"ready", "reply"} :
                          Reads(k, type) /\ inbox'[k] = Tail(inbox[k])
                    \/ reader'[k] = "ended"
                    \/ /\ k \in open \/ (owner[k] = None /\ owner'[k] # None)
                       /\ \E msgs \in Seq(Msg) :
                             /\ inbox'[k] = inbox[k] \o msgs
                             /\ owner[k] = None => msgs # <<>> /\ msgs[1] = Ping
  OBVIOUS
<1>0. inbox \in [Conns -> Seq(Msg)] /\ owner \in [Conns -> Apps \cup {None}]
      /\ process \in [Conns -> Apps \cup {None}] /\ link \in [Apps -> Conns \cup {None}]
      /\ reader \in [Conns -> {"off", "on", "ended", "gone"}]
  BY DEF TypeOK
<1>1. ASSUME NEW j \in Conns, ReadPing(j)
      PROVE  Reads(k, "ping") /\ inbox'[k] = Tail(inbox[k]) /\ process'[k] = owner[k]
  BY <1>0, <1>1 DEF ReadPing, Reads
<1>2. ASSUME NEW j \in Conns, ReadReady(j) \/ ReadReply(j)
      PROVE  \E type \in {"ready", "reply"} : Reads(k, type) /\ inbox'[k] = Tail(inbox[k])
  BY <1>0, <1>2 DEF ReadReady, ReadReply, Reads
<1>3. ASSUME NEW j \in Conns, ReadEof(j) PROVE reader'[k] = "ended"
  BY <1>0, <1>3 DEF ReadEof
<1>4. ASSUME NEW a \in Apps, SendReady(a)
      PROVE  k \in open /\ owner[k] # None /\ inbox'[k] = inbox[k] \o <<Ready>>
  <2>1. link[a] \in open /\ owner[link[a]] = a
    BY <1>0, <1>4 DEF ConnInv, SendReady
  <2> QED
    BY <1>0, <1>4, <2>1, NoneAssumption DEF SendReady, Say
<1>5. ASSUME NEW a \in Apps, NEW c \in Calls, NEW ok \in BOOLEAN, Reply(a, c, ok)
      PROVE  k \in open /\ owner[k] # None /\ inbox'[k] =
                inbox[k] \o <<[type |-> "reply", call |-> c, ok |-> ok]>>
  <2>1. link[a] \in open /\ owner[link[a]] = a
    BY <1>0, <1>5 DEF ConnInv, Reply
  <2> QED
    BY <1>0, <1>5, <2>1, NoneAssumption DEF Reply, Say
<1>6. ASSUME NEW a \in Apps, NEW j \in Conns, Connect(a, j)
      PROVE  /\ owner[k] = None /\ owner'[k] # None
             /\ inbox'[k] = inbox[k] \o <<Ping>> \/ inbox'[k] = inbox[k] \o <<Ping, Ready>>
  BY <1>0, <1>6, NoneAssumption DEF Connect, Hello, Say
<1>7. /\ <<Ready>> \in Seq(Msg)
      /\ <<Ping>> \in Seq(Msg) /\ <<Ping>>[1] = Ping /\ <<Ping>> # <<>>
      /\ <<Ping, Ready>> \in Seq(Msg) /\ <<Ping, Ready>>[1] = Ping /\ <<Ping, Ready>> # <<>>
      /\ \A c \in Calls, ok \in BOOLEAN :
            <<[type |-> "reply", call |-> c, ok |-> ok]>> \in Seq(Msg)
  BY DEF Msg, ReplyMsg
<1> QED
  BY <1>1, <1>2, <1>3, <1>4, <1>5, <1>6, <1>7, ConnFrame
  DEF Begin, Cancel, PickClient, WriteLine, WriteToClosed, Accept, RemoveClient, ClearReady,
      HelperRead, Disconnect

\* owner, process and reader change only as the connection advances.
LEMMA ConnAdvance ==
    ASSUME TypeOK, ConnInv, [Next]_vars, NEW k \in Conns
    PROVE  /\ process'[k] # process[k] => Reads(k, "ping") /\ process'[k] = owner[k]
           /\ reader'[k] \in {"off", "on"} => reader[k] \in {"off", "on"}
           /\ owner[k] # None => owner'[k] = owner[k]
<1> USE DEF TypeOK
<1>1. ASSUME NEW j \in Conns, ReadPing(j) \/ Accept(j) \/ ReadEof(j) \/ RemoveClient(j)
      PROVE  /\ process'[k] # process[k] => Reads(k, "ping") /\ process'[k] = owner[k]
             /\ reader'[k] \in {"off", "on"} => reader[k] \in {"off", "on"}
             /\ owner' = owner
  BY <1>1 DEF ReadPing, Reads, Accept, ReadEof, RemoveClient, helpVars
<1>2. ASSUME NEW a \in Apps, NEW j \in Conns, Connect(a, j)
      PROVE  /\ process' = process /\ reader' = reader
             /\ owner[k] # None => owner'[k] = owner[k]
  BY <1>2 DEF Connect, Hello, connVars
<1>3. \/ process' = process /\ reader' = reader /\ owner' = owner
      \/ \E j \in Conns : ReadPing(j) \/ Accept(j) \/ ReadEof(j) \/ RemoveClient(j)
      \/ \E a \in Apps, j \in Conns : Connect(a, j)
  BY ConnFrame
  DEF Begin, Cancel, PickClient, WriteLine, WriteToClosed, ReadReady, ReadReply, ClearReady,
      SendReady, HelperRead, Reply, Disconnect, connVars, helpVars
<1> QED
  BY <1>1, <1>2, <1>3

LEMMA PingInductive ==
    ASSUME TypeOK, ConnInv, PingInv, [Next]_vars
    PROVE  PingInv'
<1> SUFFICES ASSUME NEW k \in Conns,
                    owner'[k] # None, process'[k] = None, reader'[k] \in {"off", "on"}
             PROVE  inbox'[k] # <<>> /\ inbox'[k][1] = Ping
  BY DEF PingInv
<1>1. /\ inbox[k] \in Seq(Msg) /\ process[k] \in Apps \cup {None}
      /\ owner[k] \in Apps \cup {None}
  BY DEF TypeOK
<1>2. CASE owner[k] = None
  <2>1. inbox[k] = <<>> /\ k \notin open
    BY <1>2 DEF ConnInv
  <2>2. inbox'[k] # inbox[k]
    <3>1. PICK a \in Apps, j \in Conns : Connect(a, j)
      BY <1>2, ConnFrame
      DEF Begin, Cancel, PickClient, WriteLine, WriteToClosed, Accept, ReadPing, ReadReady,
          ReadReply, ReadEof, RemoveClient, ClearReady, SendReady, HelperRead, Reply,
          Disconnect, helpVars
    <3>2. j = k
      BY <1>2, <3>1 DEF Connect, Hello, TypeOK
    <3>3. inbox'[k] = inbox[k] \o <<Ping>> \/ inbox'[k] = inbox[k] \o <<Ping, Ready>>
      BY <3>1, <3>2 DEF Connect, Hello, Say, TypeOK
    <3>4. <<Ping>> \in Seq(Msg) /\ <<Ping, Ready>> \in Seq(Msg)
      BY DEF Msg
    <3> QED
      BY <2>1, <3>3, <3>4, SayKeeps
  <2>3. PICK msgs \in Seq(Msg) :
           inbox'[k] = inbox[k] \o msgs /\ msgs # <<>> /\ msgs[1] = Ping
    BY <1>2, <2>1, <2>2, InboxFrame DEF Reads
  <2> QED
    BY <1>1, <2>1, <2>3, SayKeeps
<1>3. CASE owner[k] # None
  <2>1. process[k] = None \/ Reads(k, "ping")
    BY <1>1, <1>3, ConnAdvance, NoneAssumption
  <2>2. process[k] = None /\ reader[k] \in {"off", "on"}
    BY <1>1, <1>3, <2>1, ConnAdvance, NoneAssumption
  <2>3. inbox[k] # <<>> /\ inbox[k][1] = Ping
    BY <1>3, <2>2 DEF PingInv
  <2>4. ~ \E type \in {"ready", "reply"} : Reads(k, type)
    BY <1>1, <2>3 DEF Reads, Ping
  <2>5. inbox'[k] = inbox[k] \/ \E msgs \in Seq(Msg) : inbox'[k] = inbox[k] \o msgs
    BY <1>1, <1>3, <2>4, InboxFrame, NoneAssumption
  <2> QED
    BY <1>1, <2>3, <2>5, SayKeeps
<1> QED
  BY <1>2, <1>3

LEMMA ReadyInductive ==
    ASSUME TypeOK, ConnInv, PingInv, ReadyImpliesClient, [Next]_vars
    PROVE  ReadyImpliesClient'
<1> USE DEF TypeOK, ReadyImpliesClient
<1>1. ASSUME NEW k \in Conns, ReadReady(k) PROVE ReadyImpliesClient'
  <2>1. inbox[k] # <<>> /\ inbox[k][1] # Ping /\ reader[k] = "on"
    BY <1>1 DEF ReadReady, Reads, Ping
  <2>2. owner[k] # None /\ k \in clients
    BY <2>1 DEF ConnInv
  <2>3. process[k] = owner[k]
    BY <2>1, <2>2 DEF PingInv, ConnInv
  <2> QED
    BY <1>1, <2>1, <2>2, <2>3 DEF ReadReady
<1>2. ASSUME NEW k \in Conns, ReadEof(k) PROVE ReadyImpliesClient'
  BY <1>2 DEF ReadEof
<1>3. ASSUME NEW k \in Conns, Accept(k) PROVE ReadyImpliesClient'
  BY <1>3 DEF Accept
<1>4. ASSUME NEW k \in Conns, ReadPing(k) PROVE ReadyImpliesClient'
  <2>1. \A j \in Conns, a \in Apps : process[j] = a => process'[j] = a
    BY <1>4, NoneAssumption DEF ReadPing, ConnInv
  <2> QED
    BY <1>4, <2>1 DEF ReadPing
<1>5. ASSUME NEW k \in Conns, RemoveClient(k) PROVE ReadyImpliesClient'
  BY <1>5 DEF RemoveClient
<1>6. ASSUME NEW a \in Apps, ClearReady(a) PROVE ReadyImpliesClient'
  BY <1>6 DEF ClearReady
<1>7. CASE UNCHANGED connVars
  BY <1>7 DEF connVars
<1>8. UNCHANGED connVars \/ (\E k \in Conns : ReadReady(k) \/ ReadEof(k) \/ Accept(k)
         \/ ReadPing(k) \/ RemoveClient(k)) \/ \E a \in Apps : ClearReady(a)
  BY ConnFrame DEF Begin, Cancel, PickClient, WriteLine, WriteToClosed, ReadReply, SendReady,
       HelperRead, Reply, Disconnect, Connect
<1> QED
  BY <1>1, <1>2, <1>3, <1>4, <1>5, <1>6, <1>7, <1>8

\* A raised readiness flag always has a registered client behind it.
THEOREM ReadySound == Spec => []ReadyImpliesClient
<1>1. Init => PingInv /\ ReadyImpliesClient
  BY DEF Init, PingInv, ReadyImpliesClient
<1> QED
  BY <1>1, Typing, ConnSafe, PingInductive, ReadyInductive, PTL DEF Spec

----------------------------------------------------------------------------

LEMMA AppendOnce ==
    ASSUME NEW S, NEW s \in Seq(S), NEW e \in S, NEW c
    PROVE  /\ c # e => (In(Append(s, e), c) <=> In(s, c))
           /\ c # e => (Once(Append(s, e), c) <=> Once(s, c))
           /\ ~In(s, c) => Once(Append(s, e), c)
<1> DEFINE t == Append(s, e)
<1>1. /\ Len(s) \in Nat /\ Len(t) = Len(s) + 1 /\ t[Len(s) + 1] = e
      /\ \A i \in 1 .. Len(s) : t[i] = s[i]
  OBVIOUS
<1> HIDE DEF t
<1>2. c # e => \A i \in 1 .. Len(t) : t[i] = c => i \in 1 .. Len(s) /\ s[i] = c
  BY <1>1
<1>3. \A i \in 1 .. Len(s) : i \in 1 .. Len(t)
  BY <1>1
<1>4. ~In(s, c) => \A i \in 1 .. Len(t) : t[i] = c => i = Len(s) + 1
  BY <1>1 DEF In
<1> QED
  BY <1>1, <1>2, <1>3, <1>4 DEF In, Once, t

LEMMA TailOnce ==
    ASSUME NEW S, NEW s \in Seq(S), s # <<>>, NEW c
    PROVE  /\ Tail(s) \in Seq(S)
           /\ In(Tail(s), c) => In(s, c)
           /\ Once(s, c) => Once(Tail(s), c)
           /\ Head(s) = c => In(s, c)
           /\ Head(s) = c /\ Once(s, c) => ~In(Tail(s), c)
<1> DEFINE t == Tail(s)
<1>1. /\ t \in Seq(S) /\ Len(s) \in Nat \ {0} /\ Len(t) = Len(s) - 1 /\ Head(s) = s[1]
      /\ \A i \in 1 .. Len(s) - 1 : t[i] = s[i + 1]
  OBVIOUS
<1> HIDE DEF t
<1>2. \A i \in 1 .. Len(t) : t[i] = c => i + 1 \in 1 .. Len(s) /\ s[i + 1] = c /\ i + 1 # 1
  BY <1>1
<1>3. 1 \in 1 .. Len(s)
  BY <1>1
<1>4. Once(s, c) => Once(t, c)
  <2> SUFFICES ASSUME Once(s, c), NEW i \in 1 .. Len(t), NEW j \in 1 .. Len(t), t[i] = c, t[j] = c
               PROVE  i = j
    BY DEF Once
  <2>1. i + 1 = j + 1
    BY <1>2 DEF Once
  <2> QED
    BY <2>1, <1>1
<1>5. In(t, c) => In(s, c)
  BY <1>2 DEF In
<1>6. Head(s) = c /\ Once(s, c) => ~In(t, c)
  BY <1>1, <1>2, <1>3 DEF In, Once
<1>7. Head(s) = c => In(s, c)
  BY <1>1, <1>3 DEF In
<1> QED
  BY <1>1, <1>4, <1>5, <1>6, <1>7 DEF t

LEMMA EmptyOnce == \A c : ~In(<<>>, c) /\ Once(<<>>, c)
BY DEF In, Once

\* A step that executes nothing, writes nothing and moves no call or connection
\* towards the writing loop keeps RunInvOf.
LEMMA RunKeeps ==
    ASSUME NEW c \in Calls, RunInvOf(c),
           runs'[c] = runs[c],
           pc'[c] \in {"idle", "queued"} => pc[c] \in {"idle", "queued"},
           \A k \in Conns : /\ k = link'[Target[c]] => k = link[Target[c]] \/ ~Holds(k, c)'
                            /\ Holds(k, c)' => Holds(k, c)
                            /\ Once(outbox[k], c) => Once(outbox[k], c)'
                            /\ k = link'[Target[c]] /\ pc'[c] = "writing" /\ (k \in todo' \/ k = at')
                                  => pc[c] = "writing" /\ (k \in todo \/ k = at)
                                     /\ k = link[Target[c]]
    PROVE  RunInvOf(c)'
BY DEF RunInvOf

\* Only these touch what RunInv speaks of.
LEMMA RunFrame ==
    ASSUME [Next]_vars
    PROVE  \/ UNCHANGED <<pc, todo, at, link, outbox, runs>>
           \/ \E c \in Calls :
                 \/ Invoke(c) \/ Begin(c) \/ FinishWrite(c) \/ Return(c) \/ Cancel(c)
                 \/ \E k \in Conns : PickClient(c, k) \/ WriteLine(c, k) \/ WriteToClosed(c, k)
           \/ \E a \in Apps :
                 \/ HelperRead(a) \/ (\E k \in Conns : Connect(a, k))
                 \/ \E exits \in BOOLEAN : Disconnect(a, exits)
BY DEF Next, ServiceStep, HelperStep, vars, callVars, helpVars, Timeout, Accept, ReadPing,
       ReadReady, ReadReply, ReadEof, RemoveClient, ClearReady, SendReady, Reply, NoReply,
       ReleasePermit

LEMMA RunInductive ==
    ASSUME TypeOK, PermitInv, ConnInv, RunInv, [Next]_vars
    PROVE  RunInv'
<1> SUFFICES ASSUME NEW c \in Calls PROVE RunInvOf(c)'
  BY DEF RunInv
<1>0. RunInvOf(c) /\ Target[c] \in Apps
  BY CallsAssumption DEF RunInv
<1>s. ASSUME UNCHANGED outbox
      PROVE  \A k \in Conns : (Holds(k, c)' <=> Holds(k, c)) /\ (Once(outbox[k], c)' <=> Once(outbox[k], c))
  BY <1>s DEF Holds
<1>p. \A k \in Conns : /\ Holds(k, c)' <=> In(outbox'[k], c)
                       /\ Once(outbox[k], c)' <=> Once(outbox'[k], c)
  BY DEF Holds, In, Once
<1>1. CASE UNCHANGED <<pc, todo, at, link, outbox, runs>>
  BY <1>0, <1>1, <1>s, RunKeeps
<1>2. ASSUME NEW d \in Calls, Invoke(d) \/ FinishWrite(d) \/ Return(d) PROVE RunInvOf(c)'
  <2>1. /\ UNCHANGED <<todo, at, link, outbox, runs>>
        /\ pc'[c] \in {"idle", "queued"} => pc[c] \in {"idle", "queued"}
        /\ pc'[c] = "writing" => pc[c] = "writing"
    BY <1>2 DEF Invoke, FinishWrite, Return, helpVars, TypeOK
  <2> QED
    BY <1>0, <1>s, <2>1, RunKeeps
<1>3. ASSUME NEW d \in Calls, Begin(d) PROVE RunInvOf(c)'
  <2>1. /\ UNCHANGED <<at, link, outbox, runs>> /\ pc[d] = "queued" /\ permit = None
        /\ pc' = [pc EXCEPT ![d] = "writing"] /\ pc \in [Calls -> Steps]
    BY <1>3 DEF Begin, helpVars, TypeOK
  <2>2. CASE c = d
    BY <1>0, <1>s, <2>1, <2>2 DEF RunInvOf
  <2>3. CASE c # d
    <3>1. pc'[c] = pc[c] /\ pc[c] # "writing"
      BY <2>1, <2>3, NoneAssumption DEF PermitInv, PermitAccounted
    <3> QED
      BY <1>0, <1>s, <2>1, <3>1, RunKeeps
  <2> QED
    BY <2>2, <2>3
<1>4. ASSUME NEW d \in Calls, Cancel(d) PROVE RunInvOf(c)'
  <2>1. /\ UNCHANGED <<link, outbox, runs>>
        /\ pc'[c] \in {"idle", "queued"} => pc[c] \in {"idle", "queued"}
        /\ pc'[c] = "writing" => pc[c] = "writing" /\ pc[d] # "writing"
    BY <1>4 DEF Cancel, helpVars, TypeOK, PermitInv, PermitAccounted
  <2>2. pc[d] # "writing" => UNCHANGED <<todo, at>>
    BY <1>4 DEF Cancel
  <2> QED
    BY <1>0, <1>s, <2>1, <2>2, RunKeeps
<1>5. ASSUME NEW d \in Calls, NEW k \in Conns, PickClient(d, k) \/ WriteToClosed(d, k)
      PROVE  RunInvOf(c)'
  <2>1. /\ UNCHANGED <<pc, link, outbox, runs>>
        /\ \A j \in Conns : j \in todo' \/ j = at' => j \in todo \/ j = at
    BY <1>5, NoneAssumption DEF PickClient, WriteToClosed, helpVars
  <2> QED
    BY <1>0, <1>s, <2>1, RunKeeps
<1>7. ASSUME NEW d \in Calls, NEW k \in Conns, WriteLine(d, k) PROVE RunInvOf(c)'
  <2> DEFINE line == IF torn[k] THEN Garbled ELSE d
  <2>1. /\ pc[d] = "writing" /\ at = k /\ at' = None /\ k \notin todo
        /\ outbox' = [outbox EXCEPT ![k] = Append(outbox[k], line)]
        /\ UNCHANGED <<pc, todo, link, runs>>
    BY <1>7 DEF WriteLine, PermitInv, helpVars
  <2>2. outbox'[k] = Append(outbox[k], line) /\ \A j \in Conns : j # k => outbox'[j] = outbox[j]
    BY <2>1 DEF TypeOK
  <2>3. \A e : /\ e # line => (In(outbox'[k], e) <=> In(outbox[k], e))
               /\ e # line => (Once(outbox'[k], e) <=> Once(outbox[k], e))
               /\ ~In(outbox[k], e) => Once(outbox'[k], e)
    <3>1. outbox[k] \in Seq(Calls \cup {Garbled}) /\ line \in Calls \cup {Garbled}
      BY DEF TypeOK
    <3> HIDE DEF line
    <3> QED
      BY <2>2, <3>1, AppendOnce
  <2>4. \A j \in Conns : j # k => (Holds(j, c)' <=> Holds(j, c)) /\ (Once(outbox[j], c)' <=> Once(outbox[j], c))
    BY <2>2 DEF Holds
  <2>5. CASE line # c
    <3>1. (Holds(k, c)' <=> Holds(k, c)) /\ (Once(outbox[k], c)' <=> Once(outbox[k], c))
      BY <2>3, <2>5 DEF Holds
    <3>2. \A j \in Conns : j \in todo' \/ j = at' => j \in todo \/ j = at
      BY <2>1, NoneAssumption
    <3> QED
      BY <1>0, <2>1, <2>4, <3>1, <3>2, RunKeeps
  <2>6. CASE line = c
    <3>1. pc[c] = "writing" /\ d = c
      BY <2>1, <2>6, NoneAssumption
    <3>2. k = link[Target[c]] => runs[c] = 0 /\ ~Holds(k, c)
      BY <1>0, <2>1, <3>1 DEF RunInvOf
    <3>3. ~Holds(k, c) => Once(outbox[k], c)'
      BY <2>3 DEF Holds
    <3>4. \A j \in Conns : j \in todo' \/ j = at' => j # k /\ j \in todo
      BY <2>1, NoneAssumption
    <3> QED
      BY <1>0, <2>1, <2>4, <3>1, <3>2, <3>3, <3>4 DEF RunInvOf
  <2> QED
    BY <2>5, <2>6
<1>8. ASSUME NEW a \in Apps, HelperRead(a) PROVE RunInvOf(c)'
  <2>k. link[a] \in Conns
    BY <1>8 DEF HelperRead, Knows, TypeOK
  <2> PICK k \in Conns : k = link[a]
    BY <2>k
  <2>1. /\ k = link[a] /\ outbox[k] # <<>> /\ outbox[k] \in Seq(Calls \cup {Garbled})
        /\ outbox' = [outbox EXCEPT ![k] = Tail(outbox[k])]
        /\ UNCHANGED <<pc, todo, at, link>>
    BY <1>8 DEF HelperRead, Knows, callVars, TypeOK
  <2>2. outbox'[k] = Tail(outbox[k]) /\ \A j \in Conns : j # k => outbox'[j] = outbox[j]
    BY <2>1 DEF TypeOK
  <2>3. /\ In(outbox'[k], c) => In(outbox[k], c)
        /\ Once(outbox[k], c) => Once(outbox'[k], c)
        /\ Head(outbox[k]) = c => In(outbox[k], c)
        /\ Head(outbox[k]) = c /\ Once(outbox[k], c) => ~In(outbox'[k], c)
    BY <2>1, <2>2, TailOnce
  <2>4. \A j \in Conns : j # k => (Holds(j, c)' <=> Holds(j, c)) /\ (Once(outbox[j], c)' <=> Once(outbox[j], c))
    BY <2>2 DEF Holds
  <2>h. Holds(k, c)' => Holds(k, c)
    BY <1>p, <2>1, <2>3 DEF Holds
  <2>o. Once(outbox[k], c) => Once(outbox[k], c)'
    BY <1>p, <2>1, <2>3
  <2>5. CASE Head(outbox[k]) = c /\ Target[c] = a
    <3>1. Holds(k, c)
      BY <2>3, <2>5 DEF Holds
    <3>2. runs[c] = 0 /\ Once(outbox[k], c) /\ k = link[Target[c]]
      BY <1>0, <2>1, <2>5, <3>1 DEF RunInvOf
    <3>3. ~Holds(k, c)'
      BY <1>p, <2>1, <2>3, <2>5, <3>2
    <3>4. runs'[c] = 1
      BY <1>8, <2>5, <3>2, NoneAssumption DEF HelperRead, Knows, TypeOK
    <3>5. pc[c] \notin {"idle", "queued"} /\ ~(pc[c] = "writing" /\ (k \in todo \/ k = at))
      BY <1>0, <2>1, <3>1, <3>2 DEF RunInvOf
    <3> QED
      BY <2>1, <2>5, <3>3, <3>4, <3>5 DEF RunInvOf
  <2>6. CASE ~(Head(outbox[k]) = c /\ Target[c] = a)
    <3>1. runs'[c] = runs[c]
      BY <1>8, <2>6 DEF HelperRead, Knows, TypeOK
    <3> QED
      BY <1>0, <2>1, <2>4, <2>h, <2>o, <3>1, RunKeeps
  <2> QED
    BY <2>5, <2>6
<1>9. ASSUME NEW a \in Apps, NEW k \in Conns, Connect(a, k) PROVE RunInvOf(c)'
  <2>1. k \notin todo /\ k # at /\ outbox[k] = <<>>
    BY <1>9 DEF Connect, Hello, ConnInv
  <2>2. UNCHANGED <<pc, todo, at, outbox, runs>> /\ link' = [link EXCEPT ![a] = k]
    BY <1>9 DEF Connect, Hello, callVars
  <2>3. ~Holds(k, c)'
    BY <2>1, <2>2, EmptyOnce DEF Holds
  <2>4. \A j \in Conns : j = link'[Target[c]] => j = link[Target[c]] \/ j = k
    BY <1>0, <2>2 DEF TypeOK
  <2> QED
    BY <1>0, <1>s, <2>1, <2>2, <2>3, <2>4, RunKeeps
<1>10. ASSUME NEW a \in Apps, NEW exits \in BOOLEAN, Disconnect(a, exits) PROVE RunInvOf(c)'
  <2> DEFINE k == link[a]
  <2>1. /\ UNCHANGED <<pc, todo, at, runs>> /\ link' = [link EXCEPT ![a] = None]
        /\ outbox' = [outbox EXCEPT ![k] = <<>>]
    BY <1>10 DEF Disconnect, callVars
  <2>2. \A j \in Conns : j = link'[Target[c]] => j = link[Target[c]]
    BY <1>0, <2>1, NoneAssumption DEF TypeOK
  <2>3. \A j \in Conns : outbox'[j] = outbox[j] \/ outbox'[j] = <<>>
    BY <2>1 DEF TypeOK
  <2>4. \A j \in Conns : (Holds(j, c)' => Holds(j, c)) /\ (Once(outbox[j], c) => Once(outbox[j], c)')
    BY <2>3, EmptyOnce DEF Holds
  <2> QED
    BY <1>0, <2>1, <2>2, <2>4, RunKeeps
<1> QED
  BY RunFrame, <1>1, <1>2, <1>3, <1>4, <1>5, <1>7, <1>8, <1>9, <1>10

LEMMA RunSafe == Spec => []RunInv
<1>1. Init => RunInv
  <2>1. Init => \A c \in Calls : runs[c] = 0
    BY DEF Init
  <2>2. Init => \A k \in Conns : outbox[k] = <<>>
    BY DEF Init
  <2>3. \A k \in Conns, c \in Calls : outbox[k] = <<>> => ~In(outbox[k], c)
    BY DEF In
  <2>4. Init => \A c \in Calls : \A k \in Conns : ~Holds(k, c)
    BY <2>2, <2>3 DEF Holds
  <2>5. \A c \in Calls : runs[c] = 0 => runs[c] <= 1
    OBVIOUS
  <2> QED
    BY <2>1, <2>4, <2>5 DEF RunInv, RunInvOf
<1>2. Init => PermitInv
  BY NoneAssumption DEF Init, PermitInv, PermitAccounted
<1> QED
  BY <1>1, <1>2, Typing, PermitInductive, ConnSafe, RunInductive, PTL DEF Spec

\* However often an app restarts and reconnects, no action is executed twice.
THEOREM ExecutedOnce == Spec => []AtMostOnce
<1>1. RunInv => AtMostOnce
  BY DEF RunInv, RunInvOf, AtMostOnce
<1> QED
  BY <1>1, RunSafe, PTL

----------------------------------------------------------------------------

LEMMA BackedKeeps ==
    ASSUME NEW D, NEW s \in Seq(Msg), Backed(s, D)
    PROVE  /\ \A t \in Seq(Msg) : Backed(t, D) => Backed(s \o t, D)
           /\ s # <<>> => Tail(s) \in Seq(Msg) /\ Backed(Tail(s), D)
           /\ s # <<>> /\ Head(s).type = "reply" => Head(s).call \in D
<1>1. ASSUME NEW t \in Seq(Msg), Backed(t, D) PROVE Backed(s \o t, D)
  <2>1. /\ Len(s) \in Nat /\ Len(t) \in Nat /\ Len(s \o t) = Len(s) + Len(t)
        /\ \A i \in 1 .. Len(s) : (s \o t)[i] = s[i]
        /\ \A i \in 1 .. Len(t) : (s \o t)[Len(s) + i] = t[i]
    BY <1>1
  <2>2. ASSUME NEW i \in 1 .. Len(s \o t)
        PROVE  (s \o t)[i].type = "reply" => (s \o t)[i].call \in D
    <3>1. CASE i \in 1 .. Len(s)
      BY <2>1, <3>1 DEF Backed
    <3>2. CASE i \notin 1 .. Len(s)
      <4>1. i - Len(s) \in 1 .. Len(t) /\ Len(s) + (i - Len(s)) = i
        BY <2>1, <3>2
      <4>2. (s \o t)[i] = t[i - Len(s)]
        BY <2>1, <4>1
      <4> QED
        BY <1>1, <4>1, <4>2 DEF Backed
    <3> QED
      BY <3>1, <3>2
  <2> QED
    BY <2>2 DEF Backed
<1>2. ASSUME s # <<>>
      PROVE  /\ Tail(s) \in Seq(Msg) /\ Backed(Tail(s), D)
             /\ Head(s).type = "reply" => Head(s).call \in D
  <2>1. /\ Tail(s) \in Seq(Msg) /\ Len(s) \in Nat \ {0} /\ Len(Tail(s)) = Len(s) - 1
        /\ Head(s) = s[1] /\ \A i \in 1 .. Len(s) - 1 : Tail(s)[i] = s[i + 1]
    BY <1>2
  <2>2. 1 \in 1 .. Len(s) /\ \A i \in 1 .. Len(s) - 1 : i + 1 \in 1 .. Len(s)
    BY <2>1
  <2> QED
    BY <2>1, <2>2 DEF Backed
<1> QED
  BY <1>1, <1>2

LEMMA BackedGrows ==
    ASSUME NEW D, NEW E, D \subseteq E, NEW s, Backed(s, D)
    PROVE  Backed(s, E)
BY DEF Backed

\* What was executed stays executed.
LEMMA DoneGrows ==
    ASSUME TypeOK, [Next]_vars
    PROVE  Done \subseteq Done'
<1>1. ASSUME NEW a \in Apps, HelperRead(a) PROVE \A c \in Calls : runs[c] > 0 => runs'[c] > 0
  BY <1>1 DEF HelperRead, Knows, TypeOK
<1>2. UNCHANGED runs \/ \E a \in Apps : HelperRead(a)
  BY RunFrame DEF Invoke, Begin, FinishWrite, Return, Cancel, PickClient, WriteLine,
       WriteToClosed, Connect, Disconnect, helpVars
<1> QED
  BY <1>1, <1>2 DEF Done

\* Every line a helper adds is backed by an execution.
LEMMA InboxBacked ==
    ASSUME TypeOK, AnswerInv, [Next]_vars, NEW k \in Conns
    PROVE  Backed(inbox'[k], Done)
<1> DEFINE B == Backed(inbox'[k], Done)
<1>0. inbox \in [Conns -> Seq(Msg)] /\ inbox[k] \in Seq(Msg) /\ Backed(inbox[k], Done)
  BY DEF TypeOK, AnswerInv
<1>1. CASE inbox'[k] = inbox[k]
  BY <1>0, <1>1
<1>2. ASSUME NEW j \in Conns, ReadPing(j) \/ ReadReady(j) \/ ReadReply(j) PROVE B
  <2>1. inbox'[k] = inbox[k] \/ (inbox[k] # <<>> /\ inbox'[k] = Tail(inbox[k]))
    BY <1>0, <1>2 DEF ReadPing, ReadReady, ReadReply, Reads
  <2> QED
    BY <1>0, <2>1, BackedKeeps
<1>3. ASSUME NEW j \in Conns, ReadEof(j) PROVE B
  <2>1. inbox'[k] = inbox[k] \/ inbox'[k] = <<>>
    BY <1>0, <1>3 DEF ReadEof
  <2>2. Backed(<<>>, Done)
    BY DEF Backed
  <2> QED
    BY <1>0, <2>1, <2>2
<1>4. ASSUME NEW msgs \in Seq(Msg), NEW j \in Conns \cup {None}, Say(j, msgs), Backed(msgs, Done)
      PROVE  B
  <2>1. inbox'[k] = inbox[k] \/ inbox'[k] = inbox[k] \o msgs
    BY <1>0, <1>4 DEF Say
  <2>2. Backed(inbox[k] \o msgs, Done)
    BY <1>0, <1>4, BackedKeeps
  <2> QED
    BY <1>0, <2>1, <2>2
<1>5. /\ <<Ready>> \in Seq(Msg) /\ <<Ping>> \in Seq(Msg) /\ <<Ping, Ready>> \in Seq(Msg)
      /\ \A c \in Calls, ok \in BOOLEAN :
            <<[type |-> "reply", call |-> c, ok |-> ok]>> \in Seq(Msg)
  BY DEF Msg, ReplyMsg
<1>6. Backed(<<Ready>>, Done) /\ Backed(<<Ping>>, Done) /\ Backed(<<Ping, Ready>>, Done)
  BY DEF Backed, Ping, Ready
<1>7. ASSUME NEW a \in Apps, SendReady(a) PROVE B
  BY <1>4, <1>5, <1>6, <1>7 DEF SendReady, TypeOK
<1>8. ASSUME NEW a \in Apps, NEW j \in Conns, Connect(a, j) PROVE B
  BY <1>4, <1>5, <1>6, <1>8 DEF Connect, Hello
<1>9. ASSUME NEW a \in Apps, NEW c \in Calls, NEW ok \in BOOLEAN, Reply(a, c, ok) PROVE B
  <2>1. c \in Done
    BY <1>9 DEF Reply, AnswerInv
  <2>2. Backed(<<[type |-> "reply", call |-> c, ok |-> ok]>>, Done)
    BY <2>1 DEF Backed
  <2> QED
    BY <1>4, <1>5, <1>9, <2>2 DEF Reply, TypeOK
<1> QED
  BY <1>1, <1>2, <1>3, <1>7, <1>8, <1>9, ConnFrame
  DEF Begin, Cancel, PickClient, WriteLine, WriteToClosed, Accept, RemoveClient, ClearReady,
      HelperRead, Disconnect

LEMMA AnswerInductive ==
    ASSUME TypeOK, AnswerInv, [Next]_vars
    PROVE  AnswerInv'
<1>1. Done \subseteq Done'
  BY DoneGrows
<1>2. \A k \in Conns : Backed(inbox[k], Done)'
  BY <1>1, InboxBacked, BackedGrows DEF Backed
<1>3. \A a \in Apps : work'[a] \subseteq Done'
  <2>1. ASSUME NEW a \in Apps, NEW b \in Apps, HelperRead(b) PROVE work'[a] \subseteq Done'
    <3>0. /\ work \in [Apps -> SUBSET Calls] /\ runs \in [Calls -> Nat]
          /\ outbox \in [Conns -> Seq(Calls \cup {Garbled})] /\ link[b] \in Conns
      BY <2>1 DEF HelperRead, Knows, TypeOK
    <3> DEFINE line == Head(outbox[link[b]])
    <3>l. line \in Calls \cup {Garbled}
      BY <2>1, <3>0 DEF HelperRead, Knows
    <3>3. \/ UNCHANGED work
          \/ /\ line \in Calls /\ runs' = [runs EXCEPT ![line] = @ + 1]
             /\ work' = [work EXCEPT ![b] = @ \cup {line}]
      BY <2>1, <3>l DEF HelperRead, Knows
    <3> HIDE DEF line
    <3>4. line \in Calls /\ runs' = [runs EXCEPT ![line] = @ + 1] => runs'[line] > 0
      BY <3>0
    <3>5. work'[a] \subseteq work[a] \/ (line \in Calls /\ work'[a] \subseteq work[a] \cup {line})
      BY <3>0, <3>3
    <3>1. \A c \in Calls : c \in work'[a] => c \in work[a] \/ runs'[c] > 0
      BY <3>3, <3>4, <3>5
    <3>2. work'[a] \subseteq Calls
      BY <3>0, <3>5
    <3> QED
      BY <1>1, <3>1, <3>2 DEF Done, AnswerInv
  <2>2. \A a \in Apps : work'[a] \subseteq work[a] \/ \E b \in Apps : HelperRead(b)
    <3>1. work \in [Apps -> SUBSET Calls]
      BY DEF TypeOK
    <3>2. \/ UNCHANGED work \/ \E b \in Apps : HelperRead(b)
          \/ \E b \in Apps, c \in Calls : work' = [work EXCEPT ![b] = @ \ {c}]
          \/ \E b \in Apps : work' = [work EXCEPT ![b] = {}]
      BY DEF Next, ServiceStep, HelperStep, vars, helpVars, Invoke, Begin, FinishWrite,
             ReleasePermit, Return, Cancel, Timeout, PickClient, WriteLine, WriteToClosed,
             Accept, ReadPing, ReadReady, ReadReply, ReadEof, RemoveClient, ClearReady,
             Connect, SendReady, Reply, NoReply, Disconnect
    <3> QED
      BY <3>1, <3>2
  <2> QED
    BY <1>1, <2>1, <2>2 DEF AnswerInv
<1>4. \A c \in Calls : slot'[c] = "ok" => c \in Done'
  <2>1. ASSUME NEW k \in Conns, ReadReply(k), NEW c \in Calls, slot'[c] = "ok" PROVE c \in Done
    <3>1. inbox[k] \in Seq(Msg) /\ Backed(inbox[k], Done) /\ inbox[k] # <<>>
          /\ Head(inbox[k]).type = "reply"
      BY <2>1 DEF ReadReply, Reads, TypeOK, AnswerInv
    <3>2. Head(inbox[k]).call \in Done
      BY <3>1, BackedKeeps
    <3>3. slot[c] = "ok" \/ c = Head(inbox[k]).call
      BY <2>1 DEF ReadReply, Settle, TypeOK
    <3> QED
      BY <3>2, <3>3 DEF AnswerInv
  <2>2. \A c \in Calls : slot'[c] = "ok" => slot[c] = "ok" \/ \E k \in Conns : ReadReply(k)
    <3>1. ASSUME NEW d \in Calls, NEW o \in {"no_clients", "timeout"}, Settle(d, o)
          PROVE  \A c \in Calls : slot'[c] = "ok" => slot[c] = "ok"
      BY <3>1 DEF Settle, TypeOK
    <3>2. \/ slot' = slot \/ \E k \in Conns : ReadReply(k)
          \/ \E d \in Calls, o \in {"no_clients", "timeout"} : Settle(d, o)
      BY TxnFrame DEF txnVars, Invoke, Begin, FinishWrite, Return, Cancel, Timeout
    <3> QED
      BY <3>1, <3>2
  <2> QED
    BY <1>1, <2>1, <2>2 DEF AnswerInv
<1> QED
  BY <1>2, <1>3, <1>4 DEF AnswerInv

LEMMA AnswerSafe == Spec => []AnswerInv
<1>1. Init => AnswerInv
  BY NoneAssumption DEF Init, AnswerInv, Backed, Outcomes
<1> QED
  BY <1>1, Typing, AnswerInductive, PTL DEF Spec

\* Success is only reported for an action a helper executed.
THEOREM AnswersHonest == Spec => []AnswerIsOwn
<1>1. AnswerInv => AnswerIsOwn
  BY DEF AnswerInv, AnswerIsOwn, Done
<1> QED
  BY <1>1, AnswerSafe, PTL

----------------------------------------------------------------------------

LEMMA RetInductive ==
    ASSUME TypeOK, TxnInv, RetInv, [Next]_vars
    PROVE  RetInv'
<1>1. \A c \in Calls : pc'[c] = "returned" =>
         pc[c] = "returned" \/ c \in FireAndForget \/ slot[c] # None
  BY CallFrame DEF callVars, Invoke, Begin, FinishWrite, ReleasePermit, Return, Cancel,
       PickClient, WriteLine, WriteToClosed, TypeOK
<1>2. \A c \in Calls : slot[c] # None => slot'[c] # None
  BY OutcomeKept
<1> QED
  BY <1>1, <1>2 DEF RetInv

\* How a step moves the phase of one call.
LEMMA PhaseMoves ==
    ASSUME TypeOK, TxnInv, RetInv, RunInv, AnswerInv, [Next]_vars
    PROVE  \/ \A d \in Calls : Phase(d)' = Phase(d)
           \/ /\ UNCHANGED runs
              /\ \E c \in Calls :
                    /\ \A d \in Calls : d # c => Phase(d)' = Phase(d)
                    /\ \/ Phase(c) = "idle" /\ Phase(c)' = "open"
                       \/ Phase(c) = "open" /\ Phase(c)' = "abandoned"
                       \/ /\ Phase(c) = "open" /\ Phase(c)' = "failed"
                          /\ c \notin FireAndForget
                       \/ /\ Phase(c) = "open" /\ Phase(c)' = "answered"
                          /\ runs[c] = 1 \/ c \in FireAndForget
<1> USE DEF Phase
<1>1. ASSUME NEW d \in Calls, pc'[d] = pc[d] PROVE Phase(d)' = Phase(d)
  <2>1. CASE pc[d] # "returned"
    BY <1>1, <2>1
  <2>2. CASE pc[d] = "returned"
    BY <1>1, <2>2, OutcomeKept DEF RetInv
  <2> QED
    BY <2>1, <2>2
<1>2. CASE pc' = pc
  BY <1>1, <1>2
<1>3. ASSUME NEW c \in Calls, Invoke(c)
      PROVE  /\ UNCHANGED runs /\ \A d \in Calls : d # c => pc'[d] = pc[d]
             /\ Phase(c) = "idle" /\ Phase(c)' = "open"
  BY <1>3 DEF Invoke, TypeOK, helpVars
<1>4. ASSUME NEW c \in Calls, Begin(c) PROVE \A d \in Calls : Phase(d)' = Phase(d)
  <2>1. \A d \in Calls : d # c => pc'[d] = pc[d]
    BY <1>4 DEF Begin, TypeOK
  <2>2. pc[c] = "queued" /\ pc'[c] = "writing"
    BY <1>4 DEF Begin, TypeOK
  <2> QED
    BY <1>1, <2>1, <2>2
<1>5. ASSUME NEW c \in Calls, FinishWrite(c)
      PROVE  \/ \A d \in Calls : Phase(d)' = Phase(d)
             \/ /\ UNCHANGED runs /\ \A d \in Calls : d # c => pc'[d] = pc[d]
                /\ Phase(c) = "open" /\ Phase(c)' = "answered" /\ c \in FireAndForget
  <2>1. UNCHANGED runs /\ \A d \in Calls : d # c => pc'[d] = pc[d]
    BY <1>5 DEF FinishWrite, TypeOK, helpVars
  <2>2. pc[c] = "writing" /\ pc'[c] = IF c \in FireAndForget THEN "returned" ELSE "awaiting"
    BY <1>5 DEF FinishWrite, TypeOK
  <2> QED
    BY <1>1, <2>1, <2>2
<1>6. ASSUME NEW c \in Calls, Return(c)
      PROVE  /\ UNCHANGED runs /\ \A d \in Calls : d # c => pc'[d] = pc[d]
             /\ c \notin FireAndForget /\ Phase(c) = "open"
             /\ \/ Phase(c)' = "failed"
                \/ Phase(c)' = "answered" /\ runs[c] = 1
  <2>1. UNCHANGED <<slot, runs>> /\ \A d \in Calls : d # c => pc'[d] = pc[d]
    BY <1>6 DEF Return, TypeOK, helpVars, txnVars
  <2>2. pc[c] = "awaiting" /\ pc'[c] = "returned" /\ c \notin FireAndForget
    BY <1>6 DEF Return, TypeOK, TxnInv
  <2>3. slot[c] = "ok" => runs[c] > 0 /\ runs[c] <= 1 /\ runs[c] \in Nat
    BY DEF AnswerInv, Done, RunInv, RunInvOf, TypeOK
  <2>4. slot[c] = "ok" => runs[c] = 1
    BY <2>3
  <2> QED
    BY <2>1, <2>2, <2>4
<1>7. ASSUME NEW c \in Calls, Cancel(c)
      PROVE  /\ UNCHANGED runs /\ \A d \in Calls : d # c => pc'[d] = pc[d]
             /\ Phase(c) = "open" /\ Phase(c)' = "abandoned"
  BY <1>7 DEF Cancel, TypeOK, helpVars
<1>8. pc' = pc \/ \E c \in Calls :
         Invoke(c) \/ Begin(c) \/ FinishWrite(c) \/ Return(c) \/ Cancel(c)
  BY CallFrame DEF callVars, ReleasePermit, PickClient, WriteLine, WriteToClosed
<1> HIDE DEF Phase
<1> QED
  BY <1>1, <1>2, <1>3, <1>4, <1>5, <1>6, <1>7, <1>8

\* A step executes nothing, or one action that was invoked and never executed.
LEMMA RunMoves ==
    ASSUME TypeOK, RunInv, [Next]_vars
    PROVE  \/ UNCHANGED runs
           \/ /\ UNCHANGED pc
              /\ \E c \in Calls : /\ runs[c] = 0 /\ runs' = [runs EXCEPT ![c] = 1]
                                  /\ pc[c] # "idle"
<1>1. ASSUME NEW a \in Apps, HelperRead(a), runs' # runs
      PROVE  /\ UNCHANGED pc
             /\ \E c \in Calls : /\ runs[c] = 0 /\ runs' = [runs EXCEPT ![c] = 1]
                                 /\ pc[c] # "idle"
  <2>1. link[a] \in Conns /\ outbox[link[a]] # <<>>
        /\ outbox[link[a]] \in Seq(Calls \cup {Garbled})
    BY <1>1 DEF HelperRead, Knows, TypeOK
  <2> DEFINE c == Head(outbox[link[a]])
  <2>2. c \in Calls \cup {Garbled}
    BY <2>1
  <2>3. c \in Calls /\ Target[c] = a /\ runs' = [runs EXCEPT ![c] = @ + 1] /\ UNCHANGED pc
    BY <1>1, <2>2 DEF HelperRead, Knows, callVars
  <2>4. In(outbox[link[a]], c)
    BY <2>1, TailOnce
  <2> HIDE DEF c
  <2>5. runs[c] = 0 /\ pc[c] # "idle"
    BY <2>1, <2>3, <2>4 DEF RunInv, RunInvOf, Holds
  <2>6. runs' = [runs EXCEPT ![c] = 1]
    BY <2>3, <2>5
  <2> QED
    BY <2>3, <2>5, <2>6
<1>2. UNCHANGED runs \/ \E a \in Apps : HelperRead(a)
  BY RunFrame DEF Invoke, Begin, FinishWrite, Return, Cancel, PickClient, WriteLine,
       WriteToClosed, Connect, Disconnect, helpVars
<1> QED
  BY <1>1, <1>2

\* The service, its transactions and the helpers implement the promise made to
\* the handlers.
THEOREM Implements == Spec => KeepsPromise
<1> USE DEF Promise!vars, Promise!Move, Promise!Open, Promise!Answer, Promise!Fail,
            Promise!Abandon, Promise!Execute, Promise!Next
<1>1. Init => Promise!Init
  BY DEF Init, Promise!Init, Phase
<1>2. Init => RetInv /\ TxnInv
  BY DEF Init, RetInv, TxnInv
<1>3. ASSUME TypeOK, TxnInv, RetInv, RunInv, AnswerInv, [Next]_vars
      PROVE  [Promise!Next]_(Promise!vars)
  <2> DEFINE phase == [c \in Calls |-> Phase(c)]
  <2>1. CASE \A d \in Calls : Phase(d)' = Phase(d)
    <3>1. phase' = phase
      BY <2>1
    <3>2. CASE UNCHANGED runs
      BY <3>1, <3>2
    <3>3. ASSUME NEW c \in Calls, runs[c] = 0, runs' = [runs EXCEPT ![c] = 1], pc[c] # "idle"
          PROVE  Promise!Execute(c)
      <4>1. phase[c] # "idle"
        BY <1>3, <3>3 DEF Phase, TypeOK, Steps
      <4> QED
        BY <3>1, <3>3, <4>1
    <3> QED
      BY <1>3, <3>2, <3>3, RunMoves
  <2>2. ASSUME UNCHANGED runs, NEW c \in Calls,
               \A d \in Calls : d # c => Phase(d)' = Phase(d)
        PROVE  phase' = [phase EXCEPT ![c] = Phase(c)'] /\ phase[c] = Phase(c)
    BY <2>2
  <2> QED
    BY <1>3, <2>1, <2>2, PhaseMoves
<1> QED
  BY <1>1, <1>2, <1>3, Typing, TxnInductive, RetInductive, RunSafe, AnswerSafe, PTL
  DEF Spec, KeepsPromise, Promise!Spec
=============================================================================
